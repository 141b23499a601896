--------------------------- MODULE OutreachProofs ---------------------------
(***************************************************************************)
(* What holds of the mails the backend sends on its own, for any number of *)
(* trips, users and hours, and any number of failures: nobody is reminded  *)
(* twice, and who is on a cancelled trip is told.                          *)
(***************************************************************************)
EXTENDS Outreach, TLAPS

-----------------------------------------------------------------------------
(* The invariant *)

TripRows == [status : TripStatus, min : Nat, max : Nat, deadline : Nat, departure : 0 .. Horizon]

RowsTyped ==
  /\ clock \in 0 .. Horizon /\ faults \in Nat /\ due \subseteq Jobs
  /\ trips \in [Trips -> TripRows]
  /\ booking \in [Trips -> [People -> {"NONE", "PENDING", "CONFIRMED"}]]
  /\ at \in [Workers -> Stages]
  /\ DOMAIN queue = Workers /\ DOMAIN hand = Workers /\ DOMAIN mail = Workers

\* The notifications a worker sends, the stages it goes through, and the trips
\* it does so for.
EventsOf(w) ==
  CASE w = "reminder" -> {"REMINDER"}
    [] w = "sweep"    -> {"CANCELLED", "COMPLETED"}
    [] OTHER          -> {"CONFIRMED", "CANCELLED", "READY", "ACCEPTED", "SIGNAL_INVITE"}

StagesOf(w) ==
  CASE w = "reminder" -> {"idle", "list", "dispatch", "mail"}
    [] w = "sweep"    -> {"idle", "list", "departed", "save", "dispatch", "mail"}
    [] OTHER          -> {"idle", "save", "dispatch", "mail", "group", "link"}

\* What is said of each worker.
WorkerOK(w) ==
  /\ at[w] \in StagesOf(w)
  /\ hand[w] = [trip |-> hand[w].trip, event |-> hand[w].event, rider |-> hand[w].rider]
  /\ at[w] \in {"idle", "list", "departed"} => hand[w] = Idle
  /\ at[w] \notin {"idle", "list", "departed"} =>
       hand[w].trip \in Trips /\ hand[w].event \in EventsOf(w)
  /\ at[w] = "save" => hand[w].event \in {"CANCELLED", "CONFIRMED", "COMPLETED"}
  /\ w \in due => at[w] = "idle"

WorkersInv == \A w \in Workers : WorkerOK(w)

\* A reminder job runs once in an hour, and only for trips of that hour's window.
ReminderInv ==
  /\ at["reminder"] = "idle" => queue["reminder"] = {}
  /\ \A t \in queue["reminder"] : t \in Trips /\ DueForReminder(t)
  /\ hand["reminder"].event = "REMINDER" =>
       DueForReminder(hand["reminder"].trip) /\ hand["reminder"].trip \notin queue["reminder"]

\* Who has been reminded of a trip was so in its window, and in this hour only
\* when the job has been past him.
RemindedInv ==
  \A m \in inbox : m.event = "REMINDER" =>
    /\ m.trip \in Trips /\ trips[m.trip].departure <= clock + Lead + 1
    /\ DueForReminder(m.trip) =>
         /\ "reminder" \notin due /\ m.trip \notin queue["reminder"]
         /\ hand["reminder"].event = "REMINDER" /\ hand["reminder"].trip = m.trip =>
              at["reminder"] = "mail" /\ m.to \notin mail["reminder"]

Told(t, u) == [to |-> u, trip |-> t, event |-> "CANCELLED"] \in inbox

\* Worker w is about to tell u.
Telling(w, t, u) ==
  /\ hand[w].trip = t /\ hand[w].event = "CANCELLED"
  /\ at[w] = "dispatch" \/ (at[w] = "mail" /\ u \in mail[w])

TellInv ==
  faults = 0 =>
    \A t \in InStatus({"CANCELLED"}) :
      \A u \in ({Driver} \cup Riders(t, {"CONFIRMED", "PENDING"})) \ muted :
        Told(t, u) \/ \E w \in Workers : Telling(w, t, u)

OutreachInv ==
  RowsTyped /\ WorkersInv /\ ReminderInv /\ RemindedInv /\ RemindedOnce /\ TellInv

-----------------------------------------------------------------------------
(* What a step of one worker leaves alone *)

\* A worker that goes on has its stage and its hand changed, and nobody else's.
LEMMA GotoMoves ==
  ASSUME RowsTyped, NEW w \in Workers, NEW stage \in Stages, NEW h, Goto(w, stage, h)
  PROVE  /\ at' \in [Workers -> Stages] /\ DOMAIN hand' = Workers
         /\ at'[w] = stage /\ hand'[w] = IF stage = "idle" THEN Idle ELSE h
         /\ \A v \in Workers \ {w} : at'[v] = at[v] /\ hand'[v] = hand[v]
  BY DEF RowsTyped, Goto

\* One worker's step keeps what is said of all workers if it does for this one.
LEMMA OneWorker ==
  ASSUME WorkersInv, NEW w \in Workers, due' \subseteq due,
         \A v \in Workers \ {w} : at'[v] = at[v] /\ hand'[v] = hand[v], WorkerOK(w)'
  PROVE  WorkersInv'
<1> SUFFICES ASSUME NEW v \in Workers PROVE WorkerOK(v)'
  BY DEF WorkersInv
<1>1. CASE v = w BY <1>1
<1>2. CASE v # w BY <1>2 DEF WorkersInv, WorkerOK, StagesOf, EventsOf
<1> QED BY <1>1, <1>2

\* Nothing that concerns the reminder job has changed.
ReminderWaits ==
  /\ clock' = clock /\ \A t \in Trips : trips'[t].departure = trips[t].departure
  /\ at'["reminder"] = at["reminder"] /\ queue'["reminder"] = queue["reminder"]
  /\ hand'["reminder"] = hand["reminder"] /\ mail'["reminder"] = mail["reminder"]
  /\ "reminder" \in due' <=> "reminder" \in due

\* No reminder has been mailed.
NoReminder ==
  /\ \A m \in inbox' : m.event = "REMINDER" => m \in inbox
  /\ \A m \in again' : m.event = "REMINDER" => m \in again

\* What the reminder job has in hand is a trip.
LEMMA RemindsTrips ==
  ASSUME WorkersInv, hand["reminder"].event = "REMINDER"
  PROVE  hand["reminder"].trip \in Trips
  BY DEF WorkersInv, WorkerOK, Workers, Jobs, Idle, StagesOf

LEMMA ReminderFrame ==
  ASSUME OutreachInv, ReminderWaits, NoReminder
  PROVE  ReminderInv' /\ RemindedInv' /\ RemindedOnce'
<1> USE DEF OutreachInv, ReminderWaits
<1>1. \A t \in Trips : DueForReminder(t)' <=> DueForReminder(t)
  BY DEF DueForReminder
<1>2. ReminderInv'
  BY <1>1, RemindsTrips DEF ReminderInv
<1>3. RemindedInv'
  <2> SUFFICES ASSUME NEW m \in inbox', m.event = "REMINDER"
        PROVE /\ m.trip \in Trips /\ trips'[m.trip].departure <= clock' + Lead + 1
              /\ DueForReminder(m.trip)' =>
                   /\ "reminder" \notin due' /\ m.trip \notin queue'["reminder"]
                   /\ hand'["reminder"].event = "REMINDER" /\ hand'["reminder"].trip = m.trip =>
                        at'["reminder"] = "mail" /\ m.to \notin mail'["reminder"]
    BY DEF RemindedInv
  <2>1. m \in inbox BY DEF NoReminder
  <2> QED BY <1>1, <2>1 DEF RemindedInv
<1>4. RemindedOnce'
  BY DEF RemindedOnce, NoReminder
<1> QED BY <1>2, <1>3, <1>4

\* Nobody has to be told of a cancellation who had not, and who was about to be
\* told still is.
StillTold ==
  /\ faults' = 0 => faults = 0
  /\ muted' = muted /\ inbox \subseteq inbox'
  /\ InStatus({"CANCELLED"})' \subseteq InStatus({"CANCELLED"})
  /\ \A t \in InStatus({"CANCELLED"}) :
       Riders(t, {"CONFIRMED", "PENDING"})' \subseteq Riders(t, {"CONFIRMED", "PENDING"})
  /\ \A t \in InStatus({"CANCELLED"}) : \A u \in {Driver} \cup Riders(t, {"CONFIRMED", "PENDING"}) :
       \A w \in Workers : Telling(w, t, u) => Telling(w, t, u)' \/ Told(t, u)' \/ u \in muted

LEMMA TellFrame ==
  ASSUME OutreachInv, StillTold
  PROVE  TellInv'
<1> SUFFICES ASSUME faults' = 0, NEW t \in InStatus({"CANCELLED"})',
                    NEW u \in (({Driver} \cup Riders(t, {"CONFIRMED", "PENDING"})) \ muted)'
             PROVE  Told(t, u)' \/ \E w \in Workers : Telling(w, t, u)'
  BY DEF TellInv
<1>1. t \in InStatus({"CANCELLED"}) /\ faults = 0
  BY DEF StillTold
<1>2. u \in ({Driver} \cup Riders(t, {"CONFIRMED", "PENDING"})) \ muted
  BY <1>1 DEF StillTold
<1>3. Told(t, u) => Told(t, u)'
  BY DEF Told, StillTold
<1>4. Told(t, u) \/ \E w \in Workers : Telling(w, t, u)
  BY <1>1, <1>2 DEF OutreachInv, TellInv
<1> QED BY <1>1, <1>2, <1>3, <1>4 DEF StillTold

-----------------------------------------------------------------------------
(* The start, the hours, the process *)

LEMMA OutreachInvInit == OutreachInit => OutreachInv
<1> SUFFICES ASSUME OutreachInit PROVE OutreachInv
  OBVIOUS
<1> USE DEF OutreachInit
<1>1. PICK c \in TripChoices : trips = c.trips /\ booking = c.booking /\ muted = c.muted
  OBVIOUS
<1>2. trips \in [Trips -> [status : Band \cup {"CONFIRMED"}, min : Nat, max : Nat,
                           deadline : Nat, departure : 0 .. Horizon]]
  BY <1>1, ChoicesAssumption
<1>3. \A t \in Trips : trips[t] \in TripRows /\ trips[t].status # "CANCELLED"
  <2> SUFFICES ASSUME NEW t \in Trips PROVE trips[t] \in TripRows /\ trips[t].status # "CANCELLED"
    OBVIOUS
  <2>1. trips[t] \in [status : Band \cup {"CONFIRMED"}, min : Nat, max : Nat,
                      deadline : Nat, departure : 0 .. Horizon]
    BY <1>2
  <2> QED BY <2>1 DEF TripRows, TripStatus, Band
<1>4. RowsTyped
  <2>1. booking \in [Trips -> [People -> {"NONE", "PENDING", "CONFIRMED"}]]
    BY <1>1, ChoicesAssumption
  <2> QED BY <1>2, <1>3, <2>1, OutreachAssumption DEF RowsTyped, Stages
<1>5. WorkersInv
  BY DEF WorkersInv, WorkerOK, StagesOf, Idle
<1>6. ReminderInv /\ RemindedInv /\ RemindedOnce
  BY DEF ReminderInv, RemindedInv, RemindedOnce, Idle, Workers, Jobs
<1>7. TellInv
  BY <1>3 DEF TellInv, InStatus
<1> QED BY <1>4, <1>5, <1>6, <1>7 DEF OutreachInv

\* What has been reminded in this hour is out of the window in the next.
LEMMA HourStep == OutreachInv /\ Hour => OutreachInv'
<1> SUFFICES ASSUME OutreachInv, Hour PROVE OutreachInv'
  OBVIOUS
<1> USE DEF OutreachInv, Hour, workVars, dbVars, auxVars
<1>1. RowsTyped'
  BY OutreachAssumption DEF RowsTyped
<1>2. WorkersInv'
  BY DEF WorkersInv, WorkerOK, StagesOf, EventsOf
<1>3. at["reminder"] = "idle" /\ queue["reminder"] = {} /\ hand["reminder"] = Idle
  BY DEF Jobs, Workers, WorkersInv, WorkerOK, ReminderInv
<1>4. ReminderInv'
  BY <1>3 DEF ReminderInv, Idle
<1>5. \A t \in Trips : trips[t].departure <= clock + Lead + 1 =>
        ~ DueForReminder(t)' /\ trips[t].departure <= clock' + Lead + 1
  <2> SUFFICES ASSUME NEW t \in Trips, trips[t].departure <= clock + Lead + 1
        PROVE ~ DueForReminder(t)' /\ trips[t].departure <= clock' + Lead + 1
    OBVIOUS
  <2>1. trips[t].departure \in 0 .. Horizon
    BY DEF RowsTyped, TripRows
  <2> QED BY <2>1, OutreachAssumption DEF RowsTyped, DueForReminder
<1>6. RemindedInv'
  BY <1>5 DEF RemindedInv
<1>7. RemindedOnce'
  BY DEF RemindedOnce
<1>8. TellInv'
  BY TellFrame DEF StillTold, InStatus, Riders, Telling
<1> QED BY <1>1, <1>2, <1>4, <1>6, <1>7, <1>8

LEMMA CrashStep == OutreachInv /\ Crash => OutreachInv'
<1> SUFFICES ASSUME OutreachInv, Crash PROVE OutreachInv'
  OBVIOUS
<1> USE DEF OutreachInv, Crash, dbVars, auxVars
<1>1. RowsTyped' /\ faults' # 0
  BY DEF RowsTyped, Fault, Stages
<1>2. WorkersInv'
  BY DEF WorkersInv, WorkerOK, StagesOf, Idle
<1>3. ReminderInv'
  BY DEF ReminderInv, Idle, Workers, Jobs
<1>4. RemindedInv'
  BY DEF RemindedInv, Idle, Workers, Jobs
<1>5. RemindedOnce' /\ TellInv'
  BY <1>1 DEF RemindedOnce, TellInv
<1> QED BY <1>1, <1>2, <1>3, <1>4, <1>5

\* A process that is started again finds the rows, and its workers idle.
LEMMA SameStep ==
  ASSUME OutreachInv, UNCHANGED <<clock, due, dbVars, muted, workVars, groups, faults, auxVars>>
  PROVE  OutreachInv'
<1> USE DEF OutreachInv, dbVars, workVars, auxVars
<1>1. RowsTyped' /\ WorkersInv'
  BY DEF RowsTyped, WorkersInv, WorkerOK, StagesOf, EventsOf
<1>2. ReminderInv' /\ RemindedInv' /\ RemindedOnce'
  BY ReminderFrame DEF ReminderWaits, NoReminder
<1>3. TellInv'
  BY TellFrame DEF StillTold, InStatus, Riders, Telling
<1> QED BY <1>1, <1>2, <1>3

-----------------------------------------------------------------------------
(* The jobs *)

LEMMA StartJobStep ==
  ASSUME OutreachInv, NEW j \in Jobs, StartJob(j)
  PROVE  OutreachInv'
<1> USE DEF OutreachInv, dbVars, auxVars
<1>0. j \in Workers /\ Stages = Stages /\ "list" \in Stages
  BY DEF Workers, Stages
<1>1. CASE /\ Goto(j, "list", Idle) /\ queue' = [queue EXCEPT ![j] = ListOf(j)] /\ UNCHANGED faults
  <2>1. /\ at' \in [Workers -> Stages] /\ DOMAIN hand' = Workers
        /\ at'[j] = "list" /\ hand'[j] = Idle
        /\ \A v \in Workers \ {j} : at'[v] = at[v] /\ hand'[v] = hand[v]
    BY <1>0, <1>1, GotoMoves
  <2>2. RowsTyped'
    BY <1>1, <2>1 DEF RowsTyped, StartJob
  <2>3. WorkersInv'
    <3>1. WorkerOK(j)'
      BY <2>1 DEF WorkerOK, StagesOf, Jobs, StartJob, Idle
    <3>2. due' \subseteq due
      BY DEF StartJob
    <3> QED BY <1>0, <2>1, <3>1, <3>2, OneWorker
  <2>4. ReminderInv' /\ RemindedInv' /\ RemindedOnce'
    <3>1. CASE j = "reminder"
      <4>1. queue'["reminder"] = {t \in InStatus({"CONFIRMED"}) : DueForReminder(t)}
        BY <1>0, <1>1, <3>1 DEF RowsTyped, ListOf
      <4>2. at'["reminder"] = "list" /\ hand'["reminder"] = Idle /\ "reminder" \notin due'
        BY <2>1, <3>1 DEF StartJob
      <4>3. "reminder" \in due BY <3>1 DEF StartJob
      <4>4. \A t : DueForReminder(t)' <=> DueForReminder(t)
        BY DEF StartJob, DueForReminder
      <4>5. ReminderInv'
        BY <4>1, <4>2, <4>4 DEF ReminderInv, InStatus, Idle
      <4>6. \A m \in inbox : m.event = "REMINDER" => ~ DueForReminder(m.trip)
        BY <4>3 DEF RemindedInv
      <4>7. RemindedInv'
        BY <4>4, <4>6 DEF RemindedInv, StartJob
      <4> QED BY <4>5, <4>7 DEF RemindedOnce, StartJob
    <3>2. CASE j # "reminder"
      <4>1. ReminderWaits
        BY <1>1, <2>1, <3>2 DEF ReminderWaits, StartJob, Workers, Jobs, RowsTyped
      <4> QED BY <4>1, ReminderFrame DEF NoReminder, StartJob
    <3> QED BY <3>1, <3>2
  <2>5. TellInv'
    <3>1. at[j] = "idle"
      BY <1>0 DEF StartJob, WorkersInv, WorkerOK
    <3>2. \A w \in Workers : \A t, u : Telling(w, t, u) => Telling(w, t, u)'
      BY <1>1, <2>1, <3>1 DEF Telling, StartJob
    <3> QED BY <1>1, <3>2, TellFrame DEF StillTold, StartJob, InStatus, Riders
  <2> QED BY <2>2, <2>3, <2>4, <2>5
<1>2. CASE Fault /\ UNCHANGED <<at, hand, queue>>
  <2>1. RowsTyped' /\ WorkersInv' /\ faults' # 0
    BY <1>2 DEF RowsTyped, WorkersInv, WorkerOK, StagesOf, EventsOf, StartJob, Fault
  <2>2. ReminderInv' /\ RemindedInv' /\ RemindedOnce'
    BY <1>2 DEF ReminderInv, RemindedInv, RemindedOnce, StartJob, DueForReminder
  <2> QED BY <2>1, <2>2 DEF TellInv
<1> QED BY <1>1, <1>2 DEF StartJob

\* A worker that is at its list, saves or calls tells nobody of anything.
LEMMA QuietWorker ==
  ASSUME OutreachInv, NEW j \in Workers, at[j] \notin {"dispatch", "mail"},
         \A v \in Workers \ {j} : at'[v] = at[v] /\ hand'[v] = hand[v],
         UNCHANGED <<trips, booking, muted, mail, inbox, faults>>
  PROVE  TellInv'
<1>1. \A w \in Workers : \A t, u : Telling(w, t, u) => Telling(w, t, u)'
  BY DEF Telling
<1> QED BY <1>1, TellFrame DEF StillTold, InStatus, Riders

\* The reminder job comes to the next trip of its list: it is in the window,
\* and who has been reminded in this hour was so of other trips.
LEMMA RemindNextStep ==
  ASSUME OutreachInv, NEW t \in Trips, RemindNext(t)
  PROVE  OutreachInv'
<1> USE DEF OutreachInv, RemindNext, dbVars, auxVars
<1> DEFINE j == "reminder"
<1>0. j \in Workers /\ j \in Jobs /\ "dispatch" \in Stages
  BY DEF Workers, Jobs, Stages
<1>1. /\ at' \in [Workers -> Stages] /\ DOMAIN hand' = Workers
      /\ at'[j] = "dispatch" /\ hand'[j] = About(t, "REMINDER")
      /\ \A v \in Workers \ {j} : at'[v] = at[v] /\ hand'[v] = hand[v]
  BY <1>0, GotoMoves
<1>2. queue'[j] = queue[j] \ {t} /\ DOMAIN queue' = Workers
  BY <1>0 DEF RowsTyped
<1>3. RowsTyped'
  BY <1>1, <1>2 DEF RowsTyped
<1>4. WorkerOK(j)'
  <2>1. j \notin due
    BY <1>0 DEF WorkersInv, WorkerOK
  <2> QED BY <1>1, <2>1 DEF WorkerOK, StagesOf, EventsOf, About
<1>5. WorkersInv'
  BY <1>0, <1>1, <1>4, OneWorker
<1>6. DueForReminder(t) /\ \A s : DueForReminder(s)' <=> DueForReminder(s)
  BY DEF ReminderInv, DueForReminder
<1>7. ReminderInv'
  BY <1>1, <1>2, <1>6 DEF ReminderInv, About
<1>8. RemindedInv'
  <2> SUFFICES ASSUME NEW m \in inbox, m.event = "REMINDER", DueForReminder(m.trip)
               PROVE  "reminder" \notin due /\ m.trip \notin queue'[j] /\ m.trip # t
    BY <1>1, <1>6 DEF RemindedInv, About
  <2> QED BY <1>2 DEF RemindedInv
<1>9. RemindedOnce' /\ TellInv'
  BY <1>0, <1>1, QuietWorker DEF RemindedOnce
<1> QED BY <1>3, <1>5, <1>7, <1>8, <1>9

\* The sweep comes to the next trip of either list.
LEMMA SweepNextStep ==
  ASSUME OutreachInv, NEW t \in Trips, SweepNext(t) \/ CompleteNext(t)
  PROVE  OutreachInv'
<1> USE DEF OutreachInv, dbVars, auxVars
<1> DEFINE j == "sweep"
<1>0. j \in Workers /\ j \in Jobs /\ "save" \in Stages /\ "reminder" \in Workers
  BY DEF Workers, Jobs, Stages
<1>1. /\ at[j] \in {"list", "departed"} /\ queue' = [queue EXCEPT ![j] = @ \ {t}]
      /\ UNCHANGED <<clock, up, due, dbVars, muted, mail, groups, faults, auxVars>>
  BY DEF SweepNext, CompleteNext
<1>2. \/ \E e \in {"CANCELLED", "COMPLETED"} : Goto(j, "save", About(t, e))
      \/ UNCHANGED <<hand, at>>
  BY DEF SweepNext, CompleteNext
<1>3. /\ at' \in [Workers -> Stages] /\ DOMAIN hand' = Workers
      /\ \A v \in Workers \ {j} : at'[v] = at[v] /\ hand'[v] = hand[v]
      /\ \/ \E e \in {"CANCELLED", "COMPLETED"} : at'[j] = "save" /\ hand'[j] = About(t, e)
         \/ at'[j] = at[j] /\ hand'[j] = hand[j]
  BY <1>0, <1>2, GotoMoves DEF RowsTyped
<1>4. RowsTyped'
  BY <1>1, <1>3 DEF RowsTyped
<1>5. WorkerOK(j) /\ j \notin due
  BY <1>0, <1>1 DEF WorkersInv, WorkerOK
<1>6. WorkerOK(j)'
  BY <1>1, <1>3, <1>5 DEF WorkerOK, StagesOf, EventsOf, About
<1>7. WorkersInv'
  BY <1>0, <1>1, <1>3, <1>6, OneWorker
<1>8. ReminderWaits /\ NoReminder
  BY <1>0, <1>1, <1>3 DEF ReminderWaits, NoReminder, RowsTyped
<1>9. TellInv'
  BY <1>0, <1>1, <1>3, QuietWorker
<1> QED BY <1>4, <1>7, <1>8, <1>9, ReminderFrame

\* The end of a list.
LEMMA ListDoneStep ==
  ASSUME OutreachInv, NEW j \in Jobs, ListDone(j)
  PROVE  OutreachInv'
<1> USE DEF OutreachInv, dbVars, auxVars
<1>0. j \in Workers /\ "idle" \in Stages /\ "departed" \in Stages
  BY DEF Workers, Stages
<1>1. /\ at[j] \in {"list", "departed"} /\ queue[j] = {}
      /\ UNCHANGED <<clock, up, due, dbVars, muted, mail, groups, faults, auxVars>>
  BY DEF ListDone
<1>2. /\ at' \in [Workers -> Stages] /\ DOMAIN hand' = Workers /\ DOMAIN queue' = Workers
      /\ hand'[j] = Idle
      /\ \/ j = "sweep" /\ at'[j] = "departed"
         \/ at'[j] = "idle" /\ queue' = queue
      /\ \A v \in Workers \ {j} : at'[v] = at[v] /\ hand'[v] = hand[v] /\ queue'[v] = queue[v]
  <2>1. CASE j = "sweep" /\ at[j] = "list"
    BY <1>0, <2>1, GotoMoves DEF ListDone, RowsTyped
  <2>2. CASE ~(j = "sweep" /\ at[j] = "list")
    BY <1>0, <2>2, GotoMoves DEF ListDone, RowsTyped
  <2> QED BY <2>1, <2>2
<1>3. RowsTyped'
  BY <1>1, <1>2 DEF RowsTyped
<1>4. j \notin due
  BY <1>0, <1>1 DEF WorkersInv, WorkerOK
<1>5. WorkerOK(j)'
  BY <1>1, <1>2, <1>4 DEF WorkerOK, StagesOf, Jobs, Idle
<1>6. WorkersInv'
  BY <1>0, <1>1, <1>2, <1>5, OneWorker
<1>7. ReminderInv' /\ RemindedInv' /\ RemindedOnce'
  <2>1. CASE j = "reminder"
    <3>1. at'[j] = "idle" /\ queue'[j] = {} /\ hand'[j] = Idle
      BY <1>1, <1>2, <2>1
    <3>2. \A t : DueForReminder(t)' <=> DueForReminder(t)
      BY <1>1 DEF DueForReminder
    <3> QED BY <1>1, <2>1, <3>1, <3>2 DEF ReminderInv, RemindedInv, RemindedOnce, Idle
  <2>2. CASE j # "reminder"
    <3>1. ReminderWaits /\ NoReminder
      BY <1>1, <1>2, <2>2 DEF ReminderWaits, NoReminder, Workers, Jobs
    <3> QED BY <3>1, ReminderFrame
  <2> QED BY <2>1, <2>2
<1>8. TellInv'
  BY <1>0, <1>1, <1>2, QuietWorker
<1> QED BY <1>3, <1>6, <1>7, <1>8

-----------------------------------------------------------------------------
(* The requests *)

\* A step of the request or the sweep is none of the reminder job's.
LEMMA NotTheReminder ==
  ASSUME OutreachInv, NEW w \in Workers, w # "reminder",
         \A v \in Workers \ {w} : at'[v] = at[v] /\ hand'[v] = hand[v],
         queue'["reminder"] = queue["reminder"], mail'["reminder"] = mail["reminder"],
         \A t \in Trips : trips'[t].departure = trips[t].departure,
         UNCHANGED <<clock, due>>, NoReminder
  PROVE  ReminderInv' /\ RemindedInv' /\ RemindedOnce'
<1>1. ReminderWaits
  BY DEF ReminderWaits, Workers, Jobs
<1> QED BY <1>1, ReminderFrame

\* confirm() and cancel() judge what they read.
LEMMA DecideStep ==
  ASSUME OutreachInv, NEW t \in Trips, NEW e \in {"CONFIRMED", "CANCELLED"}, Decide(t, e)
  PROVE  OutreachInv'
<1> USE DEF OutreachInv, Decide, dbVars, auxVars
<1> DEFINE r == "request"
<1>0. r \in Workers /\ "save" \in Stages
  BY DEF Workers, Stages
<1>1. /\ at' \in [Workers -> Stages] /\ DOMAIN hand' = Workers
      /\ at'[r] = "save" /\ hand'[r] = About(t, e)
      /\ \A v \in Workers \ {r} : at'[v] = at[v] /\ hand'[v] = hand[v]
  BY <1>0, GotoMoves
<1>2. RowsTyped'
  BY <1>1 DEF RowsTyped
<1>3. WorkerOK(r)'
  BY <1>0, <1>1 DEF RowsTyped, Jobs, WorkerOK, StagesOf, EventsOf, About
<1>4. WorkersInv'
  BY <1>0, <1>1, <1>3, OneWorker
<1>5. ReminderInv' /\ RemindedInv' /\ RemindedOnce'
  BY <1>0, <1>1, NotTheReminder DEF NoReminder
<1>6. TellInv'
  BY <1>0, <1>1, QuietWorker
<1> QED BY <1>2, <1>4, <1>5, <1>6

\* A booking moves a trip within the band, and a cancelled trip only loses riders.
LEMMA RebookStep ==
  ASSUME OutreachInv, NEW t \in Trips, NEW p \in People, NEW from, NEW to \in {"NONE", "CONFIRMED"},
         to = "CONFIRMED" => trips[t].status # "CANCELLED", Rebook(t, p, from, to)
  PROVE  OutreachInv'
<1> USE DEF OutreachInv, dbVars, auxVars
<1> DEFINE r == "request"
<1>0. r \in Workers /\ "dispatch" \in Stages /\ "idle" \in Stages
  BY DEF Workers, Stages
<1>1. /\ at[r] = "idle"
      /\ booking' = [booking EXCEPT ![t][p] = to]
      /\ UNCHANGED <<clock, up, due, muted, queue, mail, groups, faults, auxVars>>
  BY DEF Rebook
<1>2. PICK status : /\ trips' = [trips EXCEPT ![t].status = status]
                    /\ status \in TripStatus
                    /\ status = "CANCELLED" => trips[t].status = "CANCELLED"
  <2>1. \A seats : /\ DeriveStatus(trips[t], seats) \in TripStatus
                   /\ DeriveStatus(trips[t], seats) = "CANCELLED" => trips[t].status = "CANCELLED"
    BY DEF DeriveStatus, TripStatus, RowsTyped, TripRows
  <2> QED BY <2>1 DEF Rebook
<1>3. PICK stage \in {"dispatch", "idle"}, e \in {"READY", "ACCEPTED"}, rider \in {p, NoOne} :
        Goto(r, stage, [trip |-> t, event |-> e, rider |-> rider])
  BY DEF Rebook
<1>4. /\ at' \in [Workers -> Stages] /\ DOMAIN hand' = Workers
      /\ at'[r] = stage
      /\ hand'[r] = IF stage = "idle" THEN Idle ELSE [trip |-> t, event |-> e, rider |-> rider]
      /\ \A v \in Workers \ {r} : at'[v] = at[v] /\ hand'[v] = hand[v]
  BY <1>0, <1>3, GotoMoves
<1>5. /\ trips' \in [Trips -> TripRows]
      /\ \A s \in Trips : trips'[s].departure = trips[s].departure
      /\ \A s \in Trips : trips'[s].status = "CANCELLED" => trips[s].status = "CANCELLED"
  BY <1>2 DEF RowsTyped, TripRows
<1>6. RowsTyped'
  BY <1>1, <1>4, <1>5 DEF RowsTyped
<1>7. WorkerOK(r)'
  BY <1>1, <1>4 DEF RowsTyped, Jobs, WorkerOK, StagesOf, EventsOf, Idle
<1>8. WorkersInv'
  BY <1>0, <1>1, <1>4, <1>7, OneWorker
<1>9. ReminderInv' /\ RemindedInv' /\ RemindedOnce'
  BY <1>0, <1>1, <1>4, <1>5, NotTheReminder DEF NoReminder
<1>10. TellInv'
  <2>1. \A s \in InStatus({"CANCELLED"}), q \in People :
          booking'[s][q] \in {"CONFIRMED", "PENDING"} => booking[s][q] \in {"CONFIRMED", "PENDING"}
    <3> SUFFICES ASSUME NEW s \in Trips, trips[s].status = "CANCELLED", NEW q \in People,
                        booking'[s][q] \in {"CONFIRMED", "PENDING"}
                 PROVE  booking[s][q] \in {"CONFIRMED", "PENDING"}
      BY DEF InStatus
    <3>1. CASE s = t /\ q = p
      BY <1>1, <3>1 DEF RowsTyped
    <3>2. CASE ~(s = t /\ q = p)
      BY <1>1, <3>2 DEF RowsTyped
    <3> QED BY <3>1, <3>2
  <2>2. \A w \in Workers : \A s, u : Telling(w, s, u) => Telling(w, s, u)'
    BY <1>0, <1>1, <1>4 DEF Telling
  <2>3. InStatus({"CANCELLED"})' \subseteq InStatus({"CANCELLED"})
    BY <1>5 DEF InStatus
  <2>4. StillTold
    BY <1>1, <2>1, <2>2, <2>3 DEF StillTold, Riders
  <2> QED BY <2>4, TellFrame
<1> QED BY <1>6, <1>8, <1>9, <1>10

LEMMA BookingStep ==
  ASSUME OutreachInv, NEW t \in Trips, NEW p \in People, Accept(t, p) \/ Withdraw(t, p)
  PROVE  OutreachInv'
<1>1. CASE Accept(t, p)
  <2>1. trips[t].status # "CANCELLED" /\ Rebook(t, p, "PENDING", "CONFIRMED")
    BY <1>1 DEF Accept, IsBookable, Band
  <2> QED BY <2>1, RebookStep
<1>2. CASE Withdraw(t, p)
  BY <1>2, RebookStep DEF Withdraw
<1> QED BY <1>1, <1>2

\* A save that throws counts as a failure.
LEMMA SaveFailsStep ==
  ASSUME OutreachInv, NEW w \in Workers, SaveFails(w)
  PROVE  OutreachInv'
<1> USE DEF OutreachInv, SaveFails, dbVars, auxVars
<1>0. "idle" \in Stages /\ w # "reminder"
  BY DEF Stages, WorkersInv, WorkerOK, StagesOf
<1>1. /\ at' \in [Workers -> Stages] /\ DOMAIN hand' = Workers
      /\ at'[w] = "idle" /\ hand'[w] = Idle
      /\ \A v \in Workers \ {w} : at'[v] = at[v] /\ hand'[v] = hand[v]
  BY <1>0, GotoMoves
<1>2. RowsTyped' /\ faults' # 0
  <2>1. faults' \in Nat /\ faults' # 0 BY DEF RowsTyped, Fault
  <2> QED BY <1>1, <2>1 DEF RowsTyped
<1>3. WorkerOK(w)'
  BY <1>1 DEF WorkerOK, StagesOf, Idle
<1>4. WorkersInv'
  BY <1>1, <1>3, OneWorker
<1>5. queue'["reminder"] = queue["reminder"]
  BY <1>0 DEF RowsTyped, Workers, Jobs
<1>6. ReminderInv' /\ RemindedInv' /\ RemindedOnce'
  BY <1>0, <1>1, <1>5, NotTheReminder DEF NoReminder
<1> QED BY <1>2, <1>4, <1>6 DEF TellInv

\* Whoever saves a cancellation goes on to tell of it.
LEMMA SaveStep ==
  ASSUME OutreachInv, NEW w \in Workers, Save(w)
  PROVE  OutreachInv'
<1> USE DEF OutreachInv, Save, dbVars, auxVars
<1>0. /\ "dispatch" \in Stages /\ w # "reminder"
      /\ hand[w].trip \in Trips /\ hand[w].event \in EventsOf(w)
      /\ hand[w].event \in {"CANCELLED", "CONFIRMED", "COMPLETED"}
      /\ hand[w] = [trip |-> hand[w].trip, event |-> hand[w].event, rider |-> hand[w].rider]
      /\ w \notin due
  BY DEF Stages, WorkersInv, WorkerOK, StagesOf
<1>1. /\ at' \in [Workers -> Stages] /\ DOMAIN hand' = Workers
      /\ at'[w] = "dispatch" /\ hand'[w] = hand[w]
      /\ \A v \in Workers \ {w} : at'[v] = at[v] /\ hand'[v] = hand[v]
  BY <1>0, GotoMoves
<1>2. /\ trips' \in [Trips -> TripRows]
      /\ \A t \in Trips : trips'[t].departure = trips[t].departure
      /\ \A t \in Trips \ {hand[w].trip} : trips'[t] = trips[t]
      /\ trips'[hand[w].trip].status = hand[w].event
  BY <1>0 DEF RowsTyped, TripRows, TripStatus
<1>3. RowsTyped'
  BY <1>1, <1>2 DEF RowsTyped
<1>4. WorkerOK(w)'
  BY <1>0, <1>1 DEF WorkerOK, StagesOf, EventsOf, Idle
<1>5. WorkersInv'
  BY <1>1, <1>4, OneWorker
<1>6. ReminderInv' /\ RemindedInv' /\ RemindedOnce'
  BY <1>0, <1>1, <1>2, NotTheReminder DEF NoReminder
<1>7. TellInv'
  <2> SUFFICES ASSUME faults' = 0, NEW t \in Trips, trips'[t].status = "CANCELLED",
                      NEW u \in ({Driver} \cup Riders(t, {"CONFIRMED", "PENDING"})) \ muted
               PROVE  Told(t, u) \/ \E v \in Workers : Telling(v, t, u)'
    BY DEF TellInv, InStatus, Riders, Told
  <2>1. CASE t = hand[w].trip
    BY <1>1, <1>2, <2>1 DEF Telling
  <2>2. CASE t # hand[w].trip
    <3>1. t \in InStatus({"CANCELLED"})
      BY <1>2, <2>2 DEF InStatus
    <3>2. Told(t, u) \/ \E v \in Workers : Telling(v, t, u)
      BY <3>1 DEF TellInv
    <3>3. \A v \in Workers : Telling(v, t, u) => Telling(v, t, u)'
      BY <1>1, <2>2 DEF Telling
    <3> QED BY <3>2, <3>3
  <2> QED BY <2>1, <2>2
<1> QED BY <1>3, <1>5, <1>6, <1>7

\* signal-cli answers, or it does not: the trip in hand is still the one confirmed.
LEMMA SignalStep ==
  ASSUME OutreachInv, SignalAnswers \/ SignalGivesUp
  PROVE  OutreachInv'
<1> USE DEF OutreachInv, dbVars, auxVars
<1> DEFINE r == "request"
<1>0. /\ r \in Workers /\ "dispatch" \in Stages /\ "idle" \in Stages /\ "link" \in Stages
      /\ at[r] \in {"group", "link"}
      /\ UNCHANGED <<clock, up, due, dbVars, muted, queue, mail, faults, auxVars>>
  BY DEF Workers, Stages, SignalAnswers, SignalGivesUp
<1>1. /\ hand[r].trip \in Trips /\ hand[r].event \in EventsOf(r) /\ r \notin due
      /\ hand[r] = [trip |-> hand[r].trip, event |-> hand[r].event, rider |-> hand[r].rider]
  BY <1>0 DEF WorkersInv, WorkerOK
<1>2. \/ Goto(r, "link", hand[r])
      \/ Goto(r, "dispatch", About(hand[r].trip, "SIGNAL_INVITE"))
      \/ Goto(r, "idle", Idle)
  BY DEF SignalAnswers, SignalGivesUp
<1>3. /\ at' \in [Workers -> Stages] /\ DOMAIN hand' = Workers
      /\ \/ at'[r] = "link" /\ hand'[r] = hand[r]
         \/ at'[r] = "dispatch" /\ hand'[r] = About(hand[r].trip, "SIGNAL_INVITE")
         \/ at'[r] = "idle" /\ hand'[r] = Idle
      /\ \A v \in Workers \ {r} : at'[v] = at[v] /\ hand'[v] = hand[v]
  BY <1>0, <1>2, GotoMoves
<1>4. RowsTyped'
  BY <1>0, <1>3 DEF RowsTyped
<1>5. WorkerOK(r)'
  BY <1>0, <1>1, <1>3 DEF WorkerOK, StagesOf, EventsOf, About, Idle
<1>6. WorkersInv'
  BY <1>0, <1>3, <1>5, OneWorker
<1>7. ReminderInv' /\ RemindedInv' /\ RemindedOnce'
  BY <1>0, <1>3, NotTheReminder DEF NoReminder
<1>8. TellInv'
  BY <1>0, <1>3, QuietWorker
<1> QED BY <1>4, <1>6, <1>7, <1>8

-----------------------------------------------------------------------------
(* The mails *)

\* Where a worker is after a mail: at the next one, or past the last, with
\* nothing in hand that has to be told, or that may be a reminder.
LEMMA MailingMoves ==
  ASSUME OutreachInv, NEW w \in Workers, at[w] \in {"dispatch", "mail"}, NEW rest,
         Mailing(w, rest), due' = due
  PROVE  /\ at' \in [Workers -> Stages] /\ DOMAIN hand' = Workers
         /\ mail' = [mail EXCEPT ![w] = rest] /\ DOMAIN mail' = Workers
         /\ \A v \in Workers \ {w} : at'[v] = at[v] /\ hand'[v] = hand[v] /\ mail'[v] = mail[v]
         /\ rest # {} => at'[w] = "mail" /\ hand'[w] = hand[w]
         /\ w = "reminder" /\ rest = {} => at'[w] = "list" /\ hand'[w] = Idle
         /\ WorkerOK(w)'
<1> USE DEF OutreachInv, Mailing
<1>1. /\ hand[w].trip \in Trips /\ hand[w].event \in EventsOf(w)
      /\ hand[w] = [trip |-> hand[w].trip, event |-> hand[w].event, rider |-> hand[w].rider]
      /\ w \notin due /\ at[w] \in StagesOf(w)
  BY DEF WorkersInv, WorkerOK
<1>2. mail' = [mail EXCEPT ![w] = rest] /\ DOMAIN mail = Workers
  BY DEF RowsTyped
<1>3. CASE rest # {}
  <2>1. "mail" \in Stages /\ Goto(w, "mail", hand[w])
    BY <1>3 DEF Stages
  <2>2. /\ at' \in [Workers -> Stages] /\ DOMAIN hand' = Workers
        /\ at'[w] = "mail" /\ hand'[w] = hand[w]
        /\ \A v \in Workers \ {w} : at'[v] = at[v] /\ hand'[v] = hand[v]
    BY <2>1, GotoMoves
  <2>3. WorkerOK(w)'
    BY <1>1, <2>2 DEF WorkerOK, StagesOf, EventsOf, Workers, Jobs
  <2> QED BY <1>2, <1>3, <2>2, <2>3
<1>4. CASE rest = {}
  <2>1. PICK stage \in Stages, h \in {Idle, hand[w], [hand[w] EXCEPT !.event = "ACCEPTED"]} :
          /\ Goto(w, stage, h)
          /\ \/ w = "sweep" /\ stage \in {"list", "departed"} /\ h = Idle
             \/ w = "reminder" /\ stage = "list" /\ h = Idle
             \/ w = "request" /\ stage = "group" /\ h = hand[w]
             \/ w = "request" /\ stage = "dispatch" /\ h = [hand[w] EXCEPT !.event = "ACCEPTED"]
             \/ w = "request" /\ stage = "idle" /\ h = Idle
    BY <1>1, <1>4 DEF Continue, Jobs, Workers, Stages, EventsOf
  <2>2. /\ at' \in [Workers -> Stages] /\ DOMAIN hand' = Workers
        /\ at'[w] = stage /\ hand'[w] = IF stage = "idle" THEN Idle ELSE h
        /\ \A v \in Workers \ {w} : at'[v] = at[v] /\ hand'[v] = hand[v]
    BY <2>1, GotoMoves
  <2>3. WorkerOK(w)'
    BY <1>1, <2>1, <2>2 DEF WorkerOK, StagesOf, EventsOf, Idle
  <2> QED BY <1>2, <1>4, <2>1, <2>2, <2>3
<1> QED BY <1>3, <1>4

\* Who is on the trip when it is dispatched is in the list of mails.
LEMMA DispatchStep ==
  ASSUME OutreachInv, NEW w \in Workers, Dispatch(w)
  PROVE  OutreachInv'
<1> USE DEF OutreachInv, dbVars, auxVars
<1>1. /\ at[w] = "dispatch"
      /\ UNCHANGED <<clock, up, due, dbVars, muted, queue, groups, auxVars>>
  BY DEF Dispatch
<1>2. PICK rest : /\ Mailing(w, rest)
                  /\ \/ rest = Recipients(hand[w]) /\ faults' = faults
                     \/ faults' \in Nat /\ faults' # 0
  BY DEF Dispatch, Fault, RowsTyped
<1>3. /\ at' \in [Workers -> Stages] /\ DOMAIN hand' = Workers
      /\ mail' = [mail EXCEPT ![w] = rest] /\ DOMAIN mail' = Workers
      /\ \A v \in Workers \ {w} : at'[v] = at[v] /\ hand'[v] = hand[v] /\ mail'[v] = mail[v]
      /\ rest # {} => at'[w] = "mail" /\ hand'[w] = hand[w]
      /\ w = "reminder" /\ rest = {} => at'[w] = "list" /\ hand'[w] = Idle
      /\ WorkerOK(w)'
  BY <1>1, <1>2, MailingMoves
<1>4. RowsTyped'
  BY <1>1, <1>2, <1>3 DEF RowsTyped
<1>5. WorkersInv'
  BY <1>1, <1>3, OneWorker
<1>6. ReminderInv' /\ RemindedInv' /\ RemindedOnce'
  <2>1. CASE w = "reminder"
    <3>1. \A t : DueForReminder(t)' <=> DueForReminder(t)
      BY <1>1 DEF DueForReminder
    <3>2. hand'[w] \in {hand[w], Idle} /\ at'[w] # "idle"
      BY <1>3, <2>1
    <3>3. ReminderInv'
      BY <1>1, <2>1, <3>1, <3>2 DEF ReminderInv, Idle
    <3>4. hand[w].event = "REMINDER"
      BY <1>1, <2>1 DEF WorkersInv, WorkerOK, EventsOf
    <3>5. \A m \in inbox : m.event = "REMINDER" /\ DueForReminder(m.trip) => m.trip # hand[w].trip
      BY <1>1, <2>1, <3>4 DEF RemindedInv
    <3>6. RemindedInv'
      BY <1>1, <2>1, <3>1, <3>2, <3>5 DEF RemindedInv, Idle
    <3> QED BY <1>1, <3>3, <3>6 DEF RemindedOnce
  <2>2. CASE w # "reminder"
    <3>1. mail'["reminder"] = mail["reminder"]
      BY <1>3, <2>2 DEF Workers, Jobs
    <3> QED BY <1>1, <1>3, <2>2, <3>1, NotTheReminder DEF NoReminder
  <2> QED BY <2>1, <2>2
<1>7. TellInv'
  <2>1. CASE rest = Recipients(hand[w]) /\ faults' = faults
    <3>1. ASSUME NEW t \in InStatus({"CANCELLED"}),
                 NEW u \in {Driver} \cup Riders(t, {"CONFIRMED", "PENDING"}),
                 NEW v \in Workers, Telling(v, t, u)
          PROVE  Telling(v, t, u)'
      <4>1. CASE v = w
        <5>1. hand[w].trip = t /\ hand[w].event = "CANCELLED"
          BY <3>1, <4>1 DEF Telling
        <5>2. u \in rest
          BY <2>1, <5>1 DEF Recipients
        <5> QED BY <1>3, <4>1, <5>1, <5>2 DEF Telling, RowsTyped
      <4>2. CASE v # w
        BY <1>3, <3>1, <4>2 DEF Telling
      <4> QED BY <4>1, <4>2
    <3>2. StillTold
      BY <1>1, <2>1, <3>1 DEF StillTold, InStatus, Riders
    <3> QED BY <3>2, TellFrame
  <2>2. CASE faults' # 0
    BY <2>2 DEF TellInv
  <2> QED BY <1>2, <2>1, <2>2
<1> QED BY <1>4, <1>5, <1>6, <1>7

\* A mail goes to someone who is in the list and has not been mailed by this job.
LEMMA SendStep ==
  ASSUME OutreachInv, NEW w \in Workers, NEW u \in Users, SendToUser(w, u)
  PROVE  OutreachInv'
<1> USE DEF OutreachInv, dbVars, auxVars
<1> DEFINE rest == mail[w] \ {u}
<1>0. PICK m : /\ m = [to |-> u, trip |-> hand[w].trip, event |-> hand[w].event]
               /\ \/ /\ inbox' = IF m.event \in Remembered THEN inbox \cup {m} ELSE inbox
                     /\ again' = IF m \in inbox THEN again \cup {m} ELSE again
                     /\ UNCHANGED faults
                  \/ u \in muted /\ UNCHANGED <<auxVars, faults>>
                  \/ Fault /\ UNCHANGED auxVars
  BY DEF SendToUser
<1>1. /\ at[w] = "mail" /\ u \in mail[w] /\ Mailing(w, rest)
      /\ UNCHANGED <<clock, up, due, dbVars, muted, queue, groups>>
  BY DEF SendToUser
<1>2. m.to = u /\ m.trip = hand[w].trip /\ m.event = hand[w].event
  BY <1>0
<1>3. /\ at' \in [Workers -> Stages] /\ DOMAIN hand' = Workers
      /\ mail' = [mail EXCEPT ![w] = rest] /\ DOMAIN mail' = Workers
      /\ \A v \in Workers \ {w} : at'[v] = at[v] /\ hand'[v] = hand[v] /\ mail'[v] = mail[v]
      /\ rest # {} => at'[w] = "mail" /\ hand'[w] = hand[w]
      /\ w = "reminder" /\ rest = {} => at'[w] = "list" /\ hand'[w] = Idle
      /\ WorkerOK(w)'
  BY <1>1, MailingMoves
<1>4. RowsTyped'
  <2>1. faults' \in Nat BY <1>0 DEF RowsTyped, Fault
  <2> QED BY <1>1, <1>3, <2>1 DEF RowsTyped
<1>5. WorkersInv'
  BY <1>1, <1>3, OneWorker
<1>6. hand[w].trip \in Trips /\ hand[w].event \in EventsOf(w)
  BY <1>1 DEF WorkersInv, WorkerOK
<1>7. inbox \subseteq inbox' /\ inbox' \subseteq inbox \cup {m} /\ again' \subseteq again \cup {m}
  BY <1>0
<1>8. ReminderInv' /\ RemindedInv' /\ RemindedOnce'
  <2>1. CASE w = "reminder"
    <3>1. \A t : DueForReminder(t)' <=> DueForReminder(t)
      BY <1>1 DEF DueForReminder
    <3>2. /\ hand'[w] \in {hand[w], Idle} /\ at'[w] # "idle"
          /\ hand'[w] = hand[w] \/ hand'[w].event # "REMINDER"
          /\ hand'[w].event = "REMINDER" => at'[w] = "mail"
          /\ mail'[w] = mail[w] \ {u}
      BY <1>3, <2>1 DEF Idle, RowsTyped
    <3>3. ReminderInv'
      BY <1>1, <2>1, <3>1, <3>2 DEF ReminderInv, Idle
    <3>4. hand[w].event = "REMINDER" /\ DueForReminder(hand[w].trip)
          /\ hand[w].trip \notin queue[w] /\ w \notin due
      BY <1>1, <1>6, <2>1 DEF ReminderInv, EventsOf, WorkersInv, WorkerOK
    <3>5. m \notin inbox
      BY <1>1, <1>2, <2>1, <3>4 DEF RemindedInv
    <3>6. again' = again
      BY <1>0, <3>5
    <3>7. RemindedInv'
      <4> SUFFICES ASSUME NEW n \in inbox', n.event = "REMINDER"
            PROVE /\ n.trip \in Trips /\ trips[n.trip].departure <= clock + Lead + 1
                  /\ DueForReminder(n.trip) =>
                       /\ "reminder" \notin due /\ n.trip \notin queue["reminder"]
                       /\ hand'["reminder"].event = "REMINDER" /\ hand'["reminder"].trip = n.trip =>
                            at'["reminder"] = "mail" /\ n.to \notin mail'["reminder"]
        BY <1>1, <3>1 DEF RemindedInv
      <4>1. CASE n = m
        BY <1>2, <1>6, <2>1, <3>2, <3>4, <4>1 DEF DueForReminder
      <4>2. CASE n \in inbox
        BY <2>1, <3>2, <3>4, <4>2 DEF RemindedInv
      <4> QED BY <1>7, <4>1, <4>2
    <3> QED BY <3>3, <3>6, <3>7 DEF RemindedOnce
  <2>2. CASE w # "reminder"
    <3>1. mail'["reminder"] = mail["reminder"]
      BY <1>3, <2>2 DEF Workers, Jobs
    <3>2. m.event # "REMINDER"
      BY <1>2, <1>6, <2>2 DEF EventsOf
    <3>3. NoReminder
      BY <1>7, <3>2 DEF NoReminder
    <3> QED BY <1>1, <1>3, <2>2, <3>1, <3>3, NotTheReminder
  <2> QED BY <2>1, <2>2
<1>9. TellInv'
  <2>1. CASE faults' # 0
    BY <2>1 DEF TellInv
  <2>2. CASE faults' = 0
    <3>1. /\ faults = 0
          /\ u \in muted \/ inbox' = IF m.event \in Remembered THEN inbox \cup {m} ELSE inbox
      BY <1>0, <2>2 DEF Fault, RowsTyped
    <3>2. ASSUME NEW t \in InStatus({"CANCELLED"}),
                 NEW x \in {Driver} \cup Riders(t, {"CONFIRMED", "PENDING"}),
                 NEW v \in Workers, Telling(v, t, x)
          PROVE  Telling(v, t, x)' \/ Told(t, x)' \/ x \in muted
      <4>1. CASE v = w /\ x = u
        <5>1. m = [to |-> x, trip |-> t, event |-> "CANCELLED"]
          BY <1>0, <3>2, <4>1 DEF Telling
        <5>2. m.event \in Remembered
          BY <5>1 DEF Remembered
        <5> QED BY <3>1, <4>1, <5>1, <5>2 DEF Told
      <4>2. CASE v = w /\ x # u
        <5>1. x \in rest
          BY <1>1, <3>2, <4>2 DEF Telling
        <5> QED BY <1>3, <3>2, <4>2, <5>1 DEF Telling, RowsTyped
      <4>3. CASE v # w
        BY <1>3, <3>2, <4>3 DEF Telling
      <4> QED BY <4>1, <4>2, <4>3
    <3>3. StillTold
      BY <1>1, <1>7, <3>1, <3>2 DEF StillTold, InStatus, Riders
    <3> QED BY <3>3, TellFrame
  <2> QED BY <2>1, <2>2
<1> QED BY <1>4, <1>5, <1>8, <1>9

-----------------------------------------------------------------------------
(* The theorems *)

LEMMA OutreachInvStep == OutreachInv /\ [OutreachNext]_vars => OutreachInv'
<1> SUFFICES ASSUME OutreachInv, [OutreachNext]_vars PROVE OutreachInv'
  OBVIOUS
<1>1. CASE Hour \/ Crash
  BY <1>1, HourStep, CrashStep
<1>2. CASE Restart \/ UNCHANGED vars
  BY <1>2, SameStep DEF Restart, vars
<1>3. CASE Work
  BY <1>3, SaveStep, DispatchStep, SendStep, SaveFailsStep, StartJobStep, ListDoneStep,
     RemindNextStep, SweepNextStep, SignalStep DEF Work, Proceed
<1>4. CASE Requests
  BY <1>4, DecideStep, BookingStep DEF Requests
<1> QED BY <1>1, <1>2, <1>3, <1>4 DEF OutreachNext

LEMMA OutreachInvAlways == Spec => []OutreachInv
<1>1. OutreachInit => OutreachInv BY OutreachInvInit
<1>2. OutreachInv /\ [OutreachNext]_vars => OutreachInv' BY OutreachInvStep
<1> QED BY <1>1, <1>2, PTL DEF Spec

\* TripReminderJob.sendDueReminders: whatever fails and however often the process
\* dies and is started, nobody gets two reminders of the same trip.
THEOREM NobodyIsRemindedTwice == Spec => []RemindedOnce
<1>1. OutreachInv => RemindedOnce BY DEF OutreachInv
<1> QED BY <1>1, OutreachInvAlways, PTL

\* notify() of a cancellation, by the driver or by the sweep: as long as nothing
\* failed, whoever is on a cancelled trip has been mailed, or is about to be.
THEOREM CancelledAreAlwaysTold == Spec => []CancelledAreTold
<1>1. OutreachInv => CancelledAreTold
  <2> SUFFICES ASSUME OutreachInv, faults = 0, NEW t \in InStatus({"CANCELLED"}), ~Cancelling(t),
                      NEW u \in ({Driver} \cup Riders(t, {"CONFIRMED", "PENDING"})) \ muted
               PROVE  [to |-> u, trip |-> t, event |-> "CANCELLED"] \in inbox
    BY DEF CancelledAreTold
  <2>1. Told(t, u) \/ \E w \in Workers : Telling(w, t, u)
    BY DEF OutreachInv, TellInv
  <2> QED BY <2>1 DEF Told, Telling, Cancelling
<1> QED BY <1>1, OutreachInvAlways, PTL

=============================================================================
