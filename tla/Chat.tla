-------------------------------- MODULE Chat --------------------------------
(***************************************************************************)
(* The chat of one trip: the panel of each user (trip-chat.ts, and the     *)
(* Socket.IO client of chat.service.ts), the gateway that keeps a user and *)
(* a joined trip per socket (chat.gateway.ts), the membership check and    *)
(* the message rows (chat.service.ts, trip-chat-member.guard.ts).          *)
(*                                                                         *)
(* The history request and the socket of a panel run side by side; every   *)
(* handler of the server is a chain of awaited queries, and bookings are   *)
(* confirmed and cancelled meanwhile.                                      *)
(***************************************************************************)
EXTENDS Naturals, Sequences, Functions

CONSTANTS
  Users,     \* people with an account
  Driver,    \* the driver of the trip
  Messages,  \* bodies that may be sent, each once
  MaxOpens,  \* bound: how often a user opens the panel
  MaxDrops   \* bound: connections lost, over all users

ASSUME ChatAssumption ==
  /\ Driver \in Users
  /\ MaxOpens \in Nat
  /\ MaxDrops \in Nat

VARIABLES
  confirmed,  \* users with a CONFIRMED booking row of the trip
  log,        \* chat_messages, ordered by sentAt
  sent,       \* message -> its author and where it is on its way
  session,    \* user -> the socket of the panel, as client and server see it
  join,       \* user -> the 'join' of that socket
  inbox,      \* user -> 'message' events under way to the socket
  hist,       \* user -> the history request of the panel
  page,       \* user -> what the history SELECT read
  view,       \* user -> messages() of the panel
  opens,      \* user -> panels opened so far (bound)
  drops,      \* connections lost so far (bound)
  admitted,   \* auxiliary: users who have ever been members
  vouched,    \* auxiliary: messages whose author has been a member since sending
  owed,       \* auxiliary: user -> rows there were when the panel was opened
  due         \* auxiliary: user -> emitted while in the room, history loaded

socketVars == <<session, join, inbox>>
panelVars == <<hist, page, view>>
boundVars == <<opens, drops>>
auxVars == <<admitted, vouched, owed, due>>
vars == <<confirmed, log, sent, socketVars, panelVars, boundVars, auxVars>>

-----------------------------------------------------------------------------

(***************************************************************************)
(* session: no panel; client connecting; connected, handleConnection under *)
(* way; connectedUsers set; disconnected by the server; given up by the    *)
(* client after connect_error.                                             *)
(***************************************************************************)
Sessions == {"none", "dialing", "up", "known", "cut", "failed"}

\* handleJoin: not sent, on its way, before and after the membership read,
\* joinedTrips set, or thrown out.
Joins == {"none", "wire", "checking", "allowed", "in", "refused"}

\* GET messages: not sent, before and after the guard's read, rows read,
\* answer set in the panel, or an error.
Requests == {"none", "asked", "allowed", "answered", "shown", "failed"}

\* A message: in a socket that is not connected (Socket.IO buffers it), on its
\* way ahead of the 'join' or behind it, in handleMessage, emitted, or gone.
Stages == {"unsent", "buffered", "early", "wire", "checking", "persisting", "emitting",
           "done", "lost"}

\* ChatService.assertMember; a trip and its driver never change.
Member(u) == u = Driver \/ u \in confirmed

Underway == {"early", "wire"}
InRoom(u) == join[u] = "in"
Attends(u) == InRoom(u) /\ hist[u] = "shown"
Open(u) == session[u] # "none"
Stage(m, from, to) == sent[m].at = from /\ sent' = [sent EXCEPT ![m].at = to]

\* Messages of u that have not reached the server go from one stage to another.
Shift(u, from, to) ==
  sent' = [m \in Messages |-> IF sent[m].at \in from /\ sent[m].author = u
                                THEN [sent[m] EXCEPT !.at = to] ELSE sent[m]]

Init ==
  /\ confirmed = {}
  /\ log = <<>>
  /\ sent = [m \in Messages |-> [at |-> "unsent", author |-> Driver]]
  /\ session = [u \in Users |-> "none"]
  /\ join = [u \in Users |-> "none"]
  /\ inbox = [u \in Users |-> <<>>]
  /\ hist = [u \in Users |-> "none"]
  /\ page = [u \in Users |-> <<>>]
  /\ view = [u \in Users |-> <<>>]
  /\ opens = [u \in Users |-> 0]
  /\ drops = 0
  /\ admitted = {Driver}
  /\ vouched = {}
  /\ owed = [u \in Users |-> {}]
  /\ due = [u \in Users |-> {}]

-----------------------------------------------------------------------------
(* Bookings of the trip, by the rest of the system.                        *)

Confirm(u) ==
  /\ u \notin confirmed \cup {Driver}
  /\ confirmed' = confirmed \cup {u}
  /\ admitted' = admitted \cup {u}
  /\ vouched' = vouched \cup {m \in Messages : sent[m].at # "unsent" /\ sent[m].author = u}
  /\ UNCHANGED <<log, sent, socketVars, panelVars, boundVars, owed, due>>

Cancel(u) ==
  /\ u \in confirmed
  /\ confirmed' = confirmed \ {u}
  /\ UNCHANGED <<log, sent, socketVars, panelVars, boundVars, auxVars>>

-----------------------------------------------------------------------------
(* The panel.                                                              *)

\* ngOnInit: the history request, and connect(). Whether the page shows the
\* panel is decided from bookings it read earlier: the server does not rely on it.
OpenPanel(u) ==
  /\ ~Open(u) /\ opens[u] < MaxOpens
  /\ opens' = [opens EXCEPT ![u] = @ + 1]
  /\ session' = [session EXCEPT ![u] = "dialing"]
  /\ hist' = [hist EXCEPT ![u] = "asked"]
  /\ owed' = [owed EXCEPT ![u] = Range(log)]
  /\ UNCHANGED <<confirmed, log, sent, join, inbox, page, view, drops, admitted, vouched, due>>

\* ngOnDestroy: unsubscribing disconnects; a later answer is shown to no one.
ClosePanel(u) ==
  /\ Open(u)
  /\ session' = [session EXCEPT ![u] = "none"]
  /\ join' = [join EXCEPT ![u] = "none"]
  /\ inbox' = [inbox EXCEPT ![u] = <<>>]
  /\ hist' = [hist EXCEPT ![u] = "none"]
  /\ page' = [page EXCEPT ![u] = <<>>]
  /\ view' = [view EXCEPT ![u] = <<>>]
  /\ owed' = [owed EXCEPT ![u] = {}]
  /\ due' = [due EXCEPT ![u] = {}]
  /\ Shift(u, Underway \cup {"buffered"}, "lost")
  /\ UNCHANGED <<confirmed, log, boundVars, admitted, vouched>>

\* send(): the input is cleared whatever becomes of the message.
Send(u, m) ==
  /\ Open(u) /\ sent[m].at = "unsent"
  /\ sent' = [sent EXCEPT ![m] =
       [author |-> u,
        at |-> CASE session[u] = "failed" -> "lost"
                 [] session[u] \in {"dialing", "cut"} -> "buffered"
                 [] OTHER -> "wire"]]
  /\ vouched' = IF Member(u) THEN vouched \cup {m} ELSE vouched
  /\ UNCHANGED <<confirmed, log, socketVars, panelVars, boundVars, admitted, owed, due>>

\* The answer of the history request replaces what the panel shows.
HistoryArrives(u) ==
  /\ hist[u] = "answered"
  /\ hist' = [hist EXCEPT ![u] = "shown"]
  /\ view' = [view EXCEPT ![u] = page[u]]
  /\ UNCHANGED <<confirmed, log, sent, socketVars, page, boundVars, auxVars>>

\* Faulty variant: append() without the test for a known id.
DeliverAlways(u) ==
  /\ inbox[u] # <<>>
  /\ inbox' = [inbox EXCEPT ![u] = Tail(@)]
  /\ view' = [view EXCEPT ![u] = Append(@, Head(inbox[u]))]
  /\ UNCHANGED <<confirmed, log, sent, session, join, hist, page, boundVars, auxVars>>

\* append(): a message with a known id is dropped.
Deliver(u) ==
  /\ inbox[u] # <<>>
  /\ inbox' = [inbox EXCEPT ![u] = Tail(@)]
  /\ view' = [view EXCEPT ![u] =
       IF Head(inbox[u]) \in Range(@) THEN @ ELSE Append(@, Head(inbox[u]))]
  /\ UNCHANGED <<confirmed, log, sent, session, join, hist, page, boundVars, auxVars>>

-----------------------------------------------------------------------------
(* The connection.                                                         *)

\* 'connect': Socket.IO sends what it has buffered, then the client emits 'join'.
Connect(u) ==
  /\ session[u] = "dialing"
  /\ session' = [session EXCEPT ![u] = "up"]
  /\ join' = [join EXCEPT ![u] = "wire"]
  /\ Shift(u, {"buffered"}, "early")
  /\ UNCHANGED <<confirmed, log, inbox, panelVars, boundVars, auxVars>>

\* 'connect_error': the subscription ends, and its teardown drops the socket.
ConnectError(u) ==
  /\ session[u] = "dialing"
  /\ session' = [session EXCEPT ![u] = "failed"]
  /\ Shift(u, {"buffered"}, "lost")
  /\ UNCHANGED <<confirmed, log, join, inbox, panelVars, boundVars, auxVars>>

\* The network loses a connection; Socket.IO dials again, with a new socket on
\* the server. What the handlers of the old one still do to it reaches no one.
Drop(u) ==
  /\ session[u] \in {"up", "known"} /\ drops < MaxDrops
  /\ drops' = drops + 1
  /\ session' = [session EXCEPT ![u] = "dialing"]
  /\ join' = [join EXCEPT ![u] = "none"]
  /\ inbox' = [inbox EXCEPT ![u] = <<>>]
  /\ due' = [due EXCEPT ![u] = {}]
  /\ Shift(u, Underway, "lost")
  /\ UNCHANGED <<confirmed, log, panelVars, opens, admitted, vouched, owed>>

\* handleConnection, the token verified and the user found.
Authenticate(u) ==
  /\ session[u] = "up"
  /\ session' = [session EXCEPT ![u] = "known"]
  /\ UNCHANGED <<confirmed, log, sent, join, inbox, panelVars, boundVars, auxVars>>

\* handleConnection, with chat disabled, a token that expired or no such user.
Reject(u) ==
  /\ session[u] = "up"
  /\ session' = [session EXCEPT ![u] = "cut"]
  /\ join' = [join EXCEPT ![u] = "none"]
  /\ Shift(u, Underway, "lost")
  /\ UNCHANGED <<confirmed, log, inbox, panelVars, boundVars, auxVars>>

-----------------------------------------------------------------------------
(* The server.                                                             *)

\* The guard of the history: member or 403.
CheckReader(u) ==
  /\ hist[u] = "asked"
  /\ hist' = [hist EXCEPT ![u] = IF Member(u) THEN "allowed" ELSE "failed"]
  /\ UNCHANGED <<confirmed, log, sent, socketVars, page, view, boundVars, auxVars>>

\* listHistory
ReadHistory(u) ==
  /\ hist[u] = "allowed"
  /\ hist' = [hist EXCEPT ![u] = "answered"]
  /\ page' = [page EXCEPT ![u] = log]
  /\ UNCHANGED <<confirmed, log, sent, socketVars, view, boundVars, auxVars>>

\* handleJoin up to its first await: requireUser. A socket keeps its order, so
\* what was sent ahead of the 'join' has been handled.
HandleJoin(u) ==
  /\ join[u] = "wire"
  /\ \A m \in Messages : sent[m].author = u => sent[m].at # "early"
  /\ join' = [join EXCEPT ![u] = IF session[u] = "known" THEN "checking" ELSE "refused"]
  /\ UNCHANGED <<confirmed, log, sent, session, inbox, panelVars, boundVars, auxVars>>

\* Faulty variant: handleJoin trusts every known user.
AdmitAll(u) ==
  /\ join[u] = "checking"
  /\ join' = [join EXCEPT ![u] = "allowed"]
  /\ UNCHANGED <<confirmed, log, sent, session, inbox, panelVars, boundVars, auxVars>>

\* requireMember of handleJoin
CheckJoiner(u) ==
  /\ join[u] = "checking"
  /\ join' = [join EXCEPT ![u] = IF Member(u) THEN "allowed" ELSE "refused"]
  /\ UNCHANGED <<confirmed, log, sent, session, inbox, panelVars, boundVars, auxVars>>

\* The rest of handleJoin. A panel joins one trip, so there is no room to leave.
EnterRoom(u) ==
  /\ join[u] = "allowed"
  /\ join' = [join EXCEPT ![u] = "in"]
  /\ UNCHANGED <<confirmed, log, sent, session, inbox, panelVars, boundVars, auxVars>>

\* handleMessage up to its first await: requireUser and joinedTrips. An error
\* is an event the client does not listen to.
HandleMessage(m) ==
  LET u == sent[m].author
  IN /\ sent[m].at = "early" \/ join[u] # "wire"
     /\ \E stage \in Underway :
          Stage(m, stage, IF session[u] = "known" /\ InRoom(u) THEN "checking" ELSE "lost")
     /\ UNCHANGED <<confirmed, log, socketVars, panelVars, boundVars, auxVars>>

\* Faulty variant: whoever has joined may write.
TrustJoined(m) ==
  /\ Stage(m, "checking", "persisting")
  /\ UNCHANGED <<confirmed, log, socketVars, panelVars, boundVars, auxVars>>

\* requireMember of handleMessage
CheckAuthor(m) ==
  /\ Stage(m, "checking", IF Member(sent[m].author) THEN "persisting" ELSE "lost")
  /\ UNCHANGED <<confirmed, log, socketVars, panelVars, boundVars, auxVars>>

\* persistMessage
PersistMessage(m) ==
  /\ Stage(m, "persisting", "emitting")
  /\ log' = Append(log, m)
  /\ UNCHANGED <<confirmed, socketVars, panelVars, boundVars, auxVars>>

\* Faulty variant: client.to(room), which leaves out the sender.
EmitToOthers(m) ==
  /\ Stage(m, "emitting", "done")
  /\ inbox' = [u \in Users |-> IF InRoom(u) /\ u # sent[m].author
                                 THEN Append(inbox[u], m) ELSE inbox[u]]
  /\ due' = [u \in Users |-> IF Attends(u) THEN due[u] \cup {m} ELSE due[u]]
  /\ UNCHANGED <<confirmed, log, session, join, panelVars, boundVars, admitted, vouched, owed>>

\* server.to(room).emit: to the sockets that are in the room now.
EmitMessage(m) ==
  /\ Stage(m, "emitting", "done")
  /\ inbox' = [u \in Users |-> IF InRoom(u) THEN Append(inbox[u], m) ELSE inbox[u]]
  /\ due' = [u \in Users |-> IF Attends(u) THEN due[u] \cup {m} ELSE due[u]]
  /\ UNCHANGED <<confirmed, log, session, join, panelVars, boundVars, admitted, vouched, owed>>

-----------------------------------------------------------------------------

UserStep(u) == Confirm(u) \/ Cancel(u) \/ OpenPanel(u) \/ ClosePanel(u)
               \/ \E m \in Messages : Send(u, m)

Network(u) == Connect(u) \/ ConnectError(u) \/ Drop(u)

Arrival(u) == HistoryArrives(u) \/ Deliver(u)
Handshake(u) == Authenticate(u) \/ Reject(u)
Request(u) == CheckReader(u) \/ ReadHistory(u)
JoinStep(u) == HandleJoin(u) \/ CheckJoiner(u) \/ EnterRoom(u)
MessageStep(m) == HandleMessage(m) \/ CheckAuthor(m) \/ PersistMessage(m) \/ EmitMessage(m)

Next ==
  \/ \E u \in Users :
       UserStep(u) \/ Network(u) \/ Arrival(u) \/ Handshake(u) \/ Request(u) \/ JoinStep(u)
  \/ \E m \in Messages : MessageStep(m)

Spec == Init /\ [][Next]_vars

-----------------------------------------------------------------------------
(* Properties.                                                             *)

\* The type of every variable.
TypeOK ==
  /\ confirmed \subseteq Users
  /\ log \in Seq(Messages)
  /\ sent \in [Messages -> [at : Stages, author : Users]]
  /\ session \in [Users -> Sessions]
  /\ join \in [Users -> Joins]
  /\ inbox \in [Users -> Seq(Messages)]
  /\ hist \in [Users -> Requests]
  /\ page \in [Users -> Seq(Messages)]
  /\ view \in [Users -> Seq(Messages)]
  /\ opens \in [Users -> 0 .. MaxOpens]
  /\ drops \in 0 .. MaxDrops
  /\ admitted \subseteq Users
  /\ vouched \subseteq Messages
  /\ owed \in [Users -> SUBSET Messages]
  /\ due \in [Users -> SUBSET Messages]

\* A panel shows no message twice, and none that a reload would not bring back,
\* although a message may come both in the history and over the socket.
ShownIsStored ==
  \A u \in Users : IsInjective(view[u]) /\ Range(view[u]) \subseteq Range(log)

\* A message is stored only if its author was a member at some moment since it
\* was sent: whoever lost the seat, and kept the socket in the room, is mute.
FormerMemberIsMute == Range(log) \subseteq vouched

\* Someone who never was a member is shown nothing, and no event is sent to them.
OutsiderSeesNothing ==
  \A u \in Users \ admitted : view[u] = <<>> /\ inbox[u] = <<>>

\* A panel whose history has been loaded shows every message that was stored
\* when it was opened, whatever the socket delivered before the answer.
ReloadShowsAll ==
  \A u \in Users : hist[u] = "shown" => owed[u] \subseteq Range(view[u])

\* What is emitted while a user sits in the room with the history loaded, the
\* user's own messages included, is shown or under way to that user as long as
\* the connection and the panel last.
NothingMissedLive ==
  \A u \in Users : due[u] \subseteq Range(view[u]) \cup Range(inbox[u])

\* The documentation's "multiple concurrent members receive messages in real
\* time": once nothing is under way, a member in the room with the history
\* loaded has every message.
Quiet(u) ==
  /\ Attends(u) /\ inbox[u] = <<>>
  /\ \A m \in Messages : sent[m].at # "emitting"

MembersReceive ==
  \A u \in Users : Quiet(u) /\ Member(u) => Range(log) \subseteq Range(view[u])

=============================================================================
