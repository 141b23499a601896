--------------------------- MODULE WaitlistService ---------------------------
(***************************************************************************)
(* waitlist.service.ts: join, leave and notifyOnSeatFreed.  An entry is    *)
(* its passenger; the seats it names are display-only.                     *)
(***************************************************************************)
EXTENDS Store, SequencesExt

\* join(): only while the trip, as read, is FULL, for at most its capacity.
JoinWaitlist(w, p) ==
  /\ p # Driver
  /\ trip.status = "FULL"
  /\ \E n \in SeatChoices : n <= trip.max
  /\ Begin(w, "join.entry", OnWaitlist("join", p))
  /\ UNCHANGED <<tables, lock, clock, tripSeen, bookSeen, dirty, history>>

JoinCheckEntry(w) ==
  /\ pc[w] = "join.entry"
  /\ \/ /\ call[w].user \in Waiting
        /\ End(w)
     \/ /\ call[w].user \notin Waiting
        /\ GoTo(w, "join.active")
        /\ UNCHANGED locals
  /\ UNCHANGED <<tables, lock, clock, history>>

JoinCheckActive(w) ==
  /\ pc[w] = "join.active"
  /\ \/ /\ HasActiveBooking(call[w].user)
        /\ End(w)
     \/ /\ ~HasActiveBooking(call[w].user)
        /\ GoTo(w, "join.insert")
        /\ UNCHANGED locals
  /\ UNCHANGED <<tables, lock, clock, history>>

\* UQ_waitlist_trip_passenger makes the second of two racing inserts throw.
JoinInsert(w) ==
  /\ pc[w] = "join.insert"
  /\ TripRowFree
  /\ waitlist' = IF call[w].user \in Waiting THEN waitlist
                 ELSE Append(waitlist, call[w].user)
  /\ End(w)
  /\ UNCHANGED <<trip, booking, lock, clock, history>>

-----------------------------------------------------------------------------

\* leave(): whatever the status of the trip.
LeaveWaitlist(w, p) ==
  /\ p \in Waiting
  /\ Begin(w, "leave.remove", OnWaitlist("leave", p))
  /\ UNCHANGED <<tables, lock, clock, tripSeen, bookSeen, dirty, history>>

LeaveRemove(w) ==
  /\ pc[w] = "leave.remove"
  /\ waitlist' = IF call[w].user \in Waiting
                 THEN LET i == CHOOSE i \in DOMAIN waitlist : waitlist[i] = call[w].user
                      IN RemoveAt(waitlist, i)
                 ELSE waitlist
  /\ owed' = owed \ {call[w].user}
  /\ End(w)
  /\ UNCHANGED <<trip, booking, lock, clock, mail>>

\* Faulty variant: only the first of the list is mailed.
WaitlistNotifyFirst(w) ==
  /\ pc[w] = "waitlist.find"
  /\ owed' = IF waitlist = <<>> THEN owed ELSE owed \ {Head(waitlist)}
  /\ End(w)
  /\ UNCHANGED <<tables, lock, clock, mail>>

\* notifyOnSeatFreed: everyone on the list when it is read is mailed.
WaitlistNotify(w) ==
  /\ pc[w] = "waitlist.find"
  /\ owed' = owed \ Waiting
  /\ End(w)
  /\ UNCHANGED <<tables, lock, clock, mail>>

-----------------------------------------------------------------------------

StartWaitlist(w) ==
  \E p \in Users : JoinWaitlist(w, p) \/ LeaveWaitlist(w, p)

WaitlistStep(w) ==
  \/ JoinCheckEntry(w)
  \/ JoinCheckActive(w)
  \/ JoinInsert(w)
  \/ LeaveRemove(w)
  \/ WaitlistNotify(w)
=============================================================================
