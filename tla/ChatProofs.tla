----------------------------- MODULE ChatProofs -----------------------------
(***************************************************************************)
(* What the chat keeps true for any users, messages and lost connections.  *)
(* Each invariant of Chat gets a strengthening that holds by induction.    *)
(***************************************************************************)
EXTENDS Chat, TLAPS

-----------------------------------------------------------------------------
(* Sequences as queues and as lists shown *)

LEMMA RangeAppend ==
  ASSUME NEW S, NEW s \in Seq(S), NEW x \in S
  PROVE  Range(Append(s, x)) = Range(s) \cup {x}
<1>1. DOMAIN Append(s, x) = DOMAIN s \cup {Len(s) + 1}
  OBVIOUS
<1>2. \A i \in DOMAIN s : Append(s, x)[i] = s[i]
  OBVIOUS
<1>3. Append(s, x)[Len(s) + 1] = x
  OBVIOUS
<1> QED
  BY <1>1, <1>2, <1>3 DEF Range

LEMMA RangeHeadTail ==
  ASSUME NEW S, NEW s \in Seq(S), s # <<>>
  PROVE  /\ Head(s) \in S
         /\ Tail(s) \in Seq(S)
         /\ Range(s) = {Head(s)} \cup Range(Tail(s))
<1>1. Head(s) = s[1] /\ Head(s) \in S /\ Tail(s) \in Seq(S)
  OBVIOUS
<1>2. DOMAIN s = 1 .. Len(s) /\ DOMAIN Tail(s) = 1 .. (Len(s) - 1) /\ 1 \in DOMAIN s
  OBVIOUS
<1>3. \A i \in DOMAIN Tail(s) : Tail(s)[i] = s[i + 1] /\ i + 1 \in DOMAIN s
  OBVIOUS
<1>4. Range(Tail(s)) \subseteq Range(s)
  BY <1>3 DEF Range
<1>5. \A i \in DOMAIN s : i = 1 \/ (i - 1 \in DOMAIN Tail(s) /\ s[i] = Tail(s)[i - 1])
  <2> SUFFICES ASSUME NEW i \in DOMAIN s, i # 1
               PROVE  i - 1 \in DOMAIN Tail(s) /\ s[i] = Tail(s)[i - 1]
    OBVIOUS
  <2>1. i - 1 \in DOMAIN Tail(s)
    BY <1>2
  <2>2. (i - 1) + 1 = i
    BY <1>2
  <2> QED
    BY <2>1, <2>2, <1>3
<1>6. Range(s) \subseteq {Head(s)} \cup Range(Tail(s))
  BY <1>1, <1>5 DEF Range
<1>7. Head(s) \in Range(s)
  BY <1>1, <1>2 DEF Range
<1> QED
  BY <1>1, <1>4, <1>6, <1>7

LEMMA InjectiveAppend ==
  ASSUME NEW S, NEW s \in Seq(S), NEW x \in S, IsInjective(s), x \notin Range(s)
  PROVE  IsInjective(Append(s, x))
<1>1. DOMAIN Append(s, x) = DOMAIN s \cup {Len(s) + 1}
  OBVIOUS
<1>2. \A i \in DOMAIN s : Append(s, x)[i] = s[i] /\ s[i] # x
  BY DEF Range
<1>3. Append(s, x)[Len(s) + 1] = x
  OBVIOUS
<1> QED
  BY <1>1, <1>2, <1>3 DEF IsInjective

LEMMA RangeEmpty == Range(<<>>) = {} /\ IsInjective(<<>>)
  BY DEF Range, IsInjective

LEMMA RangeInSet ==
  ASSUME NEW S, NEW s \in Seq(S)
  PROVE  Range(s) \subseteq S
  BY DEF Range

-----------------------------------------------------------------------------
(* Types *)

\* Moving messages from stage to stage keeps the type of sent.
LEMMA SentTyped ==
  ASSUME sent \in [Messages -> [at : Stages, author : Users]]
  PROVE  /\ \A u \in Users, from \in SUBSET Stages, to \in Stages :
              Shift(u, from, to) => sent' \in [Messages -> [at : Stages, author : Users]]
         /\ \A m \in Messages, from \in Stages, to \in Stages :
              Stage(m, from, to) => sent' \in [Messages -> [at : Stages, author : Users]]
  BY DEF Shift, Stage

LEMMA TypeInit == Init => TypeOK
  BY ChatAssumption DEF Init, TypeOK, Stages, Sessions, Joins, Requests

LEMMA TypeStep == TypeOK /\ [Next]_vars => TypeOK'
<1> SUFFICES ASSUME TypeOK, [Next]_vars PROVE TypeOK'
  OBVIOUS
<1> USE ChatAssumption
<1>1. ASSUME NEW u \in Users, Confirm(u) PROVE TypeOK'
  BY <1>1 DEF TypeOK, Confirm, Stages, Underway, Sessions, Joins, Requests,
       socketVars, panelVars, boundVars, auxVars
<1>2. ASSUME NEW u \in Users, Cancel(u) PROVE TypeOK'
  BY <1>2 DEF TypeOK, Cancel, Stages, Underway, Sessions, Joins, Requests,
       socketVars, panelVars, boundVars, auxVars
<1>3. ASSUME NEW u \in Users, OpenPanel(u) PROVE TypeOK'
  <2>1. Range(log) \subseteq Messages
    BY RangeInSet DEF TypeOK
  <2>2. opens' \in [Users -> 0 .. MaxOpens]
    BY <1>3 DEF TypeOK, OpenPanel
  <2> QED
    BY <1>3, <2>1, <2>2 DEF TypeOK, OpenPanel, Sessions, Requests
<1>4. ASSUME NEW u \in Users, ClosePanel(u) PROVE TypeOK'
  <2>1. sent' \in [Messages -> [at : Stages, author : Users]]
    BY <1>4, SentTyped DEF TypeOK, ClosePanel, Stages, Underway
  <2>2. /\ inbox' \in [Users -> Seq(Messages)]
        /\ page' \in [Users -> Seq(Messages)]
        /\ view' \in [Users -> Seq(Messages)]
    BY <1>4 DEF TypeOK, ClosePanel
  <2> QED
    BY <1>4, <2>1, <2>2 DEF TypeOK, ClosePanel, Sessions, Joins, Requests, boundVars
<1>5. ASSUME NEW u \in Users, HistoryArrives(u) PROVE TypeOK'
  BY <1>5 DEF TypeOK, HistoryArrives, Stages, Underway, Sessions, Joins, Requests,
       socketVars, panelVars, boundVars, auxVars
<1>6. ASSUME NEW u \in Users, Deliver(u) PROVE TypeOK'
  <2>1. Head(inbox[u]) \in Messages /\ Tail(inbox[u]) \in Seq(Messages)
    BY <1>6, RangeHeadTail DEF Deliver, TypeOK
  <2>2. inbox' \in [Users -> Seq(Messages)]
    BY <1>6, <2>1 DEF TypeOK, Deliver
  <2>3. Append(view[u], Head(inbox[u])) \in Seq(Messages)
    BY <2>1 DEF TypeOK
  <2>4. view' \in [Users -> Seq(Messages)]
    BY <1>6, <2>3 DEF TypeOK, Deliver
  <2> QED
    BY <1>6, <2>2, <2>4 DEF TypeOK, Deliver, boundVars, auxVars
<1>7. ASSUME NEW u \in Users, Connect(u) PROVE TypeOK'
  BY <1>7, SentTyped DEF TypeOK, Connect, Stages, Underway, Sessions, Joins, Requests,
       socketVars, panelVars, boundVars, auxVars
<1>8. ASSUME NEW u \in Users, ConnectError(u) PROVE TypeOK'
  BY <1>8, SentTyped DEF TypeOK, ConnectError, Stages, Underway, Sessions, Joins, Requests,
       socketVars, panelVars, boundVars, auxVars
<1>9. ASSUME NEW u \in Users, Drop(u) PROVE TypeOK'
  <2>1. sent' \in [Messages -> [at : Stages, author : Users]]
    BY <1>9, SentTyped DEF TypeOK, Drop, Stages, Underway
  <2>2. inbox' \in [Users -> Seq(Messages)] /\ drops' \in 0 .. MaxDrops
    BY <1>9 DEF TypeOK, Drop
  <2> QED
    BY <1>9, <2>1, <2>2 DEF TypeOK, Drop, Sessions, Joins, panelVars
<1>10. ASSUME NEW u \in Users, Authenticate(u) PROVE TypeOK'
  BY <1>10 DEF TypeOK, Authenticate, Stages, Underway, Sessions, Joins, Requests,
       socketVars, panelVars, boundVars, auxVars
<1>11. ASSUME NEW u \in Users, Reject(u) PROVE TypeOK'
  BY <1>11, SentTyped DEF TypeOK, Reject, Stages, Underway, Sessions, Joins, Requests,
       socketVars, panelVars, boundVars, auxVars
<1>12. ASSUME NEW u \in Users, CheckReader(u) PROVE TypeOK'
  BY <1>12 DEF TypeOK, CheckReader, Stages, Underway, Sessions, Joins, Requests,
       socketVars, panelVars, boundVars, auxVars
<1>13. ASSUME NEW u \in Users, ReadHistory(u) PROVE TypeOK'
  BY <1>13 DEF TypeOK, ReadHistory, Stages, Underway, Sessions, Joins, Requests,
       socketVars, panelVars, boundVars, auxVars
<1>14. ASSUME NEW u \in Users, HandleJoin(u) PROVE TypeOK'
  BY <1>14 DEF TypeOK, HandleJoin, Stages, Underway, Sessions, Joins, Requests,
       socketVars, panelVars, boundVars, auxVars
<1>15. ASSUME NEW u \in Users, CheckJoiner(u) PROVE TypeOK'
  BY <1>15 DEF TypeOK, CheckJoiner, Stages, Underway, Sessions, Joins, Requests,
       socketVars, panelVars, boundVars, auxVars
<1>16. ASSUME NEW u \in Users, EnterRoom(u) PROVE TypeOK'
  BY <1>16 DEF TypeOK, EnterRoom, Stages, Underway, Sessions, Joins, Requests,
       socketVars, panelVars, boundVars, auxVars
<1>17. ASSUME NEW m \in Messages, HandleMessage(m) PROVE TypeOK'
  BY <1>17, SentTyped DEF TypeOK, HandleMessage, Stages, Underway, Sessions, Joins, Requests,
       socketVars, panelVars, boundVars, auxVars
<1>18. ASSUME NEW m \in Messages, CheckAuthor(m) PROVE TypeOK'
  BY <1>18, SentTyped DEF TypeOK, CheckAuthor, Stages, Underway, Sessions, Joins, Requests,
       socketVars, panelVars, boundVars, auxVars
<1>19. ASSUME NEW m \in Messages, PersistMessage(m) PROVE TypeOK'
  <2>1. sent' \in [Messages -> [at : Stages, author : Users]]
    BY <1>19, SentTyped DEF TypeOK, PersistMessage, Stages
  <2>2. log' \in Seq(Messages)
    BY <1>19 DEF TypeOK, PersistMessage
  <2> QED
    BY <1>19, <2>1, <2>2 DEF TypeOK, PersistMessage, socketVars, panelVars, boundVars, auxVars
<1>20. ASSUME NEW m \in Messages, EmitMessage(m) PROVE TypeOK'
  <2>1. sent' \in [Messages -> [at : Stages, author : Users]]
    BY <1>20, SentTyped DEF TypeOK, EmitMessage, Stages
  <2>2. \A u \in Users : Append(inbox[u], m) \in Seq(Messages)
    BY DEF TypeOK
  <2>3. inbox' \in [Users -> Seq(Messages)]
    BY <1>20, <2>2 DEF TypeOK, EmitMessage
  <2> QED
    BY <1>20, <2>1, <2>3 DEF TypeOK, EmitMessage, panelVars, boundVars
<1>21. ASSUME NEW u \in Users, NEW m \in Messages, Send(u, m) PROVE TypeOK'
  BY <1>21 DEF TypeOK, Send, Stages, socketVars, panelVars, boundVars, auxVars
<1>22. CASE UNCHANGED vars
  BY <1>22 DEF TypeOK, vars, socketVars, panelVars, boundVars, auxVars
<1> QED
  BY <1>1, <1>2, <1>3, <1>4, <1>5, <1>6, <1>7, <1>8, <1>9, <1>10, <1>11, <1>12, <1>13, <1>14, <1>15, <1>16, <1>17, <1>18, <1>19, <1>20, <1>21, <1>22
     DEF Next, UserStep, Network, Arrival, Handshake, Request, JoinStep, MessageStep

\* Every variable of the chat keeps its type.
THEOREM TypeCorrect == Spec => []TypeOK
  BY TypeInit, TypeStep, PTL DEF Spec

-----------------------------------------------------------------------------
(* Who may write *)

\* A Shift takes messages that have not reached the server from one stage to
\* another and leaves their authors alone.
LEMMA ShiftEffect ==
  ASSUME sent \in [Messages -> [at : Stages, author : Users]],
         NEW u \in Users, NEW from \in SUBSET {"buffered", "early", "wire"},
         NEW to \in {"early", "lost"}, Shift(u, from, to), NEW m \in Messages
  PROVE  /\ sent'[m].author = sent[m].author
         /\ \/ sent'[m].at = sent[m].at
            \/ sent[m].at \in {"buffered", "early", "wire"} /\ sent'[m].at = to
  BY DEF Shift

\* A Stage does so with one message.
LEMMA StageEffect ==
  ASSUME sent \in [Messages -> [at : Stages, author : Users]],
         NEW m \in Messages, NEW from, NEW to, Stage(m, from, to), NEW n \in Messages
  PROVE  /\ sent[m].at = from
         /\ sent'[n].author = sent[n].author
         /\ sent'[n].at = IF n = m THEN to ELSE sent[n].at
  BY DEF Stage

\* Whoever is a member vouches for what they have sent; what has passed the check
\* of its author, and what is stored, was vouched for.
MuteInv ==
  /\ \A m \in Messages : sent[m].at # "unsent" /\ Member(sent[m].author) => m \in vouched
  /\ \A m \in Messages : sent[m].at \in {"persisting", "emitting", "done"} => m \in vouched
  /\ \A m \in Range(log) : sent[m].at \in {"emitting", "done"}

LEMMA MuteInvInit == Init => MuteInv
  BY RangeEmpty DEF Init, MuteInv

LEMMA MuteInvStep == TypeOK /\ MuteInv /\ [Next]_vars => MuteInv'
<1> SUFFICES ASSUME TypeOK, MuteInv, [Next]_vars PROVE MuteInv'
  OBVIOUS
<1>1. ASSUME UNCHANGED <<confirmed, sent, vouched, log>> PROVE MuteInv'
  BY <1>1 DEF MuteInv, Member
<1>2. ASSUME NEW u \in Users, Confirm(u) PROVE MuteInv'
  <2>1. UNCHANGED <<sent, log>> /\ confirmed' = confirmed \cup {u}
    BY <1>2 DEF Confirm
  <2>2. vouched' = vouched \cup {m \in Messages : sent[m].at # "unsent" /\ sent[m].author = u}
    BY <1>2 DEF Confirm
  <2> QED
    BY <2>1, <2>2 DEF MuteInv, Member
<1>3. ASSUME NEW u \in Users, Cancel(u) PROVE MuteInv'
  BY <1>3 DEF Cancel, MuteInv, Member, auxVars
<1>4. ASSUME NEW u \in Users, ClosePanel(u) PROVE MuteInv'
  <2>1. UNCHANGED <<confirmed, vouched, log>>
    BY <1>4 DEF ClosePanel, auxVars
  <2>2. \A n \in Messages :
          /\ sent'[n].author = sent[n].author
          /\ \/ sent'[n].at = sent[n].at
             \/ sent[n].at \in {"buffered", "early", "wire"} /\ sent'[n].at \in {"early", "lost"}
    BY <1>4, ShiftEffect DEF TypeOK, ClosePanel, Underway
  <2> QED
    BY <2>1, <2>2, RangeInSet DEF TypeOK, MuteInv, Member
<1>5. ASSUME NEW u \in Users, Connect(u) PROVE MuteInv'
  <2>1. UNCHANGED <<confirmed, vouched, log>>
    BY <1>5 DEF Connect, auxVars
  <2>2. \A n \in Messages :
          /\ sent'[n].author = sent[n].author
          /\ \/ sent'[n].at = sent[n].at
             \/ sent[n].at \in {"buffered", "early", "wire"} /\ sent'[n].at \in {"early", "lost"}
    BY <1>5, ShiftEffect DEF TypeOK, Connect, Underway
  <2> QED
    BY <2>1, <2>2, RangeInSet DEF TypeOK, MuteInv, Member
<1>6. ASSUME NEW u \in Users, ConnectError(u) PROVE MuteInv'
  <2>1. UNCHANGED <<confirmed, vouched, log>>
    BY <1>6 DEF ConnectError, auxVars
  <2>2. \A n \in Messages :
          /\ sent'[n].author = sent[n].author
          /\ \/ sent'[n].at = sent[n].at
             \/ sent[n].at \in {"buffered", "early", "wire"} /\ sent'[n].at \in {"early", "lost"}
    BY <1>6, ShiftEffect DEF TypeOK, ConnectError, Underway
  <2> QED
    BY <2>1, <2>2, RangeInSet DEF TypeOK, MuteInv, Member
<1>7. ASSUME NEW u \in Users, Drop(u) PROVE MuteInv'
  <2>1. UNCHANGED <<confirmed, vouched, log>>
    BY <1>7 DEF Drop, auxVars
  <2>2. \A n \in Messages :
          /\ sent'[n].author = sent[n].author
          /\ \/ sent'[n].at = sent[n].at
             \/ sent[n].at \in {"buffered", "early", "wire"} /\ sent'[n].at \in {"early", "lost"}
    BY <1>7, ShiftEffect DEF TypeOK, Drop, Underway
  <2> QED
    BY <2>1, <2>2, RangeInSet DEF TypeOK, MuteInv, Member
<1>8. ASSUME NEW u \in Users, Reject(u) PROVE MuteInv'
  <2>1. UNCHANGED <<confirmed, vouched, log>>
    BY <1>8 DEF Reject, auxVars
  <2>2. \A n \in Messages :
          /\ sent'[n].author = sent[n].author
          /\ \/ sent'[n].at = sent[n].at
             \/ sent[n].at \in {"buffered", "early", "wire"} /\ sent'[n].at \in {"early", "lost"}
    BY <1>8, ShiftEffect DEF TypeOK, Reject, Underway
  <2> QED
    BY <2>1, <2>2, RangeInSet DEF TypeOK, MuteInv, Member
<1>9. ASSUME NEW m \in Messages, HandleMessage(m) PROVE MuteInv'
  <2>1. UNCHANGED <<confirmed, vouched, log>>
    BY <1>9 DEF HandleMessage, auxVars
  <2>2. PICK stage \in Underway : Stage(m, stage,
            IF session[sent[m].author] = "known" /\ InRoom(sent[m].author)
              THEN "checking" ELSE "lost")
    BY <1>9 DEF HandleMessage
  <2>3. \A n \in Messages :
          /\ sent'[n].author = sent[n].author
          /\ n # m => sent'[n].at = sent[n].at
    BY <2>2, StageEffect DEF TypeOK
  <2>4. sent[m].at \in {"early", "wire"} /\ sent'[m].at \in {"checking", "lost"}
    BY <2>2, StageEffect DEF TypeOK, Underway
  <2> QED
    BY <2>1, <2>3, <2>4, RangeInSet DEF TypeOK, MuteInv, Member
<1>10. ASSUME NEW m \in Messages, CheckAuthor(m) PROVE MuteInv'
  <2>1. UNCHANGED <<confirmed, vouched, log>>
    BY <1>10 DEF CheckAuthor, auxVars
  <2>2. \A n \in Messages :
          /\ sent'[n].author = sent[n].author
          /\ n # m => sent'[n].at = sent[n].at
    BY <1>10, StageEffect DEF TypeOK, CheckAuthor
  <2>3. /\ sent[m].at = "checking"
        /\ sent'[m].at = IF Member(sent[m].author) THEN "persisting" ELSE "lost"
    BY <1>10, StageEffect DEF TypeOK, CheckAuthor
  <2> QED
    BY <2>1, <2>2, <2>3, RangeInSet DEF TypeOK, MuteInv, Member
<1>11. ASSUME NEW m \in Messages, PersistMessage(m) PROVE MuteInv'
  <2>1. UNCHANGED <<confirmed, vouched>> /\ Range(log') = Range(log) \cup {m}
    BY <1>11, RangeAppend DEF TypeOK, PersistMessage, auxVars
  <2>2. \A n \in Messages :
          /\ sent'[n].author = sent[n].author
          /\ n # m => sent'[n].at = sent[n].at
    BY <1>11, StageEffect DEF TypeOK, PersistMessage
  <2>3. sent[m].at = "persisting" /\ sent'[m].at = "emitting"
    BY <1>11, StageEffect DEF TypeOK, PersistMessage
  <2> QED
    BY <2>1, <2>2, <2>3, RangeInSet DEF TypeOK, MuteInv, Member
<1>12. ASSUME NEW m \in Messages, EmitMessage(m) PROVE MuteInv'
  <2>1. UNCHANGED <<confirmed, vouched, log>>
    BY <1>12 DEF EmitMessage
  <2>2. \A n \in Messages :
          /\ sent'[n].author = sent[n].author
          /\ n # m => sent'[n].at = sent[n].at
    BY <1>12, StageEffect DEF TypeOK, EmitMessage
  <2>3. sent[m].at = "emitting" /\ sent'[m].at = "done"
    BY <1>12, StageEffect DEF TypeOK, EmitMessage
  <2> QED
    BY <2>1, <2>2, <2>3, RangeInSet DEF TypeOK, MuteInv, Member
<1>13. ASSUME NEW u \in Users, NEW m \in Messages, Send(u, m) PROVE MuteInv'
  <2>1. /\ UNCHANGED <<confirmed, log>>
        /\ vouched' = IF Member(u) THEN vouched \cup {m} ELSE vouched
        /\ sent[m].at = "unsent"
    BY <1>13 DEF Send
  <2>2. /\ sent'[m].author = u /\ sent'[m].at \in {"lost", "buffered", "wire"}
        /\ \A n \in Messages \ {m} : sent'[n] = sent[n]
    BY <1>13 DEF TypeOK, Send
  <2>3. m \notin Range(log)
    BY <2>1 DEF MuteInv
  <2> QED
    BY <2>1, <2>2, <2>3, RangeInSet DEF TypeOK, MuteInv, Member
<1>14. CASE UNCHANGED vars
  BY <1>1, <1>14 DEF vars, socketVars, panelVars, boundVars, auxVars
<1> QED
  BY <1>1, <1>2, <1>3, <1>4, <1>5, <1>6, <1>7, <1>8, <1>9, <1>10, <1>11,
     <1>12, <1>13, <1>14
     DEF Next, UserStep, Network, Arrival, Handshake, Request, JoinStep,
         MessageStep, OpenPanel, HistoryArrives, Deliver, Authenticate,
         CheckReader, ReadHistory, HandleJoin, CheckJoiner, EnterRoom,
         socketVars, panelVars, boundVars, auxVars

\* However often a seat is given and taken away while a message is under way, only
\* messages are stored whose author was a member after sending them.
THEOREM FormerMembersAreMute == Spec => []FormerMemberIsMute
<1>1. TypeOK /\ MuteInv => FormerMemberIsMute
  BY RangeInSet DEF TypeOK, MuteInv, FormerMemberIsMute
<1> QED
  BY <1>1, TypeCorrect, MuteInvInit, MuteInvStep, PTL DEF Spec

-----------------------------------------------------------------------------
(* Who may read *)

\* Members have been admitted, and so has everybody who passed a membership check
\* or was given anything after one.
OutsiderInv ==
  /\ confirmed \cup {Driver} \subseteq admitted
  /\ \A u \in Users \ admitted :
       /\ join[u] \notin {"allowed", "in"}
       /\ hist[u] \notin {"allowed", "answered", "shown"}
       /\ view[u] = <<>> /\ inbox[u] = <<>>

LEMMA OutsiderInvInit == Init => OutsiderInv
  BY DEF Init, OutsiderInv

LEMMA OutsiderInvStep == TypeOK /\ OutsiderInv /\ [Next]_vars => OutsiderInv'
<1> SUFFICES ASSUME TypeOK, OutsiderInv, [Next]_vars PROVE OutsiderInv'
  OBVIOUS
<1>1. ASSUME UNCHANGED <<confirmed, admitted, join, hist, view, inbox>> PROVE OutsiderInv'
  BY <1>1 DEF OutsiderInv
<1>2. ASSUME NEW u \in Users, Confirm(u) PROVE OutsiderInv'
  BY <1>2 DEF Confirm, OutsiderInv, socketVars, panelVars
<1>3. ASSUME NEW u \in Users, Cancel(u) PROVE OutsiderInv'
  BY <1>3 DEF Cancel, OutsiderInv, socketVars, panelVars, auxVars
<1>4. ASSUME NEW u \in Users, OpenPanel(u) PROVE OutsiderInv'
  BY <1>4 DEF TypeOK, OpenPanel, OutsiderInv, Member, socketVars, panelVars, auxVars
<1>5. ASSUME NEW u \in Users, ClosePanel(u) PROVE OutsiderInv'
  BY <1>5 DEF TypeOK, ClosePanel, OutsiderInv, Member, socketVars, panelVars, auxVars
<1>6. ASSUME NEW u \in Users, HistoryArrives(u) PROVE OutsiderInv'
  BY <1>6 DEF TypeOK, HistoryArrives, OutsiderInv, Member, socketVars, panelVars, auxVars
<1>7. ASSUME NEW u \in Users, Deliver(u) PROVE OutsiderInv'
  BY <1>7 DEF TypeOK, Deliver, OutsiderInv, Member, socketVars, panelVars, auxVars
<1>8. ASSUME NEW u \in Users, Connect(u) PROVE OutsiderInv'
  BY <1>8 DEF TypeOK, Connect, OutsiderInv, Member, socketVars, panelVars, auxVars
<1>9. ASSUME NEW u \in Users, Drop(u) PROVE OutsiderInv'
  BY <1>9 DEF TypeOK, Drop, OutsiderInv, Member, socketVars, panelVars, auxVars
<1>10. ASSUME NEW u \in Users, Reject(u) PROVE OutsiderInv'
  BY <1>10 DEF TypeOK, Reject, OutsiderInv, Member, socketVars, panelVars, auxVars
<1>11. ASSUME NEW u \in Users, CheckReader(u) PROVE OutsiderInv'
  BY <1>11 DEF TypeOK, CheckReader, OutsiderInv, Member, socketVars, panelVars, auxVars
<1>12. ASSUME NEW u \in Users, ReadHistory(u) PROVE OutsiderInv'
  BY <1>12 DEF TypeOK, ReadHistory, OutsiderInv, Member, socketVars, panelVars, auxVars
<1>13. ASSUME NEW u \in Users, HandleJoin(u) PROVE OutsiderInv'
  BY <1>13 DEF TypeOK, HandleJoin, OutsiderInv, Member, socketVars, panelVars, auxVars
<1>14. ASSUME NEW u \in Users, CheckJoiner(u) PROVE OutsiderInv'
  BY <1>14 DEF TypeOK, CheckJoiner, OutsiderInv, Member, socketVars, panelVars, auxVars
<1>15. ASSUME NEW u \in Users, EnterRoom(u) PROVE OutsiderInv'
  BY <1>15 DEF TypeOK, EnterRoom, OutsiderInv, Member, socketVars, panelVars, auxVars
<1>16. ASSUME NEW m \in Messages, EmitMessage(m) PROVE OutsiderInv'
  BY <1>16 DEF EmitMessage, OutsiderInv, InRoom, panelVars
<1>17. CASE UNCHANGED vars
  BY <1>1, <1>17 DEF vars, socketVars, panelVars, boundVars, auxVars
<1> QED
  BY <1>1, <1>2, <1>3, <1>4, <1>5, <1>6, <1>7, <1>8, <1>9, <1>10, <1>11,
     <1>12, <1>13, <1>14, <1>15, <1>16, <1>17
     DEF Next, UserStep, Network, Arrival, Handshake, Request, JoinStep,
         MessageStep, ConnectError, Authenticate, HandleMessage, CheckAuthor,
         PersistMessage, Send, socketVars, panelVars, boundVars, auxVars

\* Membership is read before a handler goes on, and may be gone by then; still,
\* who never had it is never served.
THEOREM OutsidersSeeNothing == Spec => []OutsiderSeesNothing
<1>1. OutsiderInv => OutsiderSeesNothing
  BY DEF OutsiderInv, OutsiderSeesNothing
<1> QED
  BY <1>1, TypeCorrect, OutsiderInvInit, OutsiderInvStep, PTL DEF Spec

-----------------------------------------------------------------------------
(* What is shown *)

\* The log has each message once, and all that is read from it or sent to a panel
\* comes from it.
StoredInv ==
  /\ IsInjective(log)
  /\ \A m \in Range(log) : sent[m].at \in {"emitting", "done"}
  /\ \A m \in Messages : sent[m].at = "emitting" => m \in Range(log)
  /\ \A u \in Users :
       /\ IsInjective(page[u]) /\ Range(page[u]) \subseteq Range(log)
       /\ IsInjective(view[u]) /\ Range(view[u]) \subseteq Range(log)
       /\ Range(inbox[u]) \subseteq Range(log)

LEMMA StoredInvInit == Init => StoredInv
  BY RangeEmpty DEF Init, StoredInv

LEMMA StoredInvStep == TypeOK /\ StoredInv /\ [Next]_vars => StoredInv'
<1> SUFFICES ASSUME TypeOK, StoredInv, [Next]_vars PROVE StoredInv'
  OBVIOUS
<1>1. ASSUME UNCHANGED <<log, sent, page, view, inbox>> PROVE StoredInv'
  BY <1>1 DEF StoredInv
<1>2. ASSUME NEW u \in Users, ClosePanel(u) PROVE StoredInv'
  <2>1. /\ UNCHANGED log
        /\ \A v \in Users : /\ inbox'[v] \in {<<>>, inbox[v]}
                             /\ page'[v] \in {<<>>, page[v]}
                             /\ view'[v] \in {<<>>, view[v]}
    BY <1>2 DEF TypeOK, ClosePanel
  <2>2. \A n \in Messages :
          \/ sent'[n].at = sent[n].at
          \/ sent[n].at \in {"buffered", "early", "wire"} /\ sent'[n].at \in {"early", "lost"}
    BY <1>2, ShiftEffect DEF TypeOK, ClosePanel, Underway
  <2> QED
    BY <2>1, <2>2, RangeInSet, RangeEmpty DEF TypeOK, StoredInv
<1>3. ASSUME NEW u \in Users, HistoryArrives(u) PROVE StoredInv'
  <2>1. UNCHANGED <<log, page, inbox, sent>>
    BY <1>3 DEF HistoryArrives, socketVars
  <2>2. \A v \in Users : view'[v] \in {page[v], view[v]}
    BY <1>3 DEF TypeOK, HistoryArrives
  <2> QED
    BY <2>1, <2>2 DEF StoredInv
<1>4. ASSUME NEW u \in Users, Deliver(u) PROVE StoredInv'
  <2> DEFINE h == Head(inbox[u])
  <2>1. UNCHANGED <<log, page, sent>>
    BY <1>4 DEF Deliver
  <2>2. h \in Messages /\ Range(inbox[u]) = {h} \cup Range(Tail(inbox[u]))
    BY <1>4, RangeHeadTail DEF TypeOK, Deliver
  <2>3. \A v \in Users : inbox'[v] = IF v = u THEN Tail(inbox[u]) ELSE inbox[v]
    BY <1>4 DEF TypeOK, Deliver
  <2>4. \A v \in Users : Range(inbox'[v]) \subseteq Range(log)
    BY <2>2, <2>3 DEF StoredInv
  <2>5. /\ IsInjective(view'[u]) /\ Range(view'[u]) \subseteq Range(log)
        /\ \A v \in Users \ {u} : view'[v] = view[v]
    <3>1. CASE h \in Range(view[u])
      BY <1>4, <3>1 DEF TypeOK, Deliver, StoredInv
    <3>2. CASE h \notin Range(view[u])
      <4>1. view'[u] = Append(view[u], h) /\ \A v \in Users \ {u} : view'[v] = view[v]
        BY <1>4, <3>2 DEF TypeOK, Deliver
      <4>2. view[u] \in Seq(Messages) /\ IsInjective(view[u])
        BY DEF TypeOK, StoredInv
      <4>3. IsInjective(view'[u])
        BY <4>1, <4>2, <3>2, <2>2, InjectiveAppend
      <4>4. Range(view'[u]) = Range(view[u]) \cup {h}
        BY <4>1, <4>2, <2>2, RangeAppend
      <4> QED
        BY <4>1, <4>3, <4>4, <2>2 DEF StoredInv
    <3> QED
      BY <3>1, <3>2
  <2> QED
    BY <2>1, <2>4, <2>5 DEF StoredInv
<1>5. ASSUME NEW u \in Users, Connect(u) PROVE StoredInv'
  <2>1. UNCHANGED <<log, page, view, inbox>>
    BY <1>5 DEF Connect, panelVars
  <2>2. \A n \in Messages :
          \/ sent'[n].at = sent[n].at
          \/ sent[n].at \in {"buffered", "early", "wire"} /\ sent'[n].at \in {"early", "lost"}
    BY <1>5, ShiftEffect DEF TypeOK, Connect, Underway
  <2> QED
    BY <2>1, <2>2, RangeInSet DEF TypeOK, StoredInv
<1>6. ASSUME NEW u \in Users, ConnectError(u) PROVE StoredInv'
  <2>1. UNCHANGED <<log, page, view, inbox>>
    BY <1>6 DEF ConnectError, panelVars
  <2>2. \A n \in Messages :
          \/ sent'[n].at = sent[n].at
          \/ sent[n].at \in {"buffered", "early", "wire"} /\ sent'[n].at \in {"early", "lost"}
    BY <1>6, ShiftEffect DEF TypeOK, ConnectError, Underway
  <2> QED
    BY <2>1, <2>2, RangeInSet DEF TypeOK, StoredInv
<1>7. ASSUME NEW u \in Users, Drop(u) PROVE StoredInv'
  <2>1. UNCHANGED <<log, page, view>> /\ \A v \in Users : inbox'[v] \in {<<>>, inbox[v]}
    BY <1>7 DEF TypeOK, Drop, panelVars
  <2>2. \A n \in Messages :
          \/ sent'[n].at = sent[n].at
          \/ sent[n].at \in {"buffered", "early", "wire"} /\ sent'[n].at \in {"early", "lost"}
    BY <1>7, ShiftEffect DEF TypeOK, Drop, Underway
  <2> QED
    BY <2>1, <2>2, RangeInSet, RangeEmpty DEF TypeOK, StoredInv
<1>8. ASSUME NEW u \in Users, Reject(u) PROVE StoredInv'
  <2>1. UNCHANGED <<log, page, view, inbox>>
    BY <1>8 DEF Reject, panelVars
  <2>2. \A n \in Messages :
          \/ sent'[n].at = sent[n].at
          \/ sent[n].at \in {"buffered", "early", "wire"} /\ sent'[n].at \in {"early", "lost"}
    BY <1>8, ShiftEffect DEF TypeOK, Reject, Underway
  <2> QED
    BY <2>1, <2>2, RangeInSet DEF TypeOK, StoredInv
<1>9. ASSUME NEW u \in Users, ReadHistory(u) PROVE StoredInv'
  <2>1. UNCHANGED <<log, view, inbox, sent>>
    BY <1>9 DEF ReadHistory, socketVars
  <2>2. \A v \in Users : page'[v] \in {log, page[v]}
    BY <1>9 DEF TypeOK, ReadHistory
  <2> QED
    BY <2>1, <2>2 DEF StoredInv
<1>10. ASSUME NEW m \in Messages, HandleMessage(m) PROVE StoredInv'
  <2>1. UNCHANGED <<log, page, view, inbox>>
    BY <1>10 DEF HandleMessage, socketVars, panelVars
  <2>2. PICK stage \in Underway : Stage(m, stage,
            IF session[sent[m].author] = "known" /\ InRoom(sent[m].author)
              THEN "checking" ELSE "lost")
    BY <1>10 DEF HandleMessage
  <2>3. \A n \in Messages : n # m => sent'[n].at = sent[n].at
    BY <2>2, StageEffect DEF TypeOK
  <2>4. sent[m].at \in {"early", "wire"} /\ sent'[m].at \in {"checking", "lost"}
    BY <2>2, StageEffect DEF TypeOK, Underway
  <2> QED
    BY <2>1, <2>3, <2>4, RangeInSet DEF TypeOK, StoredInv
<1>11. ASSUME NEW m \in Messages, CheckAuthor(m) PROVE StoredInv'
  <2>1. UNCHANGED <<log, page, view, inbox>>
    BY <1>11 DEF CheckAuthor, socketVars, panelVars
  <2>2. \A n \in Messages : n # m => sent'[n].at = sent[n].at
    BY <1>11, StageEffect DEF TypeOK, CheckAuthor
  <2>3. sent[m].at = "checking" /\ sent'[m].at \in {"persisting", "lost"}
    BY <1>11, StageEffect DEF TypeOK, CheckAuthor
  <2> QED
    BY <2>1, <2>2, <2>3, RangeInSet DEF TypeOK, StoredInv
<1>12. ASSUME NEW m \in Messages, PersistMessage(m) PROVE StoredInv'
  <2>1. UNCHANGED <<page, view, inbox>>
    BY <1>12 DEF PersistMessage, socketVars, panelVars
  <2>2. \A n \in Messages : n # m => sent'[n].at = sent[n].at
    BY <1>12, StageEffect DEF TypeOK, PersistMessage
  <2>3. sent[m].at = "persisting" /\ sent'[m].at = "emitting"
    BY <1>12, StageEffect DEF TypeOK, PersistMessage
  <2>4. log \in Seq(Messages) /\ m \notin Range(log) /\ IsInjective(log) /\ log' = Append(log, m)
    BY <1>12, <2>3 DEF TypeOK, StoredInv, PersistMessage
  <2>5. IsInjective(log') /\ Range(log') = Range(log) \cup {m}
    BY <2>4, InjectiveAppend, RangeAppend
  <2> QED
    BY <2>1, <2>2, <2>3, <2>5, RangeInSet DEF TypeOK, StoredInv
<1>13. ASSUME NEW m \in Messages, EmitMessage(m) PROVE StoredInv'
  <2>1. UNCHANGED <<log, page, view>>
    BY <1>13 DEF EmitMessage, panelVars
  <2>2. \A n \in Messages : n # m => sent'[n].at = sent[n].at
    BY <1>13, StageEffect DEF TypeOK, EmitMessage
  <2>3. sent[m].at = "emitting" /\ sent'[m].at = "done"
    BY <1>13, StageEffect DEF TypeOK, EmitMessage
  <2>4. \A v \in Users : inbox'[v] \in {inbox[v], Append(inbox[v], m)}
    BY <1>13 DEF EmitMessage
  <2>5. \A v \in Users : Range(inbox'[v]) \subseteq Range(inbox[v]) \cup {m}
    <3>1. \A v \in Users : Range(Append(inbox[v], m)) = Range(inbox[v]) \cup {m}
      BY RangeAppend DEF TypeOK
    <3> QED
      BY <2>4, <3>1
  <2>6. m \in Range(log)
    BY <2>3 DEF StoredInv
  <2> QED
    BY <2>1, <2>2, <2>3, <2>5, <2>6, RangeInSet DEF TypeOK, StoredInv
<1>14. ASSUME NEW u \in Users, NEW m \in Messages, Send(u, m) PROVE StoredInv'
  <2>1. UNCHANGED <<log, page, view, inbox>> /\ sent[m].at = "unsent"
    BY <1>14 DEF Send, socketVars, panelVars
  <2>2. /\ sent'[m].at \in {"lost", "buffered", "wire"}
        /\ \A n \in Messages \ {m} : sent'[n] = sent[n]
    BY <1>14 DEF TypeOK, Send
  <2> QED
    BY <2>1, <2>2, RangeInSet DEF TypeOK, StoredInv
<1>15. CASE UNCHANGED vars
  BY <1>1, <1>15 DEF vars, socketVars, panelVars, boundVars, auxVars
<1> QED
  BY <1>1, <1>2, <1>3, <1>4, <1>5, <1>6, <1>7, <1>8, <1>9, <1>10, <1>11,
     <1>12, <1>13, <1>14, <1>15
     DEF Next, UserStep, Network, Arrival, Handshake, Request, JoinStep,
         MessageStep, Confirm, Cancel, OpenPanel, Authenticate, CheckReader,
         HandleJoin, CheckJoiner, EnterRoom, socketVars, panelVars, boundVars,
         auxVars

\* A message may reach a panel twice, in the history and over the socket: it is
\* shown once, and only after it was stored.
THEOREM ShownOnceAndStored == Spec => []ShownIsStored
<1>1. StoredInv => ShownIsStored
  BY DEF StoredInv, ShownIsStored
<1> QED
  BY <1>1, TypeCorrect, StoredInvInit, StoredInvStep, PTL DEF Spec

\* What was stored when a panel was opened is in the page read for it, and then in
\* the panel.
ReloadInv ==
  \A u \in Users :
    /\ owed[u] \subseteq Range(log)
    /\ hist[u] = "answered" => owed[u] \subseteq Range(page[u])
    /\ hist[u] = "shown" => owed[u] \subseteq Range(view[u])

LEMMA ReloadInvInit == Init => ReloadInv
  BY DEF Init, ReloadInv

LEMMA ReloadInvStep == TypeOK /\ ReloadInv /\ [Next]_vars => ReloadInv'
<1> SUFFICES ASSUME TypeOK, ReloadInv, [Next]_vars PROVE ReloadInv'
  OBVIOUS
<1>1. ASSUME UNCHANGED <<owed, log, hist, page, view>> PROVE ReloadInv'
  BY <1>1 DEF ReloadInv
<1>2. ASSUME NEW u \in Users, OpenPanel(u) PROVE ReloadInv'
  BY <1>2 DEF TypeOK, OpenPanel, ReloadInv
<1>3. ASSUME NEW u \in Users, ClosePanel(u) PROVE ReloadInv'
  BY <1>3 DEF TypeOK, ClosePanel, ReloadInv
<1>4. ASSUME NEW u \in Users, HistoryArrives(u) PROVE ReloadInv'
  BY <1>4 DEF TypeOK, HistoryArrives, ReloadInv, auxVars
<1>5. ASSUME NEW u \in Users, Deliver(u) PROVE ReloadInv'
  <2>1. UNCHANGED <<owed, log, hist, page>>
    BY <1>5 DEF Deliver, auxVars
  <2>2. Head(inbox[u]) \in Messages
    BY <1>5, RangeHeadTail DEF TypeOK, Deliver
  <2>3. \A v \in Users : view'[v] \in {view[v], Append(view[v], Head(inbox[u]))}
    BY <1>5 DEF TypeOK, Deliver
  <2>4. \A v \in Users : Range(view[v]) \subseteq Range(view'[v])
    <3>1. \A v \in Users : Range(Append(view[v], Head(inbox[u]))) = Range(view[v]) \cup {Head(inbox[u])}
      BY <2>2, RangeAppend DEF TypeOK
    <3> QED
      BY <2>3, <3>1
  <2> QED
    BY <2>1, <2>4 DEF ReloadInv
<1>6. ASSUME NEW u \in Users, CheckReader(u) PROVE ReloadInv'
  BY <1>6 DEF TypeOK, CheckReader, ReloadInv, auxVars
<1>7. ASSUME NEW u \in Users, ReadHistory(u) PROVE ReloadInv'
  BY <1>7 DEF TypeOK, ReadHistory, ReloadInv, auxVars
<1>8. ASSUME NEW m \in Messages, PersistMessage(m) PROVE ReloadInv'
  <2>1. UNCHANGED <<owed, hist, page, view>> /\ Range(log) \subseteq Range(log')
    BY <1>8, RangeAppend DEF TypeOK, PersistMessage, panelVars, auxVars
  <2> QED
    BY <2>1 DEF ReloadInv
<1>9. CASE UNCHANGED vars
  BY <1>1, <1>9 DEF vars, socketVars, panelVars, boundVars, auxVars
<1> QED
  BY <1>1, <1>2, <1>3, <1>4, <1>5, <1>6, <1>7, <1>8, <1>9
     DEF Next, UserStep, Network, Arrival, Handshake, Request, JoinStep,
         MessageStep, Confirm, Cancel, Connect, ConnectError, Drop,
         Authenticate, Reject, HandleJoin, CheckJoiner, EnterRoom,
         HandleMessage, CheckAuthor, EmitMessage, Send, socketVars, panelVars,
         boundVars, auxVars

\* The answer of the history, however late, brings everything that was stored when
\* the panel was opened, and nothing takes it away again.
THEOREM ReloadsShowAll == Spec => []ReloadShowsAll
<1>1. ReloadInv => ReloadShowsAll
  BY DEF ReloadInv, ReloadShowsAll
<1> QED
  BY <1>1, TypeCorrect, ReloadInvInit, ReloadInvStep, PTL DEF Spec

\* Nothing is due before the history is loaded, and so its answer takes away
\* nothing that is due; a panel that is closed has no request.
LiveInv ==
  \A u \in Users : /\ session[u] = "none" => hist[u] = "none"
                   /\ due[u] # {} => hist[u] = "shown"
                   /\ due[u] \subseteq Range(view[u]) \cup Range(inbox[u])

LEMMA LiveInvInit == Init => LiveInv
  BY DEF Init, LiveInv

LEMMA LiveInvStep == TypeOK /\ LiveInv /\ [Next]_vars => LiveInv'
<1> SUFFICES ASSUME TypeOK, LiveInv, [Next]_vars PROVE LiveInv'
  OBVIOUS
<1>1. ASSUME UNCHANGED <<session, due, hist, view, inbox>> PROVE LiveInv'
  BY <1>1 DEF LiveInv
<1>2. ASSUME NEW u \in Users, OpenPanel(u) PROVE LiveInv'
  BY <1>2 DEF TypeOK, OpenPanel, Open, LiveInv
<1>3. ASSUME NEW u \in Users, ClosePanel(u) PROVE LiveInv'
  BY <1>3 DEF TypeOK, ClosePanel, LiveInv
<1>4. ASSUME NEW u \in Users, HistoryArrives(u) PROVE LiveInv'
  BY <1>4 DEF TypeOK, HistoryArrives, LiveInv, socketVars, auxVars
<1>5. ASSUME NEW u \in Users, Deliver(u) PROVE LiveInv'
  <2> DEFINE h == Head(inbox[u])
  <2>1. UNCHANGED <<session, due, hist>>
    BY <1>5 DEF Deliver, auxVars
  <2>2. h \in Messages /\ Range(inbox[u]) = {h} \cup Range(Tail(inbox[u]))
    BY <1>5, RangeHeadTail DEF TypeOK, Deliver
  <2>3. inbox'[u] = Tail(inbox[u]) /\ \A v \in Users \ {u} : inbox'[v] = inbox[v]
    BY <1>5 DEF TypeOK, Deliver
  <2>4. /\ view'[u] = IF h \in Range(view[u]) THEN view[u] ELSE Append(view[u], h)
        /\ \A v \in Users \ {u} : view'[v] = view[v]
    BY <1>5 DEF TypeOK, Deliver
  <2>5. Range(view'[u]) = Range(view[u]) \cup {h}
    BY <2>2, <2>4, RangeAppend DEF TypeOK
  <2> QED
    BY <2>1, <2>2, <2>3, <2>4, <2>5 DEF LiveInv
<1>6. ASSUME NEW u \in Users, Connect(u) PROVE LiveInv'
  BY <1>6 DEF TypeOK, Connect, LiveInv, panelVars, auxVars
<1>7. ASSUME NEW u \in Users, ConnectError(u) PROVE LiveInv'
  BY <1>7 DEF TypeOK, ConnectError, LiveInv, panelVars, auxVars
<1>8. ASSUME NEW u \in Users, Drop(u) PROVE LiveInv'
  BY <1>8 DEF TypeOK, Drop, LiveInv, panelVars
<1>9. ASSUME NEW u \in Users, Authenticate(u) PROVE LiveInv'
  BY <1>9 DEF TypeOK, Authenticate, LiveInv, panelVars, auxVars
<1>10. ASSUME NEW u \in Users, Reject(u) PROVE LiveInv'
  BY <1>10 DEF TypeOK, Reject, LiveInv, panelVars, auxVars
<1>11. ASSUME NEW u \in Users, CheckReader(u) PROVE LiveInv'
  BY <1>11 DEF TypeOK, CheckReader, LiveInv, socketVars, auxVars
<1>12. ASSUME NEW u \in Users, ReadHistory(u) PROVE LiveInv'
  BY <1>12 DEF TypeOK, ReadHistory, LiveInv, socketVars, auxVars
<1>13. ASSUME NEW m \in Messages, EmitMessage(m) PROVE LiveInv'
  <2>1. UNCHANGED <<session, view, hist>>
    BY <1>13 DEF EmitMessage, panelVars
  <2>2. \A v \in Users :
          /\ due'[v] = IF Attends(v) THEN due[v] \cup {m} ELSE due[v]
          /\ inbox'[v] = IF InRoom(v) THEN Append(inbox[v], m) ELSE inbox[v]
    BY <1>13 DEF TypeOK, EmitMessage
  <2>3. \A v \in Users :
          Range(inbox'[v]) = IF InRoom(v) THEN Range(inbox[v]) \cup {m} ELSE Range(inbox[v])
    <3>1. \A v \in Users : Range(Append(inbox[v], m)) = Range(inbox[v]) \cup {m}
      BY RangeAppend DEF TypeOK
    <3> QED
      BY <2>2, <3>1
  <2> QED
    BY <2>1, <2>2, <2>3 DEF LiveInv, Attends
<1>14. CASE UNCHANGED vars
  BY <1>1, <1>14 DEF vars, socketVars, panelVars, boundVars, auxVars
<1> QED
  BY <1>1, <1>2, <1>3, <1>4, <1>5, <1>6, <1>7, <1>8, <1>9, <1>10, <1>11,
     <1>12, <1>13, <1>14
     DEF Next, UserStep, Network, Arrival, Handshake, Request, JoinStep,
         MessageStep, Confirm, Cancel, HandleJoin, CheckJoiner, EnterRoom,
         HandleMessage, CheckAuthor, PersistMessage, Send, socketVars,
         panelVars, boundVars, auxVars

\* With any number of users and messages, what is emitted to a panel that is
\* joined and loaded is shown there or on its way.
THEOREM NothingIsMissedLive == Spec => []NothingMissedLive
<1>1. LiveInv => NothingMissedLive
  BY DEF LiveInv, NothingMissedLive
<1> QED
  BY <1>1, TypeCorrect, LiveInvInit, LiveInvStep, PTL DEF Spec

=============================================================================
