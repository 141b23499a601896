---------------------------- MODULE AccountsProofs ----------------------------
(***************************************************************************)
(* What holds of accounts and sessions for any number of accounts, admins  *)
(* and requests that are handled at the same time.                         *)
(***************************************************************************)
EXTENDS Accounts, TLAPS, FiniteSetTheorems

-----------------------------------------------------------------------------
(* The invariant *)

Handled ==
  [at : Stages, op : Ops, by : Accounts \cup {Nobody}, target : Accounts \cup {Nobody},
   mine : BOOLEAN, seen : BOOLEAN, result : Results]

\* A request q has witnessed, in w, every account active since it was sent, and
\* whoever it acts for is among them once it has got past the checks.
Good(q, w) ==
  /\ q \in Handled
  /\ w \subseteq exists
  /\ q.at # "idle" => Active \subseteq w
  /\ q.at = "hash" /\ q.op = "login" => q.by \in w
  /\ Served(q) => q.by \in w
  /\ q.at \in {"count", "compare", "update"} => q.target \in exists
  /\ q.at # "idle" => q.by \in Accounts

RowsTyped ==
  /\ exists \subseteq Accounts
  /\ disabled \subseteq exists

SessionTyped ==
  /\ issued \subseteq exists
  /\ token \in exists \cup {Nobody}
  /\ user \in exists \cup {Nobody}
  /\ load \in Requests \cup {NoRequest}

RequestsGood ==
  /\ req = [r \in Requests |-> req[r]]
  /\ witnessed = [r \in Requests |-> witnessed[r]]
  /\ \A r \in Requests : Good(req[r], witnessed[r])

AccountsInv == RowsTyped /\ SessionTyped /\ RequestsGood /\ LoadIsShared

LEMMA ServerIsGood ==
  ASSUME AccountsInv, NEW r \in Requests
  PROVE  Good(req[r], witnessed[r])
  BY DEF AccountsInv, RequestsGood

\* One request moves on, or ends; rows and witnesses stay.
LEMMA OneRequestMoves ==
  ASSUME AccountsInv, NEW r \in Requests, NEW q,
         UNCHANGED <<exists, disabled, witnessed, load>>,
         req' = [req EXCEPT ![r] = q],
         Good(q, witnessed[r]),
         \/ q.at = "idle"
         \/ Busy(r) /\ q.mine = req[r].mine /\ q.op = req[r].op
  PROVE  RowsTyped' /\ RequestsGood' /\ LoadIsShared'
<1>1. RowsTyped'
  BY DEF AccountsInv, RowsTyped
<1>2. \A p \in Requests : req'[p] = IF p = r THEN q ELSE req[p]
  BY DEF AccountsInv, RequestsGood
<1>3. \A p \in Requests : Good(req'[p], witnessed[p])
  BY <1>2 DEF AccountsInv, RequestsGood
<1>4. RequestsGood'
  BY <1>3 DEF RequestsGood, AccountsInv, Good, Active, Served
<1>5. LoadIsShared'
  BY <1>2 DEF AccountsInv, LoadIsShared, Busy
<1> QED
  BY <1>1, <1>4, <1>5

\* A request that is done.
LEMMA IdleIsGood ==
  ASSUME NEW w, w \subseteq exists
  PROVE  Good(Idle, w)
  BY DEF Good, Idle, Handled, Stages, Ops, Results, Served

LEMMA ReplyMoves ==
  ASSUME AccountsInv, NEW r \in Requests, NEW result \in Results, Busy(r), Reply(r, result),
         UNCHANGED <<exists, disabled, witnessed, load>>,
         result = "ok" => req[r].by \in witnessed[r]
  PROVE  RowsTyped' /\ RequestsGood' /\ LoadIsShared'
<1> DEFINE q == IF req[r].mine THEN [req[r] EXCEPT !.at = "answered", !.result = result] ELSE Idle
<1>1. Good(req[r], witnessed[r])
  BY ServerIsGood
<1>2. req' = [req EXCEPT ![r] = q]
  BY DEF Reply
<1>3. CASE ~req[r].mine
  <2>1. q = Idle /\ Good(q, witnessed[r]) /\ q.at = "idle"
    BY <1>1, <1>3, IdleIsGood DEF Good, Idle
  <2> QED
    BY <1>2, <2>1, OneRequestMoves
<1>4. CASE req[r].mine
  <2>1. q = [req[r] EXCEPT !.at = "answered", !.result = result]
    BY <1>4
  <2> HIDE DEF q
  <2>2. Good(q, witnessed[r]) /\ q.mine = req[r].mine /\ q.op = req[r].op
    BY <1>1, <2>1 DEF Good, Handled, Stages, Results, Served, Busy
  <2> QED
    BY <1>2, <2>2, OneRequestMoves
<1> QED
  BY <1>3, <1>4

LEMMA GoMoves ==
  ASSUME AccountsInv, NEW r \in Requests, NEW stage \in Stages \ {"idle", "answered"}, Busy(r),
         Go(r, stage),
         UNCHANGED <<exists, disabled, witnessed, load>>,
         stage = "hash" /\ req[r].op = "login" => req[r].by \in witnessed[r],
         stage \in {"load", "count", "compare", "update"} => req[r].by \in witnessed[r],
         stage \in {"count", "compare", "update"} => req[r].target \in exists
  PROVE  RowsTyped' /\ RequestsGood' /\ LoadIsShared'
<1> DEFINE q == [req[r] EXCEPT !.at = stage]
<1>1. Good(req[r], witnessed[r])
  BY ServerIsGood
<1>2. req' = [req EXCEPT ![r] = q]
  BY DEF Go
<1>3. Good(q, witnessed[r]) /\ q.mine = req[r].mine /\ q.op = req[r].op
  BY <1>1 DEF Good, Handled, Served, Busy
<1> HIDE DEF q
<1> QED
  BY <1>2, <1>3, OneRequestMoves

\* A request begins.
LEMMA SendMoves ==
  ASSUME AccountsInv, NEW r \in Requests, NEW op \in Ops, NEW by \in Accounts,
         NEW target \in Accounts, NEW mine \in BOOLEAN, Send(r, op, by, target, mine),
         UNCHANGED <<exists, disabled>>,
         \/ load' = load /\ (mine => op # "me")
         \/ load' = r /\ load = NoRequest
  PROVE  RowsTyped' /\ RequestsGood' /\ LoadIsShared'
<1> DEFINE q == Fresh(op, by, target, mine)
<1>1. /\ ~Busy(r) /\ req' = [req EXCEPT ![r] = q]
      /\ witnessed' = [witnessed EXCEPT ![r] = Active]
  BY DEF Send
<1>2. q \in Handled /\ q.at \in {"find", "jwt"} /\ q.mine = mine /\ q.op = op /\ q.by = by
  BY DEF Fresh, Idle, Handled, Stages, Ops, Results
<1> HIDE DEF q
<1>3. Good(q, Active)
  BY <1>2 DEF Good, Served, Active
<1>4. \A p \in Requests :
        /\ req'[p] = IF p = r THEN q ELSE req[p]
        /\ witnessed'[p] = IF p = r THEN Active ELSE witnessed[p]
  BY <1>1 DEF AccountsInv, RequestsGood
<1>5. \A p \in Requests : Good(req'[p], witnessed'[p])
  BY <1>3, <1>4 DEF AccountsInv, RequestsGood
<1>6. RequestsGood'
  BY <1>1, <1>5 DEF AccountsInv, RequestsGood, Good, Active
<1>7. LoadIsShared'
  BY <1>2, <1>4, AccountsAssumption DEF AccountsInv, LoadIsShared, Busy
<1> QED
  BY <1>6, <1>7 DEF AccountsInv, RowsTyped

\* A row is written: every request under way witnesses it.
LEMMA ObserveMoves ==
  ASSUME AccountsInv, NEW r \in Requests, NEW result \in Results, Reply(r, result), Busy(r), Observe,
         exists \subseteq exists', exists' \subseteq Accounts, disabled' \subseteq exists',
         load' = load,
         result = "ok" => req[r].by \in witnessed'[r]
  PROVE  RowsTyped' /\ RequestsGood' /\ LoadIsShared'
<1> DEFINE q == IF req[r].mine THEN [req[r] EXCEPT !.at = "answered", !.result = result] ELSE Idle
           w == [p \in Requests |-> IF Busy(p) THEN witnessed[p] \cup (exists' \ disabled')
                                    ELSE witnessed[p]]
<1>1. req' = [req EXCEPT ![r] = q] /\ witnessed' = w
  BY DEF Reply, Observe
<1>2. \A p \in Requests : req'[p] = IF p = r THEN q ELSE req[p]
  BY <1>1 DEF AccountsInv, RequestsGood
<1>3. ASSUME NEW p \in Requests PROVE Good(req[p], witnessed[p])
  BY ServerIsGood
<1>4. w[r] \subseteq exists'
  BY <1>3 DEF Good
<1>5. /\ q \in Handled /\ q.at \in {"idle", "answered"} /\ (Served(q) => q.by \in w[r])
      /\ q.at # "idle" => q.by \in Accounts
  <2>1. CASE req[r].mine
    <3>1. q = [req[r] EXCEPT !.at = "answered", !.result = result] /\ req[r] \in Handled
          /\ req[r].by \in Accounts
      BY <1>3, <2>1 DEF Good, Busy
    <3> QED
      BY <1>1, <3>1 DEF Handled, Stages, Results, Served
  <2>2. CASE ~req[r].mine
    BY <2>2 DEF Idle, Handled, Stages, Ops, Results, Served
  <2> QED
    BY <2>1, <2>2
<1>6. q.mine /\ q.at # "idle" => q.op = req[r].op /\ req[r].mine
  <2>1. req[r] \in Handled
    BY <1>3 DEF Good
  <2> QED
    BY <2>1 DEF Idle, Handled
<1> HIDE DEF q
<1>7. ASSUME NEW p \in Requests
      PROVE  /\ req'[p] \in Handled
             /\ w[p] \subseteq exists'
             /\ req'[p].at # "idle" => Active' \subseteq w[p]
             /\ req'[p].at = "hash" /\ req'[p].op = "login" => req'[p].by \in w[p]
             /\ Served(req'[p]) => req'[p].by \in w[p]
             /\ req'[p].at \in {"count", "compare", "update"} => req'[p].target \in exists'
             /\ req'[p].at # "idle" => req'[p].by \in Accounts
  <2>1. CASE p = r
    BY <1>2, <1>4, <1>5, <2>1 DEF Active, Busy
  <2>2. CASE p # r
    BY <1>2, <1>3, <2>2 DEF Active, Busy, Good
  <2> QED
    BY <2>1, <2>2
<1>8. req' = [p \in Requests |-> req'[p]] /\ witnessed' = [p \in Requests |-> witnessed'[p]]
  BY <1>1 DEF AccountsInv, RequestsGood
<1>9. \A p \in Requests : Served(req[p])' = Served(req'[p])
  BY DEF Served
<1> HIDE DEF w
<1>10. RequestsGood'
  BY <1>1, <1>7, <1>8 DEF RequestsGood, Good, Active, Served
<1>11. LoadIsShared'
  BY <1>2, <1>6 DEF AccountsInv, LoadIsShared, Busy
<1> QED
  BY <1>10, <1>11 DEF RowsTyped

-----------------------------------------------------------------------------
(* The invariant holds at the beginning, and every step keeps it. *)

LEMMA AccountsInvInit == Init => AccountsInv
<1> SUFFICES ASSUME Init PROVE AccountsInv
  OBVIOUS
<1>1. \A r \in Requests : Good(req[r], witnessed[r])
  BY IdleIsGood DEF Init
<1>2. RowsTyped /\ SessionTyped
  BY AccountsAssumption DEF Init, RowsTyped, SessionTyped
<1>3. RequestsGood
  BY <1>1 DEF Init, RequestsGood
<1>4. LoadIsShared
  BY DEF Init, LoadIsShared, Busy, Idle
<1> QED
  BY <1>2, <1>3, <1>4 DEF AccountsInv

\* The steps of a handler that write no row.
LEMMA ReadsKeep ==
  ASSUME AccountsInv, NEW r \in Requests,
         FindByEmail(r) \/ ComparePassword(r) \/ Validate(r) \/ LoadUser(r)
         \/ CountAdmins(r) \/ CompareUser(r)
  PROVE  AccountsInv'
<1>1. Good(req[r], witnessed[r])
  BY ServerIsGood
<1>2. ASSUME Busy(r) PROVE Active \subseteq witnessed[r]
  BY <1>1, <1>2 DEF Good, Busy
<1>3. CASE FindByEmail(r)
  <2>1. Busy(r) /\ UNCHANGED <<exists, disabled, witnessed, load>>
    BY <1>3 DEF FindByEmail, At, Busy, rowVars, sessionVars
  <2>2. \/ Reply(r, "refused") \/ Reply(r, "unauthorized")
        \/ Go(r, "hash") /\ (req[r].op = "login" => req[r].by \in Active)
    BY <1>3 DEF FindByEmail
  <2>3. RowsTyped' /\ RequestsGood' /\ LoadIsShared'
    <3>1. CASE Reply(r, "refused") \/ Reply(r, "unauthorized")
      BY <2>1, <3>1, ReplyMoves DEF Results
    <3>2. CASE Go(r, "hash") /\ (req[r].op = "login" => req[r].by \in Active)
      BY <1>2, <2>1, <3>2, GoMoves DEF Stages
    <3> QED
      BY <2>2, <3>1, <3>2
  <2>4. SessionTyped'
    BY <1>3 DEF FindByEmail, AccountsInv, SessionTyped, rowVars, sessionVars
  <2> QED
    BY <2>3, <2>4 DEF AccountsInv
<1>4. CASE ComparePassword(r)
  <2>1. /\ Busy(r) /\ UNCHANGED <<exists, disabled, witnessed, load>>
        /\ req[r].by \in witnessed[r]
    BY <1>1, <1>4 DEF ComparePassword, At, Busy, rowVars, sessionVars, Good
  <2>2. Reply(r, "unauthorized") \/ Reply(r, "ok")
    BY <1>4 DEF ComparePassword
  <2>3. RowsTyped' /\ RequestsGood' /\ LoadIsShared'
    BY <2>1, <2>2, ReplyMoves DEF Results
  <2>4. SessionTyped'
    BY <1>1, <1>4, <2>1 DEF ComparePassword, AccountsInv, SessionTyped, rowVars, sessionVars, Good
  <2> QED
    BY <2>3, <2>4 DEF AccountsInv
<1>5. CASE Validate(r)
  <2>1. Busy(r) /\ UNCHANGED <<exists, disabled, witnessed, load>>
    BY <1>5 DEF Validate, At, Busy, rowVars, sessionVars
  <2>2. \/ Reply(r, "refused") \/ Reply(r, "unauthorized")
        \/ (Reply(r, "ok") \/ Go(r, "load")) /\ req[r].by \in Active
    BY <1>5 DEF Validate
  <2>3. RowsTyped' /\ RequestsGood' /\ LoadIsShared'
    <3>1. CASE Reply(r, "refused") \/ Reply(r, "unauthorized")
      BY <2>1, <3>1, ReplyMoves DEF Results
    <3>2. CASE Reply(r, "ok") /\ req[r].by \in Active
      BY <1>2, <2>1, <3>2, ReplyMoves DEF Results
    <3>3. CASE Go(r, "load") /\ req[r].by \in Active
      BY <1>2, <2>1, <3>3, GoMoves DEF Stages
    <3> QED
      BY <2>2, <3>1, <3>2, <3>3
  <2>4. SessionTyped'
    BY <1>5 DEF Validate, AccountsInv, SessionTyped, rowVars, sessionVars
  <2> QED
    BY <2>3, <2>4 DEF AccountsInv
<1>6. CASE LoadUser(r)
  <2>1. /\ Busy(r) /\ UNCHANGED <<exists, disabled, witnessed, load>>
        /\ req[r].by \in witnessed[r]
    BY <1>1, <1>6 DEF LoadUser, At, Busy, rowVars, sessionVars, Good, Served
  <2> DEFINE seen == req[r].target \in disabled
             q == [req[r] EXCEPT !.seen = seen, !.at = "compare"]
  <2>2. \/ Reply(r, "refused")
        \/ req[r].target \in exists /\ (Go(r, "count") \/ req' = [req EXCEPT ![r] = q])
    <3>1. req = [p \in Requests |-> req[p]]
      BY DEF AccountsInv, RequestsGood
    <3> QED
      BY <1>6, <3>1 DEF LoadUser
  <2>3. RowsTyped' /\ RequestsGood' /\ LoadIsShared'
    <3>1. CASE Reply(r, "refused")
      BY <2>1, <3>1, ReplyMoves DEF Results
    <3>2. CASE req[r].target \in exists /\ Go(r, "count")
      BY <2>1, <3>2, GoMoves DEF Stages
    <3>3. CASE req[r].target \in exists /\ req' = [req EXCEPT ![r] = q]
      <4>1. seen \in BOOLEAN
        OBVIOUS
      <4> HIDE DEF seen
      <4>2. /\ q.mine = req[r].mine /\ q.op = req[r].op /\ q.at = "compare"
            /\ q.by = req[r].by /\ q.target = req[r].target /\ q \in Handled
        BY <1>1, <4>1 DEF Good, Handled, Stages
      <4> HIDE DEF q
      <4>3. Good(q, witnessed[r])
        BY <1>1, <2>1, <3>3, <4>1, <4>2 DEF Good, Served, Busy
      <4> QED
        BY <2>1, <3>3, <4>2, <4>3, OneRequestMoves
    <3> QED
      BY <2>2, <3>1, <3>2, <3>3
  <2>4. SessionTyped'
    BY <1>6 DEF LoadUser, AccountsInv, SessionTyped, rowVars, sessionVars
  <2> QED
    BY <2>3, <2>4 DEF AccountsInv
<1>7. CASE CountAdmins(r) \/ CompareUser(r)
  <2>1. /\ Busy(r) /\ UNCHANGED <<exists, disabled, witnessed, load>>
        /\ req[r].by \in witnessed[r] /\ req[r].target \in exists
    BY <1>1, <1>7 DEF CountAdmins, CompareUser, At, Busy, rowVars, sessionVars, Good, Served
  <2>2. \/ Reply(r, "refused") \/ Reply(r, "ok")
        \/ Go(r, "compare") \/ Go(r, "update")
    BY <1>7 DEF CountAdmins, CompareUser
  <2>3. RowsTyped' /\ RequestsGood' /\ LoadIsShared'
    <3>1. CASE Reply(r, "refused") \/ Reply(r, "ok")
      BY <2>1, <3>1, ReplyMoves DEF Results
    <3>2. CASE Go(r, "compare") \/ Go(r, "update")
      BY <2>1, <3>2, GoMoves DEF Stages
    <3> QED
      BY <2>2, <3>1, <3>2
  <2>4. SessionTyped'
    BY <1>7 DEF CountAdmins, CompareUser, AccountsInv, SessionTyped, rowVars, sessionVars
  <2> QED
    BY <2>3, <2>4 DEF AccountsInv
<1> QED
  BY <1>3, <1>4, <1>5, <1>6, <1>7

\* The two writes.
LEMMA WritesKeep ==
  ASSUME AccountsInv, NEW r \in Requests, InsertUser(r) \/ UpdateUser(r)
  PROVE  AccountsInv'
<1>1. Good(req[r], witnessed[r])
  BY ServerIsGood
<1>2. CASE InsertUser(r)
  <2>1. Busy(r) /\ load' = load /\ Observe /\ disabled' = disabled /\ req[r].by \in Accounts \cup {Nobody}
    BY <1>1, <1>2 DEF InsertUser, At, Busy, sessionVars, Good, Handled
  <2>2. CASE req[r].by \in exists
    <3>1. Reply(r, "error") /\ exists' = exists
      BY <1>2, <2>2 DEF InsertUser
    <3>2. RowsTyped' /\ RequestsGood' /\ LoadIsShared'
      BY <2>1, <3>1, ObserveMoves DEF AccountsInv, RowsTyped, Results
    <3> QED
      BY <1>2, <2>2, <3>2 DEF InsertUser, AccountsInv, SessionTyped, sessionVars
  <2>3. CASE req[r].by \notin exists
    <3>1. /\ Reply(r, "ok") /\ exists' = exists \cup {req[r].by}
          /\ issued' = issued \cup {req[r].by}
      BY <1>2, <2>3 DEF InsertUser
    <3>2. req[r].by \notin disabled
      BY <2>3 DEF AccountsInv, RowsTyped
    <3>3. req[r].by \in witnessed'[r]
      BY <2>1, <3>1, <3>2 DEF Observe
    <3>4. req[r].by \in Accounts
      BY <1>1, <2>1 DEF Good, Busy
    <3>5. RowsTyped' /\ RequestsGood' /\ LoadIsShared'
      BY <2>1, <3>1, <3>3, <3>4, ObserveMoves DEF AccountsInv, RowsTyped, Results
    <3> QED
      BY <1>2, <3>1, <3>5 DEF InsertUser, AccountsInv, SessionTyped, sessionVars
  <2> QED
    BY <2>2, <2>3
<1>3. CASE UpdateUser(r)
  <2>1. /\ Busy(r) /\ load' = load /\ Observe /\ exists' = exists
        /\ Reply(r, "ok") /\ req[r].by \in witnessed[r] /\ req[r].target \in exists
    BY <1>1, <1>3 DEF UpdateUser, At, Busy, sessionVars, Good, Served
  <2>2. disabled' \subseteq exists
    BY <1>3, <2>1 DEF UpdateUser, AccountsInv, RowsTyped
  <2>3. req[r].by \in witnessed'[r]
    BY <2>1 DEF Observe
  <2>4. RowsTyped' /\ RequestsGood' /\ LoadIsShared'
    BY <2>1, <2>2, <2>3, ObserveMoves DEF AccountsInv, RowsTyped, Results
  <2> QED
    BY <1>3, <2>4 DEF UpdateUser, AccountsInv, SessionTyped, sessionVars
<1> QED
  BY <1>2, <1>3

\* The steps of the browser.
LEMMA BrowserKeeps ==
  ASSUME AccountsInv, NEW r \in Requests, Browser(r)
  PROVE  AccountsInv'
<1> USE DEF rowVars, sessionVars
<1>1. token \in exists \cup {Nobody} /\ exists \subseteq Accounts /\ NoRequest \notin Requests
  BY AccountsAssumption DEF AccountsInv, SessionTyped, RowsTyped
<1>2. CASE EnsureSessionLoaded(r)
  <2>1. /\ Send(r, "me", token, token, TRUE) /\ load' = r /\ load = NoRequest
        /\ token \in Accounts /\ UNCHANGED <<exists, disabled, issued, token, user>>
    BY <1>1, <1>2 DEF EnsureSessionLoaded
  <2>2. RowsTyped' /\ RequestsGood' /\ LoadIsShared'
    BY <2>1, SendMoves DEF Ops
  <2> QED
    BY <2>1, <2>2 DEF AccountsInv, SessionTyped
<1>3. CASE SubmitProfile(r)
  <2>1. /\ Send(r, "profile", token, token, TRUE) /\ token \in Accounts
        /\ UNCHANGED <<exists, disabled, issued, token, user, load>>
    BY <1>1, <1>3 DEF SubmitProfile
  <2>2. RowsTyped' /\ RequestsGood' /\ LoadIsShared'
    BY <2>1, SendMoves DEF Ops
  <2> QED
    BY <2>1, <2>2 DEF AccountsInv, SessionTyped
<1>4. ASSUME NEW op \in Ops, NEW a \in Accounts, SubmitCredentials(r, op, a)
      PROVE  AccountsInv'
  <2>1. /\ Send(r, op, a, a, TRUE) /\ op # "me"
        /\ UNCHANGED <<exists, disabled, issued, token, user, load>>
    BY <1>4 DEF SubmitCredentials, Public
  <2>2. RowsTyped' /\ RequestsGood' /\ LoadIsShared'
    BY <2>1, SendMoves
  <2> QED
    BY <2>1, <2>2 DEF AccountsInv, SessionTyped
<1>5. ASSUME NEW op \in Ops, NEW a \in Accounts, ToggleDisabled(r, op, a)
      PROVE  AccountsInv'
  <2>1. /\ Send(r, op, token, a, TRUE) /\ op # "me" /\ token \in Accounts
        /\ UNCHANGED <<exists, disabled, issued, token, user, load>>
    BY <1>1, <1>5 DEF ToggleDisabled, AdminOnly
  <2>2. RowsTyped' /\ RequestsGood' /\ LoadIsShared'
    BY <2>1, SendMoves
  <2> QED
    BY <2>1, <2>2 DEF AccountsInv, SessionTyped
<1>6. CASE Deliver(r) \/ AnswerLost(r)
  <2>1. /\ UNCHANGED <<exists, disabled, issued, witnessed>>
        /\ req' = [req EXCEPT ![r] = Idle] /\ load' = IF load = r THEN NoRequest ELSE load
    BY <1>6 DEF Deliver, AnswerLost
  <2>2. \A p \in Requests : req'[p] = IF p = r THEN Idle ELSE req[p]
    BY <2>1 DEF AccountsInv, RequestsGood
  <2>3. Good(req[r], witnessed[r]) /\ Good(Idle, witnessed[r])
    BY ServerIsGood, IdleIsGood DEF Good
  <2>4. \A p \in Requests : Good(req'[p], witnessed[p])
    BY <2>2, <2>3 DEF AccountsInv, RequestsGood
  <2>5. RowsTyped' /\ RequestsGood'
    BY <2>1, <2>4 DEF RowsTyped, RequestsGood, AccountsInv, Good, Active, Served
  <2>6. LoadIsShared'
    BY <2>1, <2>2 DEF AccountsInv, LoadIsShared, Busy, Idle
  <2>7. Deliver(r) /\ req[r].result = "ok" => req[r].by \in exists
    BY <2>3 DEF Deliver, At, Good, Served
  <2>8. token' \in exists \cup {Nobody} /\ user' \in exists \cup {Nobody}
    BY <1>6, <2>7 DEF Deliver, AnswerLost, AccountsInv, SessionTyped
  <2> QED
    BY <2>1, <2>5, <2>6, <2>8 DEF AccountsInv, SessionTyped
<1> QED
  BY <1>2, <1>3, <1>4, <1>5, <1>6 DEF Browser

\* The page is loaded anew.
LEMMA ReloadKeeps ==
  ASSUME AccountsInv, Reload
  PROVE  AccountsInv'
<1> DEFINE q(p) == IF At(p, "answered") THEN Idle ELSE [req[p] EXCEPT !.mine = FALSE]
<1>1. /\ UNCHANGED <<exists, disabled, issued, token, witnessed>> /\ user' = Nobody
      /\ load' = NoRequest /\ req' = [p \in Requests |-> q(p)]
  BY DEF Reload, rowVars
<1>2. ASSUME NEW p \in Requests PROVE Good(q(p), witnessed[p]) /\ ~q(p).mine
  <2>1. Good(req[p], witnessed[p])
    BY ServerIsGood
  <2>2. CASE At(p, "answered")
    BY <2>1, <2>2, IdleIsGood DEF Good, Idle
  <2>3. CASE ~At(p, "answered")
    BY <2>1, <2>3 DEF Good, Handled, Served, At
  <2> QED
    BY <2>2, <2>3
<1>3. \A p \in Requests : req'[p] = q(p)
  BY <1>1
<1> HIDE DEF q
<1>4. RowsTyped' /\ RequestsGood'
  BY <1>1, <1>2, <1>3 DEF RowsTyped, RequestsGood, AccountsInv, Good, Active, Served
<1>5. LoadIsShared'
  BY <1>2, <1>3 DEF LoadIsShared
<1> QED
  BY <1>1, <1>4, <1>5 DEF AccountsInv, SessionTyped

LEMMA AccountsInvStep == AccountsInv /\ [Next]_vars => AccountsInv'
<1> SUFFICES ASSUME AccountsInv, [Next]_vars PROVE AccountsInv'
  OBVIOUS
<1>1. ASSUME NEW r \in Requests, Handler(r) PROVE AccountsInv'
  BY <1>1, ReadsKeep, WritesKeep DEF Handler
<1>2. ASSUME NEW r \in Requests, Browser(r) PROVE AccountsInv'
  BY <1>2, BrowserKeeps
<1>3. ASSUME NEW r \in Requests, NEW op \in Ops, NEW by \in Accounts, NEW target \in Accounts,
             OthersSend(r, op, by, target)
      PROVE  AccountsInv'
  <2>1. Send(r, op, by, target, FALSE) /\ UNCHANGED <<exists, disabled, issued, token, user, load>>
    BY <1>3 DEF OthersSend, rowVars, sessionVars
  <2>2. RowsTyped' /\ RequestsGood' /\ LoadIsShared'
    BY <2>1, SendMoves
  <2> QED
    BY <2>1, <2>2 DEF AccountsInv, SessionTyped
<1>4. CASE Logout
  BY <1>4 DEF Logout, rowVars, AccountsInv, RowsTyped, SessionTyped, RequestsGood, LoadIsShared,
              Good, Active, Served, Busy
<1>5. CASE Reload
  BY <1>5, ReloadKeeps
<1>6. CASE UNCHANGED vars
  BY <1>6 DEF vars, rowVars, sessionVars, AccountsInv, RowsTyped, SessionTyped, RequestsGood,
              LoadIsShared, Good, Active, Served, Busy
<1> QED
  BY <1>1, <1>2, <1>3, <1>4, <1>5, <1>6 DEF Next

THEOREM AccountsInvAlways == Spec => []AccountsInv
<1> QED
  BY AccountsInvInit, AccountsInvStep, PTL DEF Spec

\* No request gets past JwtStrategy, and no login succeeds, for an account that was
\* disabled during the whole time since the request was sent: a token that is
\* still valid does not outlive its account, however many requests overlap.
THEOREM DisabledIsAlwaysOut == Spec => []DisabledIsOut
<1>1. AccountsInv => DisabledIsOut
  BY DEF AccountsInv, RequestsGood, Good, DisabledIsOut
<1> QED
  BY <1>1, AccountsInvAlways, PTL

\* ensureSessionLoaded never has two requests under way, whatever is lost or
\* reloaded in between.
THEOREM LoadIsAlwaysShared == Spec => []LoadIsShared
<1>1. AccountsInv => LoadIsShared
  BY DEF AccountsInv
<1> QED
  BY <1>1, AccountsInvAlways, PTL

-----------------------------------------------------------------------------
(* The last admin. *)

\* A request may go on to save only when no other is about to.
LEMMA NobodySaves ==
  ASSUME MaxSaves = 1, IsFiniteSet(Requests), MaySave
  PROVE  \A r \in Requests : ~Saving(req[r])
<1> DEFINE savers == {r \in Requests : req[r].at \in {"compare", "update"}}
<1>1. savers \in SUBSET Requests /\ Cardinality(savers) < 1
  BY DEF MaySave
<1>2. IsFiniteSet(savers) /\ Cardinality(savers) \in Nat
  BY <1>1, FS_Subset, FS_CardinalityType
<1>3. Cardinality(savers) = 0
  BY <1>1, <1>2
<1>4. savers = {}
  BY <1>2, <1>3, FS_EmptySet
<1> QED
  BY <1>4 DEF Saving

\* One request moves on while the rows stay.
LEMMA AdminMoves ==
  ASSUME AccountsInv, AdminInv, NEW r \in Requests, NEW q, req' = [req EXCEPT ![r] = q],
         UNCHANGED rowVars, SafeToSave(q),
         Saving(q) => Saving(req[r]) \/ \A p \in Requests : ~Saving(req[p])
  PROVE  AdminInv'
<1>1. \A p \in Requests : req'[p] = IF p = r THEN q ELSE req[p]
  BY DEF AccountsInv, RequestsGood
<1>2. \A p \in Requests : SafeToSave(req'[p])
  BY <1>1 DEF AdminInv
<1>3. \A p \in Requests : SafeToSave(req[p])'
  BY <1>2 DEF SafeToSave, Active, rowVars, Saving
<1>4. \A p, s \in Requests : Saving(req'[p]) /\ Saving(req'[s]) => p = s
  BY <1>1 DEF AdminInv
<1> QED
  BY <1>3, <1>4 DEF AdminInv, AdminRemains, Active, rowVars, Saving

LEMMA AdminReply ==
  ASSUME AccountsInv, AdminInv, NEW r \in Requests, NEW result, Reply(r, result), UNCHANGED rowVars
  PROVE  AdminInv'
<1> DEFINE q == IF req[r].mine THEN [req[r] EXCEPT !.at = "answered", !.result = result] ELSE Idle
<1>1. q.at \in {"answered", "idle"}
  BY ServerIsGood DEF Idle, Good, Handled
<1>2. req' = [req EXCEPT ![r] = q]
  BY DEF Reply
<1> HIDE DEF q
<1>3. SafeToSave(q) /\ ~Saving(q)
  BY <1>1 DEF SafeToSave, Saving
<1> QED
  BY <1>2, <1>3, AdminMoves

LEMMA AdminGo ==
  ASSUME AccountsInv, AdminInv, NEW r \in Requests, NEW stage, Go(r, stage), UNCHANGED rowVars,
         SafeToSave([req[r] EXCEPT !.at = stage]),
         stage \in {"compare", "update"} =>
           Saving(req[r]) \/ \A p \in Requests : ~Saving(req[p])
  PROVE  AdminInv'
<1> DEFINE q == [req[r] EXCEPT !.at = stage]
<1>1. q.at = stage
  BY ServerIsGood DEF Good, Handled
<1>2. req' = [req EXCEPT ![r] = q] /\ SafeToSave(q)
  BY DEF Go
<1> HIDE DEF q
<1> QED
  BY <1>1, <1>2, AdminMoves DEF Saving

\* Rows are written: requests that go on find what they rest on unchanged.
LEMMA AdminWrites ==
  ASSUME AccountsInv, AdminInv, NEW r \in Requests, InsertUser(r) \/ UpdateUser(r)
  PROVE  AdminInv'
<1>0. req[r] \in Handled /\ \E result : Reply(r, result)
  BY ServerIsGood DEF InsertUser, UpdateUser, Good
<1>1. req'[r].at \in {"answered", "idle"} /\ \A p \in Requests \ {r} : req'[p] = req[p]
  <2>1. PICK result : Reply(r, result)
    BY <1>0
  <2>2. req' = [req EXCEPT ![r] = IF req[r].mine
                                   THEN [req[r] EXCEPT !.at = "answered", !.result = result]
                                   ELSE Idle]
    BY <2>1 DEF Reply
  <2>3. DOMAIN req = Requests
    BY DEF AccountsInv, RequestsGood
  <2>4. CASE req[r].mine
    BY <1>0, <2>2, <2>3, <2>4 DEF Handled
  <2>5. CASE ~req[r].mine
    BY <2>2, <2>3, <2>5 DEF Idle
  <2> QED
    BY <2>4, <2>5
<1>2. \A p, s \in Requests : Saving(req'[p]) /\ Saving(req'[s]) => p = s
  BY <1>1 DEF AdminInv, Saving
<1>3. CASE InsertUser(r)
  <2>1. disabled' = disabled /\ exists \subseteq exists'
    BY <1>3 DEF InsertUser
  <2>2. Active \subseteq Active'
    BY <2>1 DEF Active
  <2>3. AdminRemains'
    BY <2>2 DEF AdminInv, AdminRemains
  <2>4. ASSUME NEW p \in Requests PROVE SafeToSave(req[p])'
    <3>1. CASE p = r
      BY <1>1, <3>1 DEF SafeToSave, Saving
    <3>2. CASE p # r
      <4>1. req'[p] = req[p] /\ SafeToSave(req[p])
        BY <1>1, <3>2 DEF AdminInv
      <4> QED
        BY <2>1, <2>2, <4>1 DEF SafeToSave, Saving
    <3> QED
      BY <3>1, <3>2
  <2>5. \A p, s \in Requests : (Saving(req[p]) /\ Saving(req[s]) => p = s)'
    BY <1>2 DEF Saving
  <2> QED
    BY <2>3, <2>4, <2>5 DEF AdminInv
<1>4. CASE UpdateUser(r)
  <2>1. /\ req[r].at = "update" /\ exists' = exists
        /\ disabled' = IF Wanted(req[r]) THEN disabled \cup {req[r].target}
                       ELSE disabled \ {req[r].target}
    BY <1>4 DEF UpdateUser, At
  <2>2. SafeToSave(req[r]) /\ Saving(req[r])
    BY <2>1 DEF AdminInv, Saving
  <2>3. req[r].op \in AdminOnly
    BY <2>1, <2>2 DEF SafeToSave
  <2>4. AdminRemains'
    <3>1. CASE req[r].op = "disable"
      BY <2>1, <2>2, <3>1 DEF SafeToSave, Wanted, AdminRemains, Active
    <3>2. CASE req[r].op = "enable"
      BY <2>1, <3>2 DEF Wanted, AdminInv, AdminRemains, Active
    <3> QED
      BY <2>3, <3>1, <3>2 DEF AdminOnly
  <2>5. \A p \in Requests : ~Saving(req'[p])
    BY <1>1, <2>2 DEF AdminInv, Saving
  <2>6. \A p \in Requests : req'[p].at = "count" => req'[p].op = "disable"
    BY <1>1 DEF AdminInv, SafeToSave
  <2> QED
    BY <1>2, <2>4, <2>5, <2>6 DEF AdminInv, SafeToSave, Saving
<1> QED
  BY <1>3, <1>4

\* The reads of a handler.
LEMMA AdminReads ==
  ASSUME MaxSaves = 1, IsFiniteSet(Requests), AccountsInv, AdminInv, NEW r \in Requests,
         FindByEmail(r) \/ ComparePassword(r) \/ Validate(r) \/ LoadUser(r)
         \/ CountAdmins(r) \/ CompareUser(r)
  PROVE  AdminInv'
<1>1. UNCHANGED rowVars /\ req[r] \in Handled
  BY ServerIsGood DEF FindByEmail, ComparePassword, Validate, LoadUser, CountAdmins, CompareUser, Good
<1>2. ASSUME NEW result, Reply(r, result) PROVE AdminInv'
  BY <1>1, <1>2, AdminReply
<1>3. ASSUME NEW stage \in {"hash", "load"}, Go(r, stage) PROVE AdminInv'
  <2>1. [req[r] EXCEPT !.at = stage].at = stage
    BY <1>1 DEF Handled
  <2>2. SafeToSave([req[r] EXCEPT !.at = stage])
    BY <2>1 DEF SafeToSave, Saving
  <2> QED
    BY <1>1, <1>3, <2>2, AdminGo
<1>4. CASE FindByEmail(r) \/ ComparePassword(r) \/ Validate(r)
  BY <1>2, <1>3, <1>4 DEF FindByEmail, ComparePassword, Validate
<1>5. CASE LoadUser(r)
  <2>1. CASE Go(r, "count") /\ req[r].op = "disable"
    <3>1. [req[r] EXCEPT !.at = "count"].at = "count" /\ [req[r] EXCEPT !.at = "count"].op = "disable"
      BY <1>1, <2>1 DEF Handled
    <3>2. SafeToSave([req[r] EXCEPT !.at = "count"])
      BY <3>1 DEF SafeToSave, Saving
    <3> QED
      BY <1>1, <2>1, <3>2, AdminGo
  <2>2. CASE /\ ~(req[r].op = "disable" /\ req[r].target \in Admins)
             /\ MaySave
             /\ req' = [req EXCEPT ![r].seen = req[r].target \in disabled, ![r].at = "compare"]
    <3> DEFINE q == [req[r] EXCEPT !.seen = (req[r].target \in disabled), !.at = "compare"]
    <3>1. /\ q.at = "compare" /\ q.seen = (req[r].target \in disabled)
          /\ q.op = req[r].op /\ q.target = req[r].target
      BY <1>1 DEF Handled
    <3>2. req' = [req EXCEPT ![r] = q]
      BY <1>1, <2>2 DEF AccountsInv, RequestsGood, Handled
    <3> HIDE DEF q
    <3>3. SafeToSave(q)
      BY <2>2, <3>1 DEF SafeToSave, Saving, AdminInv, AdminRemains
    <3> QED
      BY <1>1, <2>2, <3>2, <3>3, AdminMoves, NobodySaves
  <2> QED
    BY <1>2, <1>5, <2>1, <2>2 DEF LoadUser
<1>6. CASE CountAdmins(r)
  <2>1. req[r].op = "disable"
    BY <1>6 DEF CountAdmins, At, AdminInv, SafeToSave
  <2>2. CASE Go(r, "compare") /\ MaySave /\ (Admins \cap Active) \ {req[r].target} # {}
    <3> DEFINE q == [req[r] EXCEPT !.at = "compare"]
    <3>1. q.at = "compare" /\ q.op = "disable" /\ q.target = req[r].target
      BY <1>1, <2>1 DEF Handled
    <3> HIDE DEF q
    <3>2. SafeToSave(q)
      BY <2>2, <3>1 DEF SafeToSave, Saving
    <3> QED
      BY <1>1, <2>2, <3>2, AdminGo, NobodySaves DEF q
  <2> QED
    BY <1>2, <1>6, <2>2 DEF CountAdmins
<1>7. CASE CompareUser(r)
  <2>1. req[r].at = "compare" /\ Saving(req[r]) /\ SafeToSave(req[r])
    BY <1>7 DEF CompareUser, At, AdminInv, Saving
  <2>2. CASE /\ req[r].op = "disable" \/ Wanted(req[r]) # (req[r].target \in disabled)
             /\ Go(r, "update")
    <3> DEFINE q == [req[r] EXCEPT !.at = "update"]
    <3>1. q.at = "update" /\ q.op = req[r].op /\ q.target = req[r].target
      BY <1>1 DEF Handled
    <3>2. req[r].op \in AdminOnly
      BY <2>1, <2>2 DEF SafeToSave, Wanted, AdminOnly
    <3> HIDE DEF q
    <3>3. SafeToSave(q)
      BY <2>1, <3>1, <3>2 DEF SafeToSave, Saving
    <3> QED
      BY <1>1, <2>1, <2>2, <3>3, AdminGo DEF q
  <2> QED
    BY <1>2, <1>7, <2>2 DEF CompareUser
<1> QED
  BY <1>4, <1>5, <1>6, <1>7

LEMMA AdminInvStep ==
  ASSUME MaxSaves = 1, IsFiniteSet(Requests), AccountsInv, AdminInv, [Next]_vars
  PROVE  AdminInv'
<1>1. ASSUME NEW r \in Requests, NEW op, NEW by, NEW target, NEW mine,
             Send(r, op, by, target, mine), UNCHANGED rowVars
      PROVE  AdminInv'
  <2> DEFINE q == Fresh(op, by, target, mine)
  <2>1. q.at \in {"find", "jwt"}
    BY DEF Fresh, Idle
  <2>2. req' = [req EXCEPT ![r] = q]
    BY <1>1 DEF Send
  <2> HIDE DEF q
  <2>3. SafeToSave(q) /\ ~Saving(q)
    BY <2>1 DEF SafeToSave, Saving
  <2> QED
    BY <1>1, <2>2, <2>3, AdminMoves
<1>2. ASSUME NEW r \in Requests, req' = [req EXCEPT ![r] = Idle], UNCHANGED rowVars
      PROVE  AdminInv'
  <2>1. SafeToSave(Idle) /\ ~Saving(Idle)
    BY DEF SafeToSave, Saving, Idle
  <2> QED
    BY <1>2, <2>1, AdminMoves
<1>3. ASSUME NEW r \in Requests, Handler(r) PROVE AdminInv'
  BY <1>3, AdminReads, AdminWrites DEF Handler
<1>4. ASSUME NEW r \in Requests, Browser(r) PROVE AdminInv'
  BY <1>1, <1>2, <1>4
     DEF Browser, EnsureSessionLoaded, SubmitProfile, Deliver, AnswerLost, SubmitCredentials,
         ToggleDisabled
<1>5. ASSUME NEW r \in Requests, NEW op, NEW by, NEW target, OthersSend(r, op, by, target)
      PROVE  AdminInv'
  BY <1>1, <1>5 DEF OthersSend
<1>6. CASE Reload
  <2>1. \A p \in Requests :
          /\ req'[p] = IF At(p, "answered") THEN Idle ELSE [req[p] EXCEPT !.mine = FALSE]
          /\ req[p] \in Handled
    BY <1>6, ServerIsGood DEF Reload, Good
  <2>2. \A p \in Requests : /\ Saving(req'[p]) => Saving(req[p])
                            /\ SafeToSave(req'[p])
    <3> SUFFICES ASSUME NEW p \in Requests
                 PROVE  (Saving(req'[p]) => Saving(req[p])) /\ SafeToSave(req'[p])
      OBVIOUS
    <3>1. CASE req'[p] = Idle
      BY <3>1 DEF Idle, Saving, SafeToSave
    <3>2. CASE req'[p] = [req[p] EXCEPT !.mine = FALSE]
      <4>1. /\ req'[p].at = req[p].at /\ req'[p].op = req[p].op /\ req'[p].seen = req[p].seen
            /\ req'[p].target = req[p].target
        BY <2>1, <3>2 DEF Handled
      <4>2. SafeToSave(req[p])
        BY DEF AdminInv
      <4> QED
        BY <4>1, <4>2 DEF Saving, SafeToSave
    <3> QED
      BY <2>1, <3>1, <3>2
  <2>3. UNCHANGED rowVars
    BY <1>6 DEF Reload
  <2> QED
    BY <2>2, <2>3 DEF AdminInv, AdminRemains, Active, SafeToSave, Saving, rowVars
<1>7. CASE Logout \/ UNCHANGED vars
  BY <1>7 DEF Logout, vars, rowVars, AdminInv, AdminRemains, Active, SafeToSave, Saving
<1> QED
  BY <1>3, <1>4, <1>5, <1>6, <1>7 DEF Next

\* Somebody can always enable the others again: while one request at a time goes
\* on to save a user, no number of requests that have passed their guards with
\* the rights of before takes the last admin out; neither does a profile, which
\* saves the whole entity it has read.
THEOREM AdminAlwaysRemains ==
  ASSUME MaxSaves = 1, IsFiniteSet(Requests), Admins # {}
  PROVE  Spec => []AdminRemains
<1>1. Init => AdminInv
  BY AccountsAssumption DEF Init, AdminInv, AdminRemains, Active, SafeToSave, Saving, Idle
<1>2. AccountsInv /\ AdminInv /\ [Next]_vars => AdminInv'
  BY AdminInvStep
<1>3. AdminInv => AdminRemains
  BY DEF AdminInv
<1> QED
  BY <1>1, <1>2, <1>3, AccountsInvAlways, PTL DEF Spec

=============================================================================
