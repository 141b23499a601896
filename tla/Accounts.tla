------------------------------ MODULE Accounts ------------------------------
(***************************************************************************)
(* Accounts: the handlers that register, log in, authorise, edit, disable  *)
(* and enable users (auth.service.ts, jwt.strategy.ts, users.service.ts),  *)
(* one action per awaited call, and the session of one browser, which is   *)
(* a token in localStorage and the currentUser signal (the client's        *)
(* auth.service.ts). Of a user row only its existence and disabledAt are   *)
(* modelled; isAdmin never changes.                                        *)
(***************************************************************************)
EXTENDS FiniteSets, Naturals

CONSTANTS
  Accounts,     \* e-mail addresses, each the account it stands for
  Admins,       \* accounts with isAdmin, there from the beginning
  Requests,     \* HTTP requests
  Nobody,
  NoRequest,
  MaxSaves      \* bound: requests between their last read of a user and its save

ASSUME AccountsAssumption ==
  /\ Admins \subseteq Accounts
  /\ Nobody \notin Accounts /\ NoRequest \notin Requests
  /\ MaxSaves \in Nat

VARIABLES
  exists,    \* accounts with a row
  disabled,  \* rows with disabledAt set
  issued,    \* accounts somebody holds a token of
  req,       \* request -> where it stands
  token,     \* the account of the token in localStorage
  user,      \* currentUser()
  load,      \* the request behind sessionLoad$
  witnessed  \* auxiliary: request -> accounts active at a moment since it was sent

rowVars == <<exists, disabled>>
sessionVars == <<token, user, load>>
vars == <<rowVars, issued, req, sessionVars, witnessed>>

-----------------------------------------------------------------------------

Ops == {"register", "login", "me", "profile", "disable", "enable"}
\* @Public(): requests that JwtAuthGuard lets through.
Public == {"register", "login"}

AdminOnly == {"disable", "enable"}
AdminGuard(q) == q.op \in AdminOnly => q.by \in Admins
Stages == {"idle", "find", "hash", "jwt", "load", "count", "compare", "update", "answered"}
Results == {"none", "ok", "unauthorized", "refused", "error"}

\* by: the account of the credentials or the token; mine: sent by the browser;
\* seen: disabledAt of the entity in hand; result: the status of the answer.
Idle == [at |-> "idle", op |-> "me", by |-> Nobody, target |-> Nobody, mine |-> FALSE,
         seen |-> FALSE, result |-> "none"]

Active == exists \ disabled
Busy(r) == req[r].at # "idle"

\* One more request may go on to its save.
MaySave == Cardinality({r \in Requests : req[r].at \in {"compare", "update"}}) < MaxSaves

Init ==
  /\ exists = Admins
  /\ disabled = {}
  /\ issued = Admins
  /\ req = [r \in Requests |-> Idle]
  /\ token \in {Nobody} \cup Admins
  /\ user = Nobody
  /\ load = NoRequest
  /\ witnessed = [r \in Requests |-> {}]

Fresh(op, by, target, mine) ==
  [Idle EXCEPT !.at = IF op \in Public THEN "find" ELSE "jwt",
               !.op = op, !.by = by, !.target = target, !.mine = mine]

Send(r, op, by, target, mine) ==
  /\ ~Busy(r)
  /\ req' = [req EXCEPT ![r] = Fresh(op, by, target, mine)]
  /\ witnessed' = [witnessed EXCEPT ![r] = Active]

At(r, stage) == req[r].at = stage
Go(r, stage) == req' = [req EXCEPT ![r].at = stage]

\* The answer waits for the browser; nobody looks at the answers to others.
Reply(r, result) ==
  req' = [req EXCEPT ![r] = IF @.mine THEN [@ EXCEPT !.at = "answered", !.result = result]
                            ELSE Idle]

Observe ==
  witnessed' = [r \in Requests |->
    IF Busy(r) THEN witnessed[r] \cup (exists' \ disabled') ELSE witnessed[r]]

-----------------------------------------------------------------------------
(* The server.                                                             *)

\* register() and validateUser(): the row of the address.
FindByEmail(r) ==
  /\ At(r, "find")
  /\ LET a == req[r].by
     IN CASE req[r].op = "register" /\ a \in exists -> Reply(r, "refused")
          [] req[r].op = "login" /\ a \notin Active -> Reply(r, "unauthorized")
          [] OTHER -> Go(r, "hash")
  /\ UNCHANGED <<rowVars, issued, sessionVars, witnessed>>

\* login: the password is compared, and a token signed for the row read before.
ComparePassword(r) ==
  /\ At(r, "hash") /\ req[r].op = "login"
  /\ \/ Reply(r, "unauthorized") /\ UNCHANGED issued
     \/ Reply(r, "ok") /\ issued' = issued \cup {req[r].by}
  /\ UNCHANGED <<rowVars, sessionVars, witnessed>>

\* register: the INSERT. Another registration may have been faster; the unique
\* index then makes this one fail.
InsertUser(r) ==
  /\ At(r, "hash") /\ req[r].op = "register"
  /\ IF req[r].by \in exists
       THEN Reply(r, "error") /\ UNCHANGED <<exists, issued>>
       ELSE /\ exists' = exists \cup {req[r].by}
            /\ issued' = issued \cup {req[r].by}
            /\ Reply(r, "ok")
  /\ UNCHANGED <<disabled, sessionVars>>
  /\ Observe

\* Faulty variant: a token is good as long as the account exists.
TrustToken(r) ==
  /\ At(r, "jwt")
  /\ IF req[r].op = "me" THEN Reply(r, "ok") ELSE Go(r, "load")
  /\ UNCHANGED <<rowVars, issued, sessionVars, witnessed>>

\* JwtStrategy.validate, read anew for each request, and AdminGuard.
Validate(r) ==
  /\ At(r, "jwt")
  /\ LET q == req[r]
     IN CASE q.by \notin Active -> Reply(r, "unauthorized")
          [] q.by \in Active /\ q.op = "me" -> Reply(r, "ok")
          [] q.by \in Active /\ q.op # "me" /\ ~AdminGuard(q) ->
               Reply(r, "refused")
          [] OTHER -> Go(r, "load")
  /\ UNCHANGED <<rowVars, issued, sessionVars, witnessed>>

\* findById of updateProfile, disable and enable, and what they test at once.
LoadUser(r) ==
  /\ At(r, "load")
  /\ LET q == req[r]
     IN IF q.target \notin exists \/ (q.op = "disable" /\ q.target = q.by)
          THEN Reply(r, "refused")
          ELSE IF q.op = "disable" /\ q.target \in Admins
          THEN Go(r, "count")
          ELSE MaySave /\ req' = [req EXCEPT ![r].seen = q.target \in disabled, ![r].at = "compare"]
  /\ UNCHANGED <<rowVars, issued, sessionVars, witnessed>>

\* Faulty variant: the count includes the admin about to be disabled.
CountEveryAdmin(r) ==
  /\ At(r, "count")
  /\ IF Admins \cap Active = {} THEN Reply(r, "refused")
     ELSE MaySave /\ Go(r, "compare")
  /\ UNCHANGED <<rowVars, issued, sessionVars, witnessed>>

\* disable(): admins that would remain.
CountAdmins(r) ==
  /\ At(r, "count")
  /\ IF (Admins \cap Active) \ {req[r].target} = {} THEN Reply(r, "refused")
     ELSE MaySave /\ Go(r, "compare")
  /\ UNCHANGED <<rowVars, issued, sessionVars, witnessed>>

\* What the entity in hand says of disabledAt when it is saved.
Wanted(q) == CASE q.op = "disable" -> TRUE [] q.op = "enable" -> FALSE [] OTHER -> q.seen

\* save() reads the row again. A date set anew always differs; whatever else
\* differs is written as well, also by a profile that has not touched it.
CompareUser(r) ==
  /\ At(r, "compare")
  /\ IF req[r].op = "disable" \/ Wanted(req[r]) # (req[r].target \in disabled)
       THEN Go(r, "update") ELSE Reply(r, "ok")
  /\ UNCHANGED <<rowVars, issued, sessionVars, witnessed>>

\* save() writes it.
UpdateUser(r) ==
  /\ At(r, "update")
  /\ disabled' = IF Wanted(req[r]) THEN disabled \cup {req[r].target}
                 ELSE disabled \ {req[r].target}
  /\ Reply(r, "ok")
  /\ UNCHANGED <<exists, issued, sessionVars>>
  /\ Observe

-----------------------------------------------------------------------------
(* The browser.                                                            *)

\* Faulty variant: each caller sends a request of its own.
LoadAgain(r) ==
  /\ user = Nobody /\ token # Nobody
  /\ Send(r, "me", token, token, TRUE)
  /\ load' = r
  /\ UNCHANGED <<rowVars, issued, token, user>>

\* ensureSessionLoaded, by the constructor or a route guard: one request for all
\* that ask while it is under way.
EnsureSessionLoaded(r) ==
  /\ user = Nobody /\ token # Nobody /\ load = NoRequest
  /\ Send(r, "me", token, token, TRUE)
  /\ load' = r
  /\ UNCHANGED <<rowVars, issued, token, user>>

\* submit() of the login and the registration page, which no guard protects.
SubmitCredentials(r, op, a) ==
  /\ op \in Public
  /\ Send(r, op, a, a, TRUE)
  /\ UNCHANGED <<rowVars, issued, sessionVars>>

\* authGuard and adminGuard: whom the router lets to the profile and the users page.
SignedIn == user # Nobody
SignedInAdmin == user \in Admins

\* submit() of the profile page. The interceptor attaches the token there is now.
SubmitProfile(r) ==
  /\ SignedIn /\ token # Nobody
  /\ Send(r, "profile", token, token, TRUE)
  /\ UNCHANGED <<rowVars, issued, sessionVars>>

\* toggleDisabled() of the users page, for the row it shows.
ToggleDisabled(r, op, a) ==
  /\ SignedInAdmin /\ token # Nobody
  /\ op \in AdminOnly
  /\ Send(r, op, token, a, TRUE)
  /\ UNCHANGED <<rowVars, issued, sessionVars>>

Logout ==
  /\ user # Nobody
  /\ token' = Nobody
  /\ user' = Nobody
  /\ UNCHANGED <<rowVars, issued, req, load, witnessed>>

\* setSession, clearSession and the tap of fetchMe: the answer of a request.
Deliver(r) ==
  /\ At(r, "answered")
  /\ LET q == req[r]
     IN /\ token' = CASE q.result = "ok" /\ q.op \in Public -> q.by
                      [] q.result = "unauthorized" /\ q.op = "me" -> Nobody
                      [] OTHER -> token
        /\ user' = CASE q.result = "ok" /\ q.op \in Public \cup {"me", "profile"} -> q.by
                     [] q.result = "unauthorized" /\ q.op = "me" -> Nobody
                     [] OTHER -> user
  /\ load' = IF load = r THEN NoRequest ELSE load
  /\ req' = [req EXCEPT ![r] = Idle]
  /\ UNCHANGED <<rowVars, issued, witnessed>>

\* An answer that never comes: an error without a status.
AnswerLost(r) ==
  /\ At(r, "answered")
  /\ load' = IF load = r THEN NoRequest ELSE load
  /\ req' = [req EXCEPT ![r] = Idle]
  /\ UNCHANGED <<rowVars, issued, token, user, witnessed>>

\* The page is loaded anew: the token stays, the rest is gone, and answers to
\* earlier requests reach no one.
Reload ==
  /\ user' = Nobody
  /\ load' = NoRequest
  /\ req' = [r \in Requests |-> IF At(r, "answered") THEN Idle ELSE [req[r] EXCEPT !.mine = FALSE]]
  /\ UNCHANGED <<rowVars, issued, token, witnessed>>

\* Somebody else, with a token or an address.
OthersSend(r, op, by, target) ==
  /\ op \in Public \/ by \in issued
  /\ op \in AdminOnly \/ target = by
  /\ Send(r, op, by, target, FALSE)
  /\ UNCHANGED <<rowVars, issued, sessionVars>>

-----------------------------------------------------------------------------

Handler(r) ==
  FindByEmail(r) \/ ComparePassword(r) \/ InsertUser(r) \/ Validate(r) \/ LoadUser(r)
  \/ CountAdmins(r) \/ CompareUser(r) \/ UpdateUser(r)

Browser(r) ==
  \/ EnsureSessionLoaded(r) \/ SubmitProfile(r) \/ Deliver(r) \/ AnswerLost(r)
  \/ \E op \in Ops, a \in Accounts : SubmitCredentials(r, op, a) \/ ToggleDisabled(r, op, a)

Next ==
  \/ \E r \in Requests :
       \/ Handler(r) \/ Browser(r)
       \/ \E op \in Ops, by, target \in Accounts : OthersSend(r, op, by, target)
  \/ Logout
  \/ Reload

Spec == Init /\ [][Next]_vars

-----------------------------------------------------------------------------
(* Properties.                                                             *)

\* The type of every variable.
TypeOK ==
  /\ exists \subseteq Accounts
  /\ disabled \subseteq exists
  /\ issued \subseteq exists
  /\ req \in [Requests -> [at : Stages, op : Ops, by : Accounts \cup {Nobody},
                           target : Accounts \cup {Nobody}, mine : BOOLEAN, seen : BOOLEAN,
                           result : Results]]
  /\ token \in exists \cup {Nobody}
  /\ user \in exists \cup {Nobody}
  /\ load \in Requests \cup {NoRequest}
  /\ witnessed \in [Requests -> SUBSET Accounts]

\* "Cannot disable self or the last remaining admin": somebody can always enable
\* the others again, however many requests have passed their guards with the
\* rights of before, as long as no save overlaps the count or read of another.
AdminRemains == Admins \cap Active # {}

\* What AdminRemains rests on when MaxSaves = 1: one request at a time is about
\* to save; a disable that is leaves an admin besides its target; no other save
\* writes disabledAt but an enable, since what it has read is still so.
Saving(q) == q.at \in {"compare", "update"}

SafeToSave(q) ==
  /\ q.at = "count" => q.op = "disable"
  /\ Saving(q) /\ q.op = "disable" => (Admins \cap Active) \ {q.target} # {}
  /\ q.at = "compare" /\ q.op # "disable" => q.seen = (q.target \in disabled)
  /\ q.at = "update" => q.op \in AdminOnly

AdminInv ==
  /\ AdminRemains
  /\ \A r, s \in Requests : Saving(req[r]) /\ Saving(req[s]) => r = s
  /\ \A r \in Requests : SafeToSave(req[r])

\* A request gets past JwtStrategy, and a login succeeds, only for an account that
\* was active at a moment after it was sent, however old the token is.
Served(q) ==
  \/ q.at \in {"load", "count", "compare", "update"}
  \/ q.at = "answered" /\ q.result = "ok"

DisabledIsOut ==
  \A r \in Requests : Served(req[r]) => req[r].by \in witnessed[r]

\* The page never has two requests for its session under way, and the one there is
\* is the one everybody waits for; answers, losses and reloads included.
LoadIsShared ==
  \A r \in Requests : Busy(r) /\ req[r].mine /\ req[r].op = "me" => load = r

\* The comment of updateProfile, "Apply only provided fields": saving a profile
\* neither disables an account nor brings it back.  Refuted by a disable that
\* overlaps; see the README.
ProfileSaved(r) == req[r].op = "profile" /\ At(r, "update") /\ ~At(r, "update")'

ProfileLeavesDisabled ==
  [][\A r \in Requests : ProfileSaved(r) => disabled' = disabled]_vars

=============================================================================
