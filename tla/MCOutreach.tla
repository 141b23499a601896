----------------------------- MODULE MCOutreach -----------------------------
EXTENDS Outreach, TLC

CONSTANTS t1, t2, p

Row(s, deadline, departure) ==
  [status |-> s, min |-> 1, max |-> 2, deadline |-> deadline, departure |-> departure]

MCTrips == {t1, t2}
MCPeople == {p}

\* Two trips that expire at once; a confirmed trip beside one about to be.
MCTwoExpire ==
  [trips |-> (t1 :> Row("OPEN", 1, 2) @@ t2 :> Row("OPEN", 1, 3)),
   booking |-> (t1 :> (p :> "PENDING") @@ t2 :> (p :> "NONE")),
   muted |-> {}]
MCConfirmed ==
  [trips |-> (t1 :> Row("CONFIRMED", 1, 3) @@ t2 :> Row("READY", 1, 4)),
   booking |-> (t1 :> (p :> "NONE") @@ t2 :> (p :> "CONFIRMED")),
   muted |-> {Driver}]

MCChoices == {MCTwoExpire, MCConfirmed}

\* Everyone wants mails, and a trip is to be confirmed.
MCToConfirm == {[MCConfirmed EXCEPT !.muted = {}]}
=============================================================================
