--------------------------- MODULE MCConcertPages ---------------------------
(* Concerts for TLC: two events, a submission, two queries.            *)
EXTENDS ConcertPages, TLC

CONSTANTS e1, e2, c1, q1, q2, s1, s2

MCOffset == -1
MCQueries == {q1, q2}

\* The provider has e1 for both queries; the cache finds it, and the
\* submission, by the filters of q1, and only the submission by those of q2.
MCAccepts == (q1 :> {e1, c1}) @@ (q2 :> {c1})
MCOffers == (q1 :> {e1, e2}) @@ (q2 :> {e1})
=============================================================================
