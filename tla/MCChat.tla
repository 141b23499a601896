------------------------------- MODULE MCChat -------------------------------
(* Chat for TLC: a driver and a passenger, two messages.                   *)
EXTENDS Chat, TLC

CONSTANTS driver, passenger, m1, m2

MCUsers == {driver, passenger}
MCMessages == {m1, m2}
Symmetry == Permutations(MCMessages)
=============================================================================
