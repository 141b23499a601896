----------------------------- MODULE MCAccounts -----------------------------
(* Accounts for TLC: two admins, and someone who may register.             *)
EXTENDS Accounts, TLC

CONSTANTS a1, a2, u, r1, r2

MCAccounts == {a1, a2, u}
MCAdmins == {a1, a2}
Symmetry == Permutations(Requests) \cup Permutations(MCAdmins)
=============================================================================
