\* Two requests at a time, of which one at a time goes on to save a user.
SPECIFICATION Spec
CONSTANTS
  a1 = a1  a2 = a2  u = u  r1 = r1  r2 = r2
  Accounts <- MCAccounts
  Admins <- MCAdmins
  Requests = {r1, r2}
  Nobody = Nobody
  NoRequest = NoRequest
  MaxSaves = 1
SYMMETRY Symmetry
INVARIANTS AdminRemains DisabledIsOut LoadIsShared
CHECK_DEADLOCK FALSE
