\* Two users, two messages, one lost connection: everything the chat promises.
SPECIFICATION Spec
CONSTANTS
  driver = driver  passenger = passenger
  m1 = m1  m2 = m2
  Users <- MCUsers
  Driver <- driver
  Messages <- MCMessages
  MaxOpens = 1
  MaxDrops = 1
SYMMETRY Symmetry
INVARIANTS ShownIsStored FormerMemberIsMute OutsiderSeesNothing NothingMissedLive
