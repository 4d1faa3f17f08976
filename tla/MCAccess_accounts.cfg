\* One worker or two that start, and the requests of two pool threads.
SPECIFICATION FairSpec
CONSTANTS
  w1 = w1
  w2 = w2
  Crews <- OneOrTwo
  Workers = {w1, w2}
  Threads = {t1, t2}
  Users = {u1, u2}
  Admin = admin
  Grants <- TwoLists
  MaxInvites = 2
  MaxEvents = 3
INVARIANT AccessIsSound
INVARIANT RegistrationsGrantTheirRoles
PROPERTY InvitesStayClosed
PROPERTY StartersGetThrough
CHECK_DEADLOCK FALSE
