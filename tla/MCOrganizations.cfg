SPECIFICATION Spec
CONSTANTS
  Users = {u1, u2}
  Slugs = {s1}
  Webs = {w1, w2}
  Erasers = {d1}
  Tasks = {w1, w2, d1}
  RowIds <- MCRowIds
  Lifetime = 0
  MaxEvents = 3
  None = None
SYMMETRY Interchangeable
INVARIANTS
  TypeOK
  CreatorIsMember
  AcceptedIsMember
  MembersWereInvited
  PendingInvitesOverlap
  WaitsEnd
CHECK_DEADLOCK FALSE
