SPECIFICATION FairSpec
CONSTANTS
  Users = {u1}
  Leavers = {u1}
  Webs = {w1}
  Pollers = {p1}
  Erasers = {d1}
  MaxExports = 2
  BatchLimit = 1
  ExpiryHours = 1
  MaxNow = 0
  MaxAborts = 0
  DiskFaults = FALSE
  Routes = {}
  None = None
PROPERTIES
  EveryTaskEnds
