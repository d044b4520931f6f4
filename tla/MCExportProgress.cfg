SPECIFICATION FairSpec
CONSTANTS
  Users = {u1}
  Leavers = {}
  Webs = {w1}
  Pollers = {p1}
  Erasers = {}
  MaxExports = 2
  BatchLimit = 1
  ExpiryHours = 1
  MaxNow = 1
  MaxAborts = 1
  DiskFaults = FALSE
  Routes = {"status", "download"}
  None = None
PROPERTIES
  PendingIsSettled
  LapsedIsClosed
