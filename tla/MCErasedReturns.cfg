SPECIFICATION Spec
CONSTANTS
  Users = {u1}
  Leavers = {u1}
  Webs = {w1}
  Pollers = {p1}
  Erasers = {d1}
  MaxExports = 1
  BatchLimit = 2
  ExpiryHours = 1
  MaxNow = 0
  MaxAborts = 0
  DiskFaults = FALSE
  Routes = {}
  None = None
SYMMETRY Interchangeable
PROPERTIES
  ClosedStaysClosed
