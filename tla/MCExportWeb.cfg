SPECIFICATION Spec
CONSTANTS
  Users = {u1}
  Leavers = {}
  Webs = {w1, w2}
  Pollers = {p1}
  Erasers = {}
  MaxExports = 1
  BatchLimit = 2
  ExpiryHours = 1
  MaxNow = 2
  MaxAborts = 1
  DiskFaults = FALSE
  Routes = {"status", "download"}
  None = None
SYMMETRY Interchangeable
INVARIANTS
  TypeOK
  ClosedLeavesNothing
  ClosingIsLogged
PROPERTIES
  LiveArtifactIsKept
  ImplementsLifecycle
