SPECIFICATION Spec
CONSTANTS
  Users = {u1, u2}
  Leavers = {u2}
  Webs = {w1}
  Pollers = {p1}
  Erasers = {d1}
  MaxExports = 1
  BatchLimit = 2
  ExpiryHours = 1
  MaxNow = 1
  MaxAborts = 1
  DiskFaults = TRUE
  Routes = {"status", "download"}
  None = None
SYMMETRY Interchangeable
INVARIANTS
  NoCommittedProcessing
  ReadyIsComplete
  NoTornArtifact
  ClosingIsLogged
PROPERTIES
  ImplementsLifecycle
