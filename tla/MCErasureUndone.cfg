SPECIFICATION Spec
CONSTANTS
  Users = {u1}
  Webs = {w1, w2}
  Pollers = {p1}
  Tasks = {w1, w2, p1}
  RowIds <- MCRowIds
  BatchLimit = 2
  MaxErasures = 1
  MaxItems = 1
  MaxChanges = 1
  MaxAborts = 1
  None = None
INVARIANTS
  ErasedStaysErased
