SPECIFICATION FairSpec
CONSTANTS
  Users = {u1}
  Webs = {w1, w2}
  Pollers = {p1}
  Tasks = {w1, w2, p1}
  RowIds = {1, 2, 3}
  BatchLimit = 2
  TokenTTL = 1
  MaxTokens = 3
  MaxNow = 1
  MaxAborts = 1
  None = None
INVARIANTS
  TypeOK
  ActiveTokensOverlap
  RevokedHasSuccessor
  NotifiedWasMailed
  MailsArePaidFor
  SingleUse
PROPERTIES
  EverythingIsServed
