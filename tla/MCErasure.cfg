SPECIFICATION FairSpec
CONSTANTS
  Users = {u1}
  Webs = {w1, w2}
  Pollers = {p1}
  Tasks = {w1, w2, p1}
  RowIds <- MCRowIds
  BatchLimit = 2
  MaxErasures = 3
  MaxItems = 1
  MaxChanges = 1
  MaxAborts = 1
  None = None
INVARIANTS
  TypeOK
  NoCommittedProcessing
  ActiveErasuresOverlap
  ErasedOnlyByCompletion
PROPERTIES
  CompletionLocksAccount
  CompletionRemovesData
  LockedOut
  AnswerIsFinal
  EveryErasureIsAnswered
