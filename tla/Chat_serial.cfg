SPECIFICATION Spec

CONSTANTS
  r1 = r1
  r2 = r2
  Procs <- OneRequest
  PageSize = 8
  Rank <- Shuffled
  Threshold = 4
  RecentTurns = 2
  MaxChats = 4
  MaxDeletes = 1
  MaxRestarts = 1
  MaxLags = 1
  Faults <- FaultKinds

CHECK_DEADLOCK FALSE

INVARIANTS
  DeletedIsGone
  ListWorks
  SummaryIsPrefix

PROPERTIES
  ChatHeals
