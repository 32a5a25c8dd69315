SPECIFICATION FairSpec

CONSTANTS
  r1 = r1
  r2 = r2
  Procs <- TwoRequests
  PageSize = 20
  Rank <- Shuffled
  Threshold = 2
  RecentTurns = 1
  MaxChats = 3
  MaxDeletes = 0
  MaxRestarts = 0
  MaxLags = 0
  Faults <- SummaryFault

CHECK_DEADLOCK FALSE

INVARIANTS
  TypeOK
  SummaryIsPrefix

PROPERTIES
  EveryMessageAnswered
