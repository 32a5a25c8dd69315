SPECIFICATION Spec

CONSTANTS
  r1 = r1
  r2 = r2
  Procs <- TwoRequests
  PageSize = 20
  Rank <- Shuffled
  Threshold = 2
  RecentTurns = 1
  MaxChats = 2
  MaxDeletes = 1
  MaxRestarts = 0
  MaxLags = 0
  Faults <- NoFaults

CHECK_DEADLOCK FALSE

INVARIANTS
  ListWorks
