SPECIFICATION FairSpec

CONSTANTS
  a1 = a1
  p1 = p1
  p2 = p2
  Alerts <- OneAlert
  Procs <- TwoInvocations
  MaxFire = 1
  MaxOk = 1
  MaxAnalyze = 2
  MaxResolve = 1
  Faults <- NoFaults

PROPERTIES
  StatusIsTemporary
  RequestIsAnswered

\* Nobody owes the system an event: it may stop when all is quiet.
CHECK_DEADLOCK FALSE
