SPECIFICATION Spec

CONSTANTS
  a1 = a1
  p1 = p1
  p2 = p2
  Alerts <- OneAlert
  Procs <- TwoInvocations
  MaxFire = 1
  MaxOk = 1
  MaxAnalyze = 1
  MaxResolve = 1
  Faults <- NoFaults

INVARIANTS
  EveryEntryExpires

\* Nobody owes the system an event: it may stop when all is quiet.
CHECK_DEADLOCK FALSE
