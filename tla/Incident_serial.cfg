SPECIFICATION Spec

CONSTANTS
  a1 = a1
  p1 = p1
  p2 = p2
  Alerts <- OneAlert
  Procs <- OneInvocation
  MaxFire = 2
  MaxOk = 2
  MaxAnalyze = 2
  MaxResolve = 2
  Faults <- NoFaults

INVARIANTS
  DeletedWasRecorded
  ForeignCauseIsLate

PROPERTIES
  OneMessagePerIncident
  SectionsKept

\* Nobody owes the system an event: it may stop when all is quiet.
CHECK_DEADLOCK FALSE
