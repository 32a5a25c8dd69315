SPECIFICATION FairSpec

CONSTANTS
  metrics = metrics
  logs = logs
  Tools <- TwoTools
  MaxIterations = 3
  Soft = 6
  Hard = 8
  CollectTime = 5
  WriteTime = 1
  ReviewTime = 1
  Window = 3
  MaxAnalyses = 2
  MaxCalls = 2
  EmptyTexts = TRUE

INVARIANTS
  TypeOK
  EvidenceIsCurrent
  EveryToolIsHeard
  ForeignGoesFirst
  UnacceptedOnlyAtLimit
  InTime

PROPERTIES
  RcaEnds
