SPECIFICATION Spec

CONSTANTS
  metrics = metrics
  logs = logs
  Tools <- TwoTools
  MaxIterations = 3
  Soft = 6
  Hard = 8
  CollectTime = 5
  WriteTime = 1
  ReviewTime = 1
  Window = 40
  MaxAnalyses = 2
  MaxCalls = 4
  EmptyTexts = FALSE

INVARIANTS
  SightIsOwn

SYMMETRY ToolSymmetry
