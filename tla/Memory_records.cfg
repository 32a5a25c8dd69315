SPECIFICATION Spec

CONSTANTS
  TopK = 2
  Limit = 1
  Words <- SomeWords
  Typed <- SomeTyped
  Reported <- SomeCause
  Evidence <- SomeEvidence
  Times <- SomeTimes
  CanFail = {"delete", "lookup"}
  r1 = r1
  r2 = r2
  Recoverers <- Two
  MaxIncidents = 2
  MaxRecords = 2

SYMMETRY Symmetry

INVARIANTS
  TypeOK
  
  ToldNoLess
  RecordedOncePerEntry

CHECK_DEADLOCK FALSE
