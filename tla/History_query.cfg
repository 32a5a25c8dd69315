SPECIFICATION FairSpec

CONSTANTS
  Dates <- NewYear
  Senders <- Few
  MaxItems = 2
  Limits <- Two
  MaxLimit = 1
  Timeout = 2
  Sleep = 1
  CallTime = 1
  Faults <- AllFaults

INVARIANTS
  TypeOK
  RowsAreAsked
  AnswerHasAll
  NothingLeftRunning
  WaitBounded

PROPERTIES
  CallAnswered

\* All is sent and answered in the end.
CHECK_DEADLOCK FALSE
