SPECIFICATION FairSpec
CONSTANTS
  a1 = a1
  a2 = a2
  Attempts = {a1, a2}
  Kept = {a1}
  NoAttempt = NoAttempt
  Capacity = 1
  MaxLosses = 1
INVARIANTS
  TypeOK
  DrainedIsEmpty
  NobodyAfterClose
PROPERTIES
  HandlersGetTheirTime
  StopEnds
  DrainEnds
CHECK_DEADLOCK FALSE
