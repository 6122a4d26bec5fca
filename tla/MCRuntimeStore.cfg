SPECIFICATION Spec
CONSTANTS
  a1 = a1
  a2 = a2
  Attempts = {a1, a2}
  MaxEvents = 3
  MaxRecords = 5
  MaxEpoch = 3
INVARIANTS
  TypeOK
  RecoveryNeverRefuses
  ReturnedMeansDurable
PROPERTIES
  SpoolOutlivesAttempt
  JournalFollowsTransitions
  AcksNeverLost
  EpochNeverReused
CHECK_DEADLOCK FALSE
