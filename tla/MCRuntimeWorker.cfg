SPECIFICATION FairSpec
CONSTANTS
  Attempts = {a1}
  NoAttempt = NoAttempt
  Capacity = 1
  MaxEvents = 1
  MaxLosses = 1
  MaxSwitches = 1
  MaxStarts = 2
INVARIANTS
  TypeOK
  RunsAtMostOnce
  EventsBeforeResult
  ActiveHasRecord
  ReportsFindTheirRecord
PROPERTIES
  DeliversAttempts
  TerminalStaysTerminal
  Settles
CHECK_DEADLOCK FALSE
