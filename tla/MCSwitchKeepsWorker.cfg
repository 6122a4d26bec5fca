SPECIFICATION Spec
CONSTANTS
  Attempts = {a1}
  NoAttempt = NoAttempt
  Capacity = 1
  MaxEvents = 1
  MaxLosses = 0
  MaxSwitches = 1
  MaxStarts = 1
CHECK_DEADLOCK FALSE
INVARIANT
  SwitchKeepsWorker
