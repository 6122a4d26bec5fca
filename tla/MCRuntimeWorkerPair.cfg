SPECIFICATION Spec
CONSTANTS
  Attempts = {a1, a2}
  NoAttempt = NoAttempt
  Capacity = 1
  MaxEvents = 0
  MaxLosses = 0
  MaxSwitches = 1
  MaxStarts = 1
SYMMETRY Symmetry
CONSTRAINT OneCancellation
INVARIANTS
  CapacityKept
CHECK_DEADLOCK FALSE
