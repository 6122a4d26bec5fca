SPECIFICATION Spec
CONSTANTS
  p1 = p1
  p2 = p2
  Processes = {p1, p2}
  MaxTokens = 4
  MaxStarts = 4
SYMMETRY Symmetry
INVARIANTS
  StoredBelongsTogether
  OneAgentIsKept
CHECK_DEADLOCK FALSE
