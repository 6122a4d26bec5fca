SPECIFICATION FairSpec
CONSTANTS
  r1 = r1
  c1 = c1
  Requests = {r1}
  Connects = {c1}
  Renewer = Renewer
  Setup = Setup
  NoTask = NoTask
  MaxTicks = 1
  MaxFailures = 0
  MaxCancels = 1
  MaxStarts = 1
PROPERTY
  ClientReopens
CHECK_DEADLOCK FALSE
