SPECIFICATION FairSpec
CONSTANTS
  r1 = r1
  r2 = r2
  Requests = {r1, r2}
  Connects = {}
  Renewer = Renewer
  Setup = Setup
  NoTask = NoTask
  MaxTicks = 1
  MaxFailures = 1
  MaxCancels = 1
  MaxStarts = 2
INVARIANTS
  TypeOK
  ResentWithRenewed
  JsonIsNewest
PROPERTIES
  ClientRepaired
CHECK_DEADLOCK FALSE
