SPECIFICATION FairSpec
CONSTANTS
  l1 = l1
  Loops = {l1}
  Cancelable = {l1}
  Claimer = Claimer
  Prober = Prober
  NoTask = NoTask
  MaxPolicy = 1
  MaxLosses = 2
  MaxCancels = 1
INVARIANTS
  TypeOK
  ClaimsOnCurrent
  FlagHasOwner
PROPERTIES
  RediscoversOnlyOutdated
  Unblocked
  TerminalEndsWorker
CHECK_DEADLOCK FALSE
