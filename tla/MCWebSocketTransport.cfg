SPECIFICATION Spec
CONSTANTS
  t1 = t1
  t2 = t2
  Tasks = {t1, t2}
  Cancelable = {t1}
  Queues = {"commands"}
  ResumeSize = 2
  MaxRequests = 2
  MaxPushes = 2
  MaxGivenUp = 1
INVARIANTS
  TypeOK
  AnsweredInFull
  NothingTakenIsLost
  EndWakesEveryRequest
CHECK_DEADLOCK FALSE
