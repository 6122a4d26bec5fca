SPECIFICATION FairSpec
CONSTANTS
  h = h
  u1 = u1
  Users = {h, u1}
  Main = h
INVARIANTS
  EventsFindTheirRecord
PROPERTIES
  EndReleases
CHECK_DEADLOCK FALSE
