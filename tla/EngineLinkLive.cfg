SPECIFICATION FairSpec
CONSTANTS
  Reqs = {1}
  MaxGen = 2
  KillMayFail = TRUE
  PostMayFail = TRUE
  MaxPending = 1
  MaxRetired = 1
  MaxActive = 1
  MaxUnread = 0
  FaultyEngine = FALSE
PROPERTIES
    EngineComesBack
    CallsSettle
CHECK_DEADLOCK FALSE
