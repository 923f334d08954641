SPECIFICATION Spec
CONSTANTS
  Reqs = {1}
  MaxGen = 3
  KillMayFail = TRUE
  PostMayFail = FALSE
  MaxPending = 1
  MaxRetired = 1
  MaxActive = 1
  MaxUnread = 1
  FaultyEngine = FALSE
INVARIANTS
    OneEngine
CHECK_DEADLOCK FALSE
