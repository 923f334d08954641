SPECIFICATION Spec
CONSTANTS
  Reqs = {1}
  MaxGen = 2
  KillMayFail = FALSE
  PostMayFail = FALSE
  MaxPending = 1
  MaxRetired = 1
  MaxActive = 1
  MaxUnread = 0
  FaultyEngine = TRUE
PROPERTIES
    EndsAreFinal
CHECK_DEADLOCK FALSE
