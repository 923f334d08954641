SPECIFICATION Spec
CONSTANTS
  Reqs = {1, 2}
  MaxGen = 2
  KillMayFail = TRUE
  PostMayFail = FALSE
  MaxPending = 1
  MaxRetired = 2
  MaxActive = 2
  MaxUnread = 0
  FaultyEngine = FALSE
INVARIANTS
    TypeOK
    WaitersHaveAnEngine
    HonestEngineTrusted
PROPERTIES
    ImplementsCommandService
CHECK_DEADLOCK FALSE
