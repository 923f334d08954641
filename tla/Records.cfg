SPECIFICATION RecordsSpec
CONSTANTS
    Subjects = {"library", "runtime"}
    None = None
    Hashes = {h1}
    Callers = {c1, c2}
    MaxCrash = 2
    MaxLane = 2
    Faults = {"add", "restore", "save", "unlink", "read", "full", "timeout"}
    Preparations = {p1, p2, p3}
    HashOf <- TwoTorrents
    BytesOf <- OneAndTwo
    FilesOf <- OneFile
    MaxPreparations = 2
    MaxRetainedBytes = 3
    Remote <- LastTwo
    MaxFetches = 1
    MaxTracked = 1
    p1 = p1
    p2 = p2
    p3 = p3
INVARIANTS
    RecordsAgree
    PreparationsAccounted
PROPERTIES
    NothingIsLost
    RuntimeSettles
\* The runtime stops once it is closed.
CHECK_DEADLOCK FALSE
