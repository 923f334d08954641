SPECIFICATION TorrentsSpec
CONSTANTS
    Subjects = {"owned"}
    h1 = h1
    h2 = h2
    NoHash = NoHash
    Hashes <- OneHash
    FileCount <- OneFile
    MaxGen = 1
    MaxLoaded = 1
    MaxEntries = 1
    a1 = a1
    a2 = a2
    Acquisitions <- TwoAcquisitions
    Endpoints <- TwoAndNone
    MaxClients = 2
    MaxConcurrent = 2
    None = None
    Slots = {m1}
    PrivateEndpoints = 2
INVARIANTS
    FailedAddGivesHashBack
CHECK_DEADLOCK FALSE
