SPECIFICATION TorrentsFairSpec
CONSTANTS
    Subjects = {"owned", "staging", "private"}
    h1 = h1
    h2 = h2
    NoHash = NoHash
    Hashes <- TwoHashes
    FileCount <- Uneven
    MaxGen = 2
    MaxLoaded = 2
    MaxEntries = 2
    a1 = a1
    a2 = a2
    Acquisitions <- TwoAcquisitions
    Endpoints <- TwoAndNone
    MaxClients = 2
    MaxConcurrent = 2
    None = None
    Slots = {m1, m2, m3}
    PrivateEndpoints = 2
INVARIANTS
    TypeOK
    OwnsItsHash
    OneTorrentPerHash
    OneActivation
    PeersBelong
    SessionInStep
    TeardownIsComplete
    PrivateTypeOK
PROPERTIES
    CommandsTakeEffect
    AcquisitionsRunTheirCourse
    ImplementsOneContact
    KeepsTryingUntilStopped
CHECK_DEADLOCK FALSE
