SPECIFICATION Spec
CONSTANTS
    Subjects = {}
    MediaTorrents = {t1, t2}
    Leases = {l1, l2, l3}
    MaxLeases = 2
    Holders = {k1, k2, st}
    StagingHolders = {st}
    Peers = {p1, p2}
    MaxLiveTransports = 3
    MaxRecords = 2
    MaxRecordsPerTorrent = 2
    MaxPexRecords = 2
    MaxPexRecordsPerTorrent = 1
    MaxStagingLiveTransports = 1
    MaxStagingRecords = 2
    MaxStagingRecordsPerAcquisition = 2
    Hashes = {"a", "b", "c"}
    CommittedGens = {g1, g2, g3}
    StagingGens = {s1}
    HashOfGen <- FirstIsAcquired
    MaxQueuedActivations = 2
    ConcurrentOperations = 1
    MaxCalls <- FirstOverlaps
    Units = {"tier:0", "tier:1"}
    UnitEndpoints <- TwoAndOne
    GateSize = 1
    SinglePass = FALSE
    Urls = {"w1", "w2", "w3", "w4"}
    Candidates <- EveryTierFirst
    TierOf <- TwoTiers
    MaxLiveEndpoints = 2
    MaxLivePerTier = 1
    MaxSockets = 3
    WssPrivate = FALSE
    SerialRetirement = FALSE
    Signalers = {"t1", "t2"}
    SignalEndpoints = {"e1", "e2", "e3"}
    EndpointSignaler <- TwoOfTheFirst
    SignalPeers = {p1, p2, p3}
    MaxPendingPerEndpoint = 1
    MaxPendingPerTorrent = 1
    MaxPendingEngineWide = 2
    Inputs <- AroundTheLimits
    LocalPeerId = "me"
    Fetches = {f1, f2}
    FetchUrls <- SomeUrls
    Literals <- LiteralHosts
    Ipv6Literals = {}
    LocalNames = {}
    DnsAnswers <- SomeAnswers
    AllowPrivate = TRUE
    MaxDnsAnswers = 2
    MaxRedirects = 1
    MaxBytes = 1
    ChunkSizes = {1}
    MaxRemote = 1
    GateMaximum = 1
    InfoKey <- InfoIsI
    MaxSafeInteger = 15
    MaxTorrentBytes = 18
    MaxScanDepth = 2
    MaxScanValues = 3
    MaxIntegerDigits = 2
    MaxScanLengthDigits = 1
    MaxReplyDepth = 2
    MaxReplyValues = 4
    MaxReplyEntries = 4
    MaxReplyKey = 1
    MaxReplyDigits = 2
    MaxReplyLengthDigits = 1
    MaxReplyBytes = 18
    MaxAcceptedPeers = 2
    MaxCount = 8
    MaxTrackerId = 2
    MinInterval = 2
    MaxInterval = 6
    MaxDatagramBytes = 18
    MaxKrpcDepth = 2
    MaxKrpcValues = 4
    MaxKrpcString = 2
    MaxKrpcLengthDigits = 2
    MaxKrpcDigits = 2
    MaxTransaction = 2
    MaxToken = 2
    MaxErrorMessage = 2
    Sources = {o1, o2, o3}
    MaxSources = 2
    GlobalBurst = 4
    GlobalRefill = 2
    SourceBurst = 2
    SourceRefill = 1
    SourceExpiry = 2
    MaxTime = 3
    MaxKeys = 2
    MaxSdpLines = 4
    MaxCandidates = 2
    SafeSegments <- Safe
    Nfc <- Composed
    Identity <- OnDisk
    MaxPathSegments = 3
    MaxFiles = 3
    MaxTiers = 2
    MaxPerTier = 2
    MaxTrackers = 3
    MaxSeeds = 3
    MaxPieceLength = 2
    MaxPieces = 4
    MaxTerms = 2
    MaxIndexes = 3
    MaxParameters = 3
    Ids = {"u", "v"}
    InfoHashes = {"h", "k"}
    NaN = NaN
    Infinite = Infinite
    LargestInteger = 200000
    g1 = g1
    g2 = g2
    g3 = g3
    s1 = s1
INVARIANTS
    SummariesFitTheContract
CHECK_DEADLOCK FALSE
