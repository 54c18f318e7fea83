CONSTANTS
    Parts = {"pay", "rate", "ratelocal", "mirror", "video", "publish", "discover", "lists", "batch",
             "replicate", "scan", "chunk", "local", "moderate", "moderatefails", "notify", "ipfs", "listing"}
    PayPubkeys = {"k"}
    PayUploads = {"u1", "u2", "u3"}
    PayRequests = {"i1"}
    PayNoRequest = "no"
    Tokens = {"t1", "t2"}
    Worth <- TokenWorth
    PaySizes = {1, 4}
    FreeBytesLimit = 2
    PriceSats = 1
    PriceBytes = 2
    MinPaymentSats = 1
    Methods = {"lightning", "cashu"}
    Called = {"consume", "cleanup"}
    PayFaults = {"db", "node"}
    RateUploads = {"u1", "u2"}
    RatePubkeys = {"k"}
    RequestLimit = 2
    KeyLimit = 2
    ByteLimit = 2
    UploadsPerDay = 1
    RateSizes = {1, 2}
    Store = "counter"
    LongWindows = FALSE
    RateFaults = {"cache"}
    RateEvents = {}
    MediaUrls = {"a", "b"}
    MediaContents = {"h1"}
    MediaServes <- Origins
    MediaRequests = {"r1", "r2"}
    Procs = {"p1", "p2"}
    CacheMax = 1
    LowWater = 0
    MediaFaults = {"admin"}
    Starts = {"s1", "s2"}
    VideoQualities = 2
    Qualities <- FirstQualities
    VideoFaults = {"ffmpeg", "storage", "crash"}
    PubJobs = {"j1", "j2"}
    PubRelays = {"r1"}
    PubWorkers = {"w1", "w2"}
    NoJob = "no"
    PubQueueSize = 1
    PubRetryAttempts = 1
    PubFaults = {"relay", "db", "crash"}
    DiscHashes = {"h"}
    DiscUrls = {"a", "b"}
    DiscServes <- DiscOrigins
    FileEvents = {"f1", "f2"}
    XTag <- EventHash
    UrlTag <- EventUrl
    ListEvents = {}
    ServerTags <- NoTags
    Servers = {"us", "s1", "s2"}
    HostOf <- UrlHost
    Probes = {}
    Us = "us"
    DiscRelays = {"r1"}
    DiscWorkers = {"w1", "w2"}
    MirrorMinRefs = 1
    DiscQueueSize = 2
    AdminRequests = {"h"}
    DiscFaults = {"fetch", "db", "crash"}
    BatchBlobs = {"x", "y"}
    Size <- ItemSize
    BatchUploads = {"up"}
    BatchDeletes = {"d1", "d2"}
    Items <- ItemLists
    Quota = 5
    BatchFaults = {"item", "charge", "crash"}
    RepJobs = {"j1", "j2"}
    Regions = {"r1", "r2"}
    Target <- TargetRegion
    RepWorkers = {"w1", "w2"}
    RepNobody = "no"
    RepQueueSize = 1
    RepRetryAttempts = 1
    SyncMode = TRUE
    RepFaults = {"region", "source"}
    Scans = {"s1", "s2"}
    ScanQueued = {"s2"}
    Registered <- Providers
    Configured = {"custom"}
    MimeType = "jpeg"
    Detections <- Detected
    Critical = {"csam"}
    Severe = {"adult"}
    BlockHighConfidence = TRUE
    QuarantineMedium = TRUE
    FlagLowConfidence = TRUE
    CacheResults = TRUE
    Reviews = 1
    ScanFaults = {"provider"}
    TotalChunks = 2
    Bodies = {"b", "c"}
    Requests = {"r1", "r2", "r3", "r4"}
    Ops = {"chunk", "complete"}
    Faults = {"file", "crash"}
    Workers = {}
    Puts = {"c1", "c2", "c3"}
    DiskDeletes = {"c4"}
    Blocks = 2
    Inodes = {1, 2, 3, 4}
    NoInode = 0
    DiskFaults = {"write", "crash"}
    ModPubkeys = {"k"}
    ModNobody = "nobody"
    Names = {"h", "H"}
    ModHashes = {"h"}
    Reports = {"r1", "r2", "r3"}
    About <- ReportedName
    Signed = {"r2"}
    Decisions = {"d1", "d2"}
    ModUploads = {"u1", "u2"}
    ModKey <- UploadKey
    Blob <- UploadBlob
    ModFaults = {}
    Clients = {"c1", "c2"}
    NoteKey <- ClientKey
    Publications = {"p1", "p2"}
    To <- Addressee
    Everybody = "all"
    ChannelSize = 1
    PinCalls = {"c1", "c2", "c3"}
    PinRequests = {"q1", "q2"}
    PinNoRequest = "no"
    PinFaults = {"service", "lost", "storage", "cache", "crash"}
    PageBlobs = {"x", "y", "z"}
    PageKeys = {"k", "m"}
    TypeOf <- TypeOfBlob
    PageSizeOf <- SizeOfBlob
    Queries <- ListingQueries
    Seconds = 3
    ListMax = 2
    SearchDefault = 1
    SearchMax = 1
    Changes = 2
SPECIFICATION ServicesSpec
INVARIANTS
    PaidForOnce
    RefusedBytesReturned DailyLimitSeen
    OneFetch ClaimsTracked
    CompleteHasAll
    PublishedAccepted
    MirroredIsStored
    ChargedForHoldings
    CompleteIsCopied
    NotWeakened
    SavedAsRecorded
    ObjectWhole
    ActionedIsGone
    PinnedIsHeld
    PagesComplete
PROPERTIES JobsKeepTheirPlace
CHECK_DEADLOCK FALSE
