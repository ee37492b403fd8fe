CONSTANTS
    path = path
    other = other
    good = good
    bad = bad
    word = word
    curse = curse
    address = address
    None = None
    CriticalDays = 1
    Day = 2
    AllowPrivateTargets = FALSE
    Monitors <- MCMonitors
    Observations <- MCObservations
    MayObserve <- MCMayObserve
    Timeout = 2
    MaxAttempts = 1
    RetryDelays <- NoDelay
    JitterPercent = 50
    Override <- MCOverride
    LeaseSeconds = 8
    MinBuffer = 2
    MinHeartbeat = 1
    NameMax = 0
    AddrMax = 2
    QueryMax = 2
    CallMax = 1
    MaxMisses = 2
    CheckInterval = 2
    MaxPoll = 2
    Backoff = 1
    DeliveryTime = 1
    PruneInterval = 2
    PruneBatch = 1
    MaxOld = 1
SPECIFICATION Spec
INVARIANTS TypeOK LeaseOutlastsCheck SuccessIsDeserved FailureIsDeserved IdleSleepIsShort
