SPECIFICATION Spec
CONSTANTS
    m1 = m1
    m2 = m2
    s1 = s1
    w1 = w1
    w2 = w2
    NoWorker = NoWorker
    Sites = {s1}
    Monitors = {m1}
    Kinds = {"http"}
    SiteOf <- OnSite1
    KindOf <- AllHttp
    Workers = {w1, w2}
    ClaimLimit = 1
    MaxAttempts = 2
    HasRetryDelays = TRUE
    Reliable = {}
    Faults = FALSE
    MaxApiCalls = 1
INVARIANTS
    PausedMonitorHasNoOpenIncident
CHECK_DEADLOCK FALSE
