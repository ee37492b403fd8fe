SPECIFICATION FairSpec
CONSTANTS
    m1 = m1
    m2 = m2
    s1 = s1
    w1 = w1
    w2 = w2
    NoWorker = NoWorker
    Sites = {s1}
    Monitors = {m1, m2}
    Kinds = {"http", "ssl"}
    SiteOf <- OnSite1
    KindOf <- HttpAndSsl
    Workers = {w1, w2}
    ClaimLimit = 1
    MaxAttempts = 1
    HasRetryDelays = TRUE
    Reliable = {w1}
    Faults = FALSE
    MaxApiCalls = 0
PROPERTIES
    EveryDueMonitorIsChecked
    ShutdownCompletes
CHECK_DEADLOCK FALSE
