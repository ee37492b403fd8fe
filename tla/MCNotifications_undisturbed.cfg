SPECIFICATION Spec
CONSTANTS
    k1 = k1
    k2 = k2
    c1 = c1
    c2 = c2
    s1 = s1
    w1 = w1
    w2 = w2
    NoWorker = NoWorker
    Checks = {k1, k2}
    Channels = {c1}
    Sites = {s1}
    SiteOf <- OnSite1
    Workers = {w1, w2}
    ClaimLimit = 2
    MaxAttempts = 2
    Unreadable = {}
    Reliable = {w1, w2}
    Faults = FALSE
SYMMETRY WorkerSymmetry
INVARIANTS
    AcknowledgedOnce
CHECK_DEADLOCK FALSE
