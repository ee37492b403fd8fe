CONSTANTS
    None = None
    m1 = m1
    m2 = m2
    http = http
    tcp = tcp
    s1 = s1
    Clients = {c1}
    MaxRequests = 2
    Window = 2
    CleanEvery = 2
    Sites = {s1}
    Slugs = {x1, x2}
    Monitors = {m1, m2}
    Kinds = {http, tcp}
    SiteOf <- TheSiteOf
    KindOf <- TheKindOf
    Results = {"up", "slow", "down"}
    Requests = {q1, q2}
    MaxChanges = 1
    Capacity = 1
    TTL = 2
    LoadMax = 1
SYMMETRY Symmetry
SPECIFICATION Spec
INVARIANTS TypeOK PagesAreRecent OperationalIsDeserved LimitIsKept RefusalsAreDeserved
