CONSTANTS
    None = None
    Sites = {s1}
    PathSites = {s1, s2}
    Monitors = {m1, m2}
    Targets = {t1, t2}
    Requests = {q1, q2}
SYMMETRY Symmetry
SPECIFICATION Spec
INVARIANTS TypeOK InactiveIncidentsAreClosed HeartbeatIsUnique
