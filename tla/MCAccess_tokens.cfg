CONSTANTS
    u1 = u1
    c1 = c1
    t1 = t1
    t2 = t2
    None = None
    Users = {u1, u2}
    Clients = {c1}
    Roles = {r1}
    SystemRoles = {r1}
    Tokens = {t1, t2}
    OwnerOf <- UserAndClient
    SitePermissions = {}
    Processes = {p1}
    CacheCapacity = 1
    TTL = 2
    LookupMax = 1
    Requests = {q1}
    Managers = {q1}
    RoleSets <- AllRoles
    RoleGrants <- NoGrants
    ScopeGrants <- AllScopes
SPECIFICATION FairSpec
INVARIANTS CacheIsBounded
PROPERTIES DeadTokensAreForgotten
