CONSTANTS
    u1 = u1
    c1 = c1
    t1 = t1
    t2 = t2
    None = None
    Users = {u1}
    Clients = {}
    Roles = {r1, r2}
    SystemRoles = {r1}
    Tokens = {t1}
    OwnerOf <- AllOfUser
    SitePermissions = {}
    Processes = {p1}
    CacheCapacity = 1
    TTL = 2
    LookupMax = 1
    Requests = {q1, q2}
    Managers = {q1}
    RoleSets <- AnyRoles
    RoleGrants <- SomeGrants
    ScopeGrants <- AllScopes
SPECIFICATION Spec
INVARIANTS TypeOK
PROPERTIES AcceptedRightsAreRecent ExpiredTokensAreRefused
