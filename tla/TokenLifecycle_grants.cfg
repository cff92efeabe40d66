SPECIFICATION Spec
CONSTANTS
    t1 = t1
    t2 = t2
    t3 = t3
    s1 = s1
    s2 = s2
    c1 = c1
    c2 = c2
    r1 = r1
    r2 = r2
    openid = openid
    email = email
    Tokens <- ThreeTokens
    Sessions <- OneSession
    Clients <- TwoClients
    TenantOf <- MCTenantOf
    Scopes <- OneScope
    Requests <- OneRequest
    SlidingExpiry = 1
    AbsoluteExpiry = 1
    SessionDuration = 2
    GraceWindow = 1
    MaxTime = 2
    NoToken = NoToken
    NoSession = NoSession
    NoClient = NoClient
    NotYet = NotYet
INVARIANTS
    HardLifetime
    StaysInGrant
SYMMETRY Interchangeable
