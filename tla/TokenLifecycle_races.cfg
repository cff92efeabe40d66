SPECIFICATION Spec
CONSTANTS
    t1 = t1
    t2 = t2
    t3 = t3
    s1 = s1
    s2 = s2
    c1 = c1
    c2 = c2
    r1 = r1
    r2 = r2
    openid = openid
    email = email
    Tokens <- ThreeTokens
    Sessions <- TwoSessions
    Clients <- OneClient
    TenantOf <- MCTenantOf
    Scopes <- NoScopes
    Requests <- TwoRequests
    SlidingExpiry = 0
    AbsoluteExpiry = 0
    SessionDuration = 0
    GraceWindow = 0
    MaxTime = 0
    NoToken = NoToken
    NoSession = NoSession
    NoClient = NoClient
    NotYet = NotYet
INVARIANTS
    TypeOK
    OneLiveToken
    NoAnswerAfterLogout
    RevokedUpToRoot
PROPERTIES
    ImplementsFamilies
SYMMETRY Interchangeable
