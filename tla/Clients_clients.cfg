SPECIFICATION Spec
CONSTANTS
    k1 = k1
    k2 = k2
    a1 = a1
    a2 = a2
    n1 = n1
    n2 = n2
    u1 = u1
    u2 = u2
    s1 = s1
    s2 = s2
    s3 = s3
    r1 = r1
    r2 = r2
    Clients = {k1, k2}
    Apps = {a1, a2}
    Names = {n1, n2}
    Urls = {u1, u2}
    Secrets = {s1, s2, s3}
    Requests = {r1, r2}
    Overlap = 2
    MaxBegun = 5
    NoName = NoName
    NoUrl = NoUrl
    NoClient = NoClient
    NoApp = NoApp
SYMMETRY Symmetry
CHECK_DEADLOCK FALSE
INVARIANTS
    SecretsAsHandedOut
    AppCanSignIn
    NoStrayClients
