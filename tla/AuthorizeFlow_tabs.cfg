SPECIFICATION Spec
CONSTANTS
    alice = alice
    bob = bob
    openid = openid
    mail = mail
    acme = acme
    globex = globex
    Scopes = {openid, mail}
    Tenants = {acme, globex}
    NoUser = NoUser
    NoSid = NoSid
    NoFlow = NoFlow
    NoTenant = NoTenant
    Tabs = {t1, t2}
    Users = {alice}
    Sids = {s1, s2, s3}
    FlowIds = {f1, f2, f3}
    TenantsOf <- OneTenant
    Requested <- TabRequests
    MaxExpiries = 1
SYMMETRY TabSymmetry
INVARIANTS
    ConsentedCode
    NoStaleSession
