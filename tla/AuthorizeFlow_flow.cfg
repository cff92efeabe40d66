SPECIFICATION FairSpec
CONSTANTS
    alice = alice
    bob = bob
    openid = openid
    mail = mail
    acme = acme
    globex = globex
    Scopes = {openid, mail}
    Tenants = {acme, globex}
    NoUser = NoUser
    NoSid = NoSid
    NoFlow = NoFlow
    NoTenant = NoTenant
    Tabs = {t1}
    Users = {alice, bob}
    Sids = {s1, s2}
    FlowIds = {f1, f2}
    TenantsOf <- MultiTenant
    Requested <- FlowRequests
    MaxExpiries = 1
INVARIANTS
    TypeOK
    CodeForThePresent
PROPERTIES
    EndsAtClient
