SPECIFICATION FairSpec
CONSTANTS
    t1 = t1
    hooked = hooked
    plain = plain
    c1 = c1
    c2 = c2
    r1 = r1
    r2 = r2
    Tenants = {t1}
    Apps = {hooked, plain}
    Hooked = {hooked}
    Users = {c1}
    Requests = {r1, r2}
    MaxRows = 2
    NoTenant = NoTenant
    NoApp = NoApp
    NoUser = NoUser
    NoSub = NoSub
CHECK_DEADLOCK FALSE
INVARIANTS
    PendingHasAWorker
    SuccessWasAcknowledged
    RetryCompletes
PROPERTIES
    
    PendingSettles
