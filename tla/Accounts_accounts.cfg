SPECIFICATION Spec
CONSTANTS
    u1 = u1
    u2 = u2
    e1 = e1
    e2 = e2
    r1 = r1
    r2 = r2
    Ids = {u1, u2}
    Emails = {e1, e2}
    Requests = {r1, r2}
    MaxHashes = 3
    MaxBegun = 5
    NoId = NoId
    NoEmail = NoEmail
    Gone = Gone
SYMMETRY Interchangeable
CHECK_DEADLOCK FALSE
INVARIANTS
    VerifiedWasReached
    ResetReachesItsOwner
    OnlyOverlapsLoseWrites
    InvitedOrVouched
