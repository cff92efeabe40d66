SPECIFICATION CodesSpec
CONSTANTS
    a1 = a1
    a2 = a2
    r1 = r1
    r2 = r2
    r3 = r3
    c1 = c1
    c2 = c2
    otp = otp
    long1 = long1
    long2 = long2
    Authorizations = {a1, a2}
    Redemptions = {r1, r2, r3}
    Clients = {c1, c2}
    ClientOf <- MCClientOf
    WithPkce = {a1}
    Otps = {otp}
    LongCodes = {long1, long2}
    NoCode = NoCode
    NoRow = NoRow
    NoOne = NoOne
SYMMETRY Interchangeable
CHECK_DEADLOCK FALSE
INVARIANTS
    AtMostOnce
    VerifierProvesOwnership
    RefusedForCause
