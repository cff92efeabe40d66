\* One tab, every page; loads of a page may overlap, a form can be sent twice.
SPECIFICATION Spec
CONSTANTS
    Queries = {"all", "some"}
    FirstQuery = "all"
    Total <- MCTotal
    Roles = {"VIEWER", "SUPER_ADMIN"}
    Followed <- Kinds
    MaxPage = 2
    MaxFetches = 2
    RunIds = {r1, r2}
    CallIds = {c1, c2}
    MaxBusy = 2
SYMMETRY MCSymmetry
INVARIANTS
    ShowsOwnChanges
    WholePrefix
CHECK_DEADLOCK FALSE
