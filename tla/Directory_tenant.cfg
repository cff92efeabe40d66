SPECIFICATION Spec
CONSTANTS
    u1 = u1
    u2 = u2
    g1 = g1
    g2 = g2
    r1 = r1
    r2 = r2
    Users = {u1}
    Roles = {"TENANT_ADMIN", "TENANT_VIEWER", "editor"}
    RoleLists = {{"editor"}}
    NewNames = {"TENANT_ADMIN"}
    UserLists = {{u1}}
    Admin = "TENANT_ADMIN"
    Viewer = "TENANT_VIEWER"
    Groups = {g1}
    Requests = {r1, r2}
    NoUser = NoUser
    NoGroup = NoGroup
SYMMETRY Interchangeable
CHECK_DEADLOCK FALSE
INVARIANTS
    
    GrantsReach
    LeavesWithNothing
