------------------------------- MODULE Directory -------------------------------
(***************************************************************************)
(* A tenant from its creation to its deletion: members, roles, groups, and *)
(* the table user_roles that members and groups write at the same time.    *)
(*                                                                         *)
(* user_roles has one row for a user and a role; its column from_group     *)
(* says whether a group or an administrator put it there.  No handler      *)
(* opens a transaction: each is a sequence of statements, written here as  *)
(* the steps (pc) of a request, and any of them may be the last.           *)
(*                                                                         *)
(*   create           domain row client key owner adminRole viewerRole     *)
(*                      grant                                              *)
(*   removeMember     membership list strip* unlink                        *)
(*   setRoles         isMember list grant* strip*                          *)
(*   addRoles         grant*              removeRoles      strip*          *)
(*   group: addRoles, addUser             join* others grant*              *)
(*   group: removeRoles, removeUser       leave* others strip*             *)
(*   deleteGroup      both removals, then row                              *)
(*   deleteRole       count row           deleteTenant     clear roles row *)
(***************************************************************************)
EXTENDS Naturals, FiniteSets

CONSTANTS
    Users,
    Roles,      \* role names of the tenant
    Admin,      \* TENANT_ADMIN
    Viewer,     \* TENANT_VIEWER
    NewNames,   \* the names that renamed roles are given
    Groups,
    RoleLists,  \* the lists of roles that requests carry (as sets)
    UserLists,  \* the lists of users that requests carry (as sets)
    Requests,   \* slots for requests in flight
    NoUser, NoGroup

System == {Admin, Viewer}

ASSUME SystemRolesAreRoles == System \subseteq Roles
ASSUME ListsAreLists ==
    /\ RoleLists \subseteq SUBSET Roles
    /\ UserLists \subseteq SUBSET Users
    /\ NewNames \subseteq Roles
ASSUME UsersAreNoRoles == Users \cap Roles = {}
ASSUME NullsAreNoValues == NoUser \notin Users /\ NoGroup \notin Groups

VARIABLES
    tenant,      \* rows of tenants, clients and tenant_keys for this tenant
    roles,       \* table roles
    protected,   \* its rows with is_removable = false
    members,     \* table tenant_members
    assigned,    \* table user_roles: a function to from_group
    groups,      \* table groups
    groupUsers,  \* table group_users
    groupRoles,  \* table group_roles
    requests,    \* the local variables of each request
    calm         \* history: nothing was taken away or renamed and nothing failed

tables == <<tenant, roles, protected, members, assigned, groups, groupUsers, groupRoles>>
vars == <<tables, requests, calm>>

Kinds == {"none", "create", "addMember", "removeMember", "setRoles", "addRoles",
          "removeRoles", "groupAddRoles", "groupRemoveRoles", "groupAddUsers",
          "groupRemoveUsers", "deleteGroup", "emptyGroup", "deleteRole",
          "deleteTenant"}

ByGroup == {"groupAddRoles", "groupRemoveRoles", "groupAddUsers",
            "groupRemoveUsers", "deleteGroup", "emptyGroup"}

Steps == {"idle", "domain", "row", "client", "key", "owner", "adminRole",
          "viewerRole", "link", "membership", "isMember", "list", "grant",
          "strip", "erase", "unlink", "join", "leave", "count", "remove",
          "clear", "roles"}

Pairs == Users \X Roles

\* todo: what join and leave still work through; done: what they wrote, oRole
\* and oUser in the code; grants, strips: the rows of user_roles still to write
\* or remove; found: the row that strip has read.  later is history: what a
\* user who is being removed was assigned since the roles were listed.
Request == [kind : Kinds,
            pc : Steps,
            user : Users \cup {NoUser},
            group : Groups \cup {NoGroup},
            wanted : SUBSET Roles,
            todo : SUBSET (Users \cup Roles),
            done : SUBSET (Users \cup Roles),
            grants : SUBSET Pairs,
            strips : SUBSET Pairs,
            found : SUBSET Pairs,
            later : SUBSET Roles]

Tenant == [row : {"none", "stored", "deleted"}, client : BOOLEAN, key : BOOLEAN]

TypeOK ==
    /\ tenant \in Tenant
    /\ roles \subseteq Roles
    /\ protected \subseteq Roles
    /\ members \subseteq Users
    /\ DOMAIN assigned \subseteq Pairs
    /\ assigned \in [DOMAIN assigned -> BOOLEAN]
    /\ groups \subseteq Groups
    /\ groupUsers \subseteq Groups \X Users
    /\ groupRoles \subseteq Groups \X Roles
    /\ requests \in [Requests -> Request]
    /\ calm \in BOOLEAN

-----------------------------------------------------------------------------
Idle == [kind |-> "none", pc |-> "idle", user |-> NoUser, group |-> NoGroup,
         wanted |-> {}, todo |-> {}, done |-> {}, grants |-> {}, strips |-> {},
         found |-> {}, later |-> {}]

Init ==
    /\ tenant = [row |-> "none", client |-> FALSE, key |-> FALSE]
    /\ roles = {}
    /\ protected = {}
    /\ members = {}
    /\ assigned = [p \in {} |-> FALSE]
    /\ groups = {}
    /\ groupUsers = {}
    /\ groupRoles = {}
    /\ requests = [r \in Requests |-> Idle]
    /\ calm = TRUE

Stored == tenant.row = "stored"

At(r, step) == requests[r].pc = step

Kind(r) == requests[r].kind

RolesOf(u) == {x \in Roles : <<u, x>> \in DOMAIN assigned}

Set(f, p, v) == [q \in DOMAIN f \cup {p} |-> IF q = p THEN v ELSE f[q]]

Without(f, S) == [q \in DOMAIN f \ S |-> f[q]]

\* A handler throws, or the process stops: what was written stays.
End(r) == requests' = [requests EXCEPT ![r] = Idle]

Fail(r) ==
    /\ ~At(r, "idle")
    /\ End(r)
    /\ calm' = FALSE
    /\ UNCHANGED tables

Start(r, fields) ==
    /\ At(r, "idle")
    /\ requests' = [requests EXCEPT ![r] = fields]
    /\ UNCHANGED <<tables, calm>>

Goto(r, step) == requests' = [requests EXCEPT ![r].pc = step]

\* Faulty forms: a creation that forgets the key, a removal that shrugs at a
\* row it does not find, a group that counts members of the tenant only.
WithoutKey(step) ==
    CASE step = "client" -> "owner"
      [] step = "owner" -> "adminRole"
      [] step = "adminRole" -> "viewerRole"
      [] OTHER -> "link"

Shrug(r, p) == requests' = [requests EXCEPT ![r].strips = @ \ {p}]

MembersOf(g) == {u \in members : <<g, u>> \in groupUsers}

UsersOf(g) == {u \in Users : <<g, u>> \in groupUsers}

GroupRolesOf(g) == {x \in Roles : <<g, x>> \in groupRoles}

-----------------------------------------------------------------------------
(* Creation                                                                 *)

StartCreate(r, owner) ==
    Start(r, [Idle EXCEPT !.kind = "create", !.pc = "domain", !.user = owner])

\* The order of the statements of create.
After(step) ==
    CASE step = "client" -> "key"
      [] step = "key" -> "owner"
      [] step = "owner" -> "adminRole"
      [] step = "adminRole" -> "viewerRole"
      [] step = "viewerRole" -> "link"

\* A tenant row that an earlier attempt left behind takes the domain for good.
CheckDomain(r) ==
    /\ At(r, "domain")
    /\ tenant.row = "none"
    /\ Goto(r, "row")
    /\ UNCHANGED <<tables, calm>>

NewTenant == [row |-> "stored", client |-> FALSE, key |-> FALSE]

\* The domain is unique: of two creations that found it free, one fails here.
SaveTenant(r) ==
    /\ At(r, "row") /\ Kind(r) = "create"
    /\ tenant.row = "none"
    /\ tenant' = NewTenant
    /\ Goto(r, "client")
    /\ UNCHANGED <<roles, protected, members, assigned, groups, groupUsers, groupRoles, calm>>

CreateDefaultClient(r) ==
    /\ At(r, "client")
    /\ Stored
    /\ tenant' = [tenant EXCEPT !.client = TRUE]
    /\ Goto(r, After("client"))
    /\ UNCHANGED <<roles, protected, members, assigned, groups, groupUsers, groupRoles, calm>>

CreateInitialKey(r) ==
    /\ At(r, "key")
    /\ Stored
    /\ tenant' = [tenant EXCEPT !.key = TRUE]
    /\ Goto(r, After("key"))
    /\ UNCHANGED <<roles, protected, members, assigned, groups, groupUsers, groupRoles, calm>>

\* addMember: findById, then an INSERT that an existing row makes an UPDATE of
\* nothing.  The last statement of addMember, one of the first of create.
AddMember(r) ==
    /\ At(r, "owner")
    /\ Stored
    /\ members' = members \cup {requests[r].user}
    /\ IF Kind(r) = "create" THEN Goto(r, After("owner")) ELSE End(r)
    /\ UNCHANGED <<tenant, roles, protected, assigned, groups, groupUsers, groupRoles, calm>>

\* (tenant_id, name) is unique.  The roles of a creation are not removable.
CreateSystemRole(r) ==
    /\ \E role \in System :
          /\ At(r, IF role = Admin THEN "adminRole" ELSE "viewerRole")
          /\ role \notin roles
          /\ roles' = roles \cup {role}
          /\ protected' = protected \cup {role}
          /\ Goto(r, After(requests[r].pc))
    /\ UNCHANGED <<tenant, members, assigned, groups, groupUsers, groupRoles, calm>>

\* relation(..).add writes what save already wrote; then updateRolesOfMember
\* for the owner with TENANT_ADMIN.
AppointOwner(r) ==
    /\ At(r, "link")
    /\ Stored
    /\ requests' = [requests EXCEPT ![r].wanted = {Admin}, ![r].pc = "isMember"]
    /\ UNCHANGED <<tables, calm>>

-----------------------------------------------------------------------------
(* Members and their roles                                                  *)

StartAddMember(r, u) ==
    Stored /\ Start(r, [Idle EXCEPT !.kind = "addMember", !.pc = "owner", !.user = u])

StartRemoveMember(r, u) ==
    /\ Stored
    /\ Start(r, [Idle EXCEPT !.kind = "removeMember", !.pc = "membership", !.user = u])

StartSetRoles(r, u, wanted) ==
    /\ Stored
    /\ Start(r, [Idle EXCEPT !.kind = "setRoles", !.pc = "isMember", !.user = u,
                             !.wanted = wanted])

\* POST and DELETE .. /roles ask for no membership.
StartAddRoles(r, u, some) ==
    /\ Stored
    /\ Start(r, [Idle EXCEPT !.kind = "addRoles", !.pc = "grant", !.user = u,
                             !.grants = {u} \X some])

StartRemoveRoles(r, u, some) ==
    /\ Stored
    /\ Start(r, [Idle EXCEPT !.kind = "removeRoles", !.pc = "strip", !.user = u,
                             !.strips = {u} \X some])

\* findMembership of removeMember, isMember of updateRolesOfMember: a user who
\* is not a member is refused.
CheckMember(r) ==
    /\ \/ At(r, "membership") /\ Goto(r, "isMember")
       \/ At(r, "isMember") /\ Goto(r, "list")
    /\ requests[r].user \in members
    /\ UNCHANGED <<tables, calm>>

\* getMemberRoles: what is missing is added, what is not wanted removed, by
\* name, whoever assigned it.
ListRoles(r) ==
    /\ At(r, "list")
    /\ LET u == requests[r].user
           has == RolesOf(u)
       IN  requests' = [requests EXCEPT
              ![r].grants = {u} \X (requests[r].wanted \ has),
              ![r].strips = {u} \X (has \ requests[r].wanted),
              ![r].later = {},
              ![r].pc = "grant"]
    /\ UNCHANGED <<tables, calm>>

\* addRoles: a role that is not found by its name is skipped (a group brings the
\* row of the role, and fails); save makes the row the caller's, also one that a
\* group, or an administrator, had put there.
Grant(r) ==
    /\ At(r, "grant")
    /\ \E p \in requests[r].grants :
          \/ /\ p[2] \in roles /\ Stored
             /\ assigned' = Set(assigned, p, Kind(r) \in ByGroup)
             /\ requests' = [q \in Requests |->
                   IF q = r
                   THEN [requests[r] EXCEPT !.grants = @ \ {p}]
                   ELSE IF Kind(q) = "removeMember" /\ requests[q].user = p[1]
                        THEN [requests[q] EXCEPT !.later = @ \cup {p[2]}]
                        ELSE requests[q]]
          \/ /\ p[2] \notin roles /\ Kind(r) \notin ByGroup
             /\ requests' = [requests EXCEPT ![r].grants = @ \ {p}]
             /\ UNCHANGED assigned
    /\ UNCHANGED <<tenant, roles, protected, members, groups, groupUsers, groupRoles, calm>>

Granted(r) ==
    /\ At(r, "grant")
    /\ requests[r].grants = {}
    /\ IF requests[r].strips = {} /\ Kind(r) # "removeMember"
       THEN End(r)
       ELSE Goto(r, "strip")
    /\ UNCHANGED <<tables, calm>>

\* removeRoles looks for a row with the caller's from_group.  When there is none
\* findOne gives null, and remove(null) throws (Fail).
Missing(r, p) == FALSE

Strip(r) ==
    /\ At(r, "strip")
    /\ \E p \in requests[r].strips :
          \/ /\ p[2] \in roles
             /\ p \in DOMAIN assigned
             /\ assigned[p] = (Kind(r) \in ByGroup)
             /\ requests' = [requests EXCEPT ![r].found = {p}, ![r].pc = "erase"]
          \/ /\ p[2] \in roles
             /\ p \in DOMAIN assigned => assigned[p] # (Kind(r) \in ByGroup)
             /\ Missing(r, p)
          \/ /\ p[2] \notin roles /\ Kind(r) \notin ByGroup
             /\ requests' = [requests EXCEPT ![r].strips = @ \ {p}]
    /\ UNCHANGED <<tables, calm>>

\* DELETE by primary key, whoever wrote the row since it was read.
Erase(r) ==
    /\ At(r, "erase")
    /\ assigned' = Without(assigned, requests[r].found)
    /\ calm' = FALSE
    /\ requests' = [requests EXCEPT ![r].strips = @ \ requests[r].found,
                                    ![r].found = {}, ![r].pc = "strip"]
    /\ UNCHANGED <<tenant, roles, protected, members, groups, groupUsers, groupRoles>>

Stripped(r) ==
    /\ At(r, "strip")
    /\ requests[r].strips = {}
    /\ CASE Kind(r) = "removeMember" -> Goto(r, "unlink")
         [] Kind(r) = "deleteGroup" -> requests' = [requests EXCEPT
               ![r].kind = "emptyGroup", ![r].pc = "leave",
               ![r].todo = UsersOf(requests[r].group)]
         [] Kind(r) = "emptyGroup" -> Goto(r, "row")
         [] OTHER -> End(r)
    /\ UNCHANGED <<tables, calm>>

Unlink(r) ==
    /\ At(r, "unlink")
    /\ members' = members \ {requests[r].user}
    /\ End(r)
    /\ UNCHANGED <<tenant, roles, protected, assigned, groups, groupUsers, groupRoles, calm>>

-----------------------------------------------------------------------------
(* Roles                                                                    *)

\* No request in flight refers to a row that is only now created.
Unheard(x) ==
    \A q \in Requests : /\ x \notin requests[q].todo \cup requests[q].done
                        /\ requests[q].group # x
                        /\ requests[q].grants \cup requests[q].strips
                              \subseteq Users \X (Roles \ {x})

\* Any name that is free, that of a system role too; the row is removable.
CreateRole(role) ==
    /\ Stored
    /\ role \notin roles
    /\ Unheard(role)
    /\ roles' = roles \cup {role}
    /\ UNCHANGED <<tenant, protected, members, assigned, groups, groupUsers, groupRoles,
                   requests, calm>>

\* A request has a role by its name (todo of a group's request, grants and strips
\* of a member's), or the row it found by it.  later: the new name is one that the
\* list of a removal in flight does not have.
Renamed(q, old, new) ==
    LET As(x) == IF x = old THEN new ELSE x
        Rows(S) == {<<p[1], As(p[2])>> : p \in S}
        byRow == q.kind \in ByGroup
    IN  [q EXCEPT
            !.todo = IF q.kind = "deleteRole" THEN {As(x) : x \in @} ELSE @,
            !.done = {As(x) : x \in @},
            !.grants = IF byRow THEN Rows(@) ELSE @,
            !.strips = IF byRow THEN Rows(@) ELSE (@ \ q.found) \cup Rows(@ \cap q.found),
            !.found = Rows(@),
            !.later = IF q.kind = "removeMember" THEN @ \cup {new} ELSE @]

\* updateRole, its read and its save in one: the row keeps its id, so assignments
\* and groups follow it, and removable stays what it was.
RenameRole(old, new) ==
    LET was(x) == IF x = new THEN old ELSE x
        Now(S, T) == {p \in S \X Roles : p[2] # old /\ <<p[1], was(p[2])>> \in T}
    IN  /\ Stored
        /\ old \in roles /\ new \notin roles
        /\ Unheard(new)
        /\ roles' = (roles \ {old}) \cup {new}
        /\ protected' = {x \in roles' : was(x) \in protected}
        /\ assigned' = [p \in Now(Users, DOMAIN assigned) |->
                           assigned[<<p[1], was(p[2])>>]]
        /\ groupRoles' = Now(Groups, groupRoles)
        /\ requests' = [r \in Requests |-> Renamed(requests[r], old, new)]
        /\ calm' = FALSE
        /\ UNCHANGED <<tenant, members, groups, groupUsers>>

StartDeleteRole(r, role) ==
    /\ Stored
    /\ role \in roles
    /\ Start(r, [Idle EXCEPT !.kind = "deleteRole", !.pc = "count", !.todo = {role}])

\* deleteById: nobody has the role, and it is removable.
CountHolders(r) ==
    /\ At(r, "count")
    /\ \A role \in requests[r].todo :
          /\ \A u \in Users : role \notin RolesOf(u)
          /\ role \notin protected
    /\ Goto(r, "remove")
    /\ UNCHANGED <<tables, calm>>

\* remove(role) takes the rows of user_roles that came in between with it;
\* group_roles refers to the role and stops it.
RemoveRole(r) ==
    /\ At(r, "remove")
    /\ groupRoles \cap (Groups \X requests[r].todo) = {}
    /\ roles' = roles \ requests[r].todo
    /\ protected' = protected \ requests[r].todo
    /\ assigned' = Without(assigned, Users \X requests[r].todo)
    /\ calm' = FALSE
    /\ End(r)
    /\ UNCHANGED <<tenant, members, groups, groupUsers, groupRoles>>

-----------------------------------------------------------------------------
(* Groups                                                                   *)

CreateGroup(g) ==
    /\ Stored
    /\ g \notin groups
    /\ Unheard(g)
    /\ groups' = groups \cup {g}
    /\ UNCHANGED <<tenant, roles, protected, members, assigned, groupUsers, groupRoles,
                   requests, calm>>

StartJoin(r, g, kind, some) ==
    /\ g \in groups
    /\ Start(r, [Idle EXCEPT !.kind = kind, !.pc = "join", !.group = g, !.todo = some])

StartLeave(r, g, kind, some) ==
    /\ g \in groups
    /\ Start(r, [Idle EXCEPT !.kind = kind, !.pc = "leave", !.group = g, !.todo = some])

OnRoles(r) == Kind(r) \in {"groupAddRoles", "groupRemoveRoles"}

\* addRoles and addUser: each row of the join table, unless it is there.  A role
\* is found by its name; a user may be anybody.
Join(r) ==
    /\ At(r, "join")
    /\ requests[r].group \in groups /\ Stored
    /\ \E x \in requests[r].todo :
          LET g == requests[r].group
              isIn == x \in UsersOf(g) \cup GroupRolesOf(g)
          IN  /\ OnRoles(r) => x \in roles
              /\ requests' = [requests EXCEPT
                    ![r].todo = @ \ {x},
                    ![r].done = IF isIn THEN @ ELSE @ \cup {x}]
              /\ IF OnRoles(r)
                 THEN groupRoles' = groupRoles \cup {<<g, x>>} /\ UNCHANGED groupUsers
                 ELSE groupUsers' = groupUsers \cup {<<g, x>>} /\ UNCHANGED groupRoles
    /\ UNCHANGED <<tenant, roles, protected, members, assigned, groups, calm>>

\* removeRoles and removeUser: each row that is there; a name must be that of a
\* role.
Leave(r) ==
    /\ At(r, "leave")
    /\ \E x \in requests[r].todo :
          LET g == requests[r].group
              isIn == x \in UsersOf(g) \cup GroupRolesOf(g)
          IN  /\ x \in Roles => x \in roles
              /\ requests' = [requests EXCEPT
                    ![r].todo = @ \ {x},
                    ![r].done = IF isIn THEN @ \cup {x} ELSE @]
              /\ groupRoles' = groupRoles \ {<<g, x>>}
              /\ groupUsers' = groupUsers \ {<<g, x>>}
    /\ calm' = FALSE
    /\ UNCHANGED <<tenant, roles, protected, members, assigned, groups>>

\* The other side is read only after the last row was written.
Written(r) == requests[r].todo = {}

Affected(r) ==
    LET g == requests[r].group
        done == requests[r].done
    IN  (UsersOf(g) \X (done \cap Roles)) \cup ((done \cap Users) \X GroupRolesOf(g))

ReadOthers(r) ==
    /\ Written(r)
    /\ \/ /\ At(r, "join")
          /\ requests' = [requests EXCEPT ![r].grants = Affected(r), ![r].done = {},
                                          ![r].pc = "grant"]
       \/ /\ At(r, "leave")
          /\ requests' = [requests EXCEPT ![r].strips = Affected(r), ![r].done = {},
                                          ![r].pc = "strip"]
    /\ UNCHANGED <<tables, calm>>

\* deleteById of a group: removeRoles for its roles, removeUser for its users
\* (Stripped), then the row, unless a user joined in between.
StartDeleteGroup(r, g) == StartLeave(r, g, "deleteGroup", GroupRolesOf(g))

RemoveGroup(r) ==
    /\ At(r, "row") /\ Kind(r) = "emptyGroup"
    /\ LET g == requests[r].group IN
          /\ UsersOf(g) = {}
          /\ groups' = groups \ {g}
          /\ groupRoles' = groupRoles \ ({g} \X Roles)
    /\ End(r)
    /\ calm' = FALSE
    /\ UNCHANGED <<tenant, roles, protected, members, assigned, groupUsers>>

-----------------------------------------------------------------------------
(* Deletion of the tenant                                                   *)

StartDeleteTenant(r) ==
    Stored /\ Start(r, [Idle EXCEPT !.kind = "deleteTenant", !.pc = "clear"])

ClearAssignments(r) ==
    /\ At(r, "clear")
    /\ assigned' = Without(assigned, Pairs)
    /\ calm' = FALSE
    /\ Goto(r, "roles")
    /\ UNCHANGED <<tenant, roles, protected, members, groups, groupUsers, groupRoles>>

\* user_roles and group_roles refer to roles and do not cascade.
DeleteRoles(r) ==
    /\ At(r, "roles")
    /\ DOMAIN assigned = {}
    /\ groupRoles = {}
    /\ roles' = {}
    /\ protected' = {}
    /\ Goto(r, "row")
    /\ UNCHANGED <<tenant, members, assigned, groups, groupUsers, groupRoles, calm>>

\* Members, clients, keys and the rows of the join tables cascade; the table
\* groups has no foreign key and keeps its rows.
RemoveTenant(r) ==
    /\ At(r, "row") /\ Kind(r) = "deleteTenant"
    /\ tenant' = [row |-> "deleted", client |-> FALSE, key |-> FALSE]
    /\ members' = {}
    /\ assigned' = Without(assigned, Pairs)
    /\ groupUsers' = {}
    /\ groupRoles' = {}
    /\ End(r)
    /\ UNCHANGED <<roles, protected, groups, calm>>

-----------------------------------------------------------------------------
Begin(r) ==
    \/ \E u \in Users :
          \/ StartCreate(r, u)
          \/ StartAddMember(r, u)
          \/ StartRemoveMember(r, u)
          \/ \E some \in RoleLists :
                StartSetRoles(r, u, some) \/ StartAddRoles(r, u, some)
                                         \/ StartRemoveRoles(r, u, some)
    \/ \E role \in Roles : StartDeleteRole(r, role)
    \/ \E g \in Groups :
          \/ \E some \in RoleLists : StartJoin(r, g, "groupAddRoles", some)
                                        \/ StartLeave(r, g, "groupRemoveRoles", some)
          \/ \E some \in UserLists : StartJoin(r, g, "groupAddUsers", some)
                                        \/ StartLeave(r, g, "groupRemoveUsers", some)
          \/ g \in groups /\ StartDeleteGroup(r, g)
    \/ StartDeleteTenant(r)

Create(r) ==
    CheckDomain(r) \/ SaveTenant(r) \/ CreateDefaultClient(r) \/ CreateInitialKey(r)
                   \/ CreateSystemRole(r) \/ AppointOwner(r)

Continue(r) ==
    \/ Create(r)
    \/ AddMember(r) \/ CheckMember(r) \/ ListRoles(r) \/ Unlink(r)
    \/ Grant(r) \/ Granted(r) \/ Strip(r) \/ Erase(r) \/ Stripped(r)
    \/ CountHolders(r) \/ RemoveRole(r)
    \/ Join(r) \/ Leave(r) \/ ReadOthers(r) \/ RemoveGroup(r)
    \/ ClearAssignments(r) \/ DeleteRoles(r) \/ RemoveTenant(r)

Next ==
    \/ \E r \in Requests : Begin(r) \/ Continue(r) \/ Fail(r)
    \/ \E role \in Roles : CreateRole(role)
    \/ \E old \in Roles, new \in NewNames : RenameRole(old, new)
    \/ \E g \in Groups : CreateGroup(g)

Spec == Init /\ [][Next]_vars

-----------------------------------------------------------------------------
\* A creation can stop anywhere, and roles are made, renamed and deleted under any
\* name, but whoever holds a role that a creation made (TENANT_ADMIN first of all)
\* does so in a tenant that can sign tokens and that a client can use.
AdminMeansComplete ==
    (\E p \in DOMAIN assigned : p[2] \in protected) => tenant.client /\ tenant.key

\* Roles put into a group and users put into it meet: as long as nothing was
\* taken away or renamed and nothing failed, once all requests have ended every user of a
\* group has every role of it, in whatever order, and however interleaved, the
\* two were added.
GrantsReach ==
    calm /\ (\A r \in Requests : At(r, "idle")) =>
        \A g \in groups : UsersOf(g) \X GroupRolesOf(g) \subseteq DOMAIN assigned

\* A member who is removed leaves without roles, those assigned and those given a
\* new name while the removal was running excepted (it has listed the names): a
\* role of a group stops the removal before the membership goes.
LeavesWithNothing ==
    \A r \in Requests :
        At(r, "unlink") => RolesOf(requests[r].user) \subseteq requests[r].later

-----------------------------------------------------------------------------
(* What the documentation says and the code does not do: this does not hold. *)

\* docs/architecture.md:122, "Each tenant has: ... Its own RSA key pair": where a
\* creation stopped before the key, a role named TENANT_ADMIN is made, or one is
\* renamed, and assigned by hand, and its holder administers the tenant.
AdminsCanSign ==
    (\E u \in Users : <<u, Admin>> \in DOMAIN assigned) => tenant.client /\ tenant.key
=============================================================================
