----------------------------- MODULE DirectoryProofs -----------------------------
(***************************************************************************)
(* Proofs about Directory, for any users, roles, groups and requests.      *)
(*                                                                         *)
(* The requests speak of each other only through the tables, so each of    *)
(* the three theorems has an invariant of its own over the tables and one  *)
(* request (Creating, Removing, Meeting); all rest on Shape, which says    *)
(* what the fields of a request hold at each step.                         *)
(***************************************************************************)
EXTENDS Directory, TLAPS

\* Steps of a creation or of a member's request.
OfUser == {"domain", "client", "key", "owner", "adminRole", "viewerRole", "link",
           "membership", "isMember", "list"}

ShapeOK(q) ==
    /\ q.kind \in {"create", "removeMember"} \/ q.pc \in OfUser => q.user \in Users
    /\ q.pc = "join" => \/ q.kind = "groupAddRoles" /\ q.todo \subseteq Roles
                        \/ q.kind = "groupAddUsers" /\ q.todo \subseteq Users

Shape ==
    /\ TypeOK
    /\ \A r \in Requests : ShapeOK(requests[r])

-----------------------------------------------------------------------------
(* Types.                                                                  *)

LEMMA SetFacts ==
  ASSUME NEW f, f \in [DOMAIN f -> BOOLEAN], NEW p, NEW v \in BOOLEAN
  PROVE  /\ DOMAIN Set(f, p, v) = DOMAIN f \cup {p}
         /\ Set(f, p, v) \in [DOMAIN Set(f, p, v) -> BOOLEAN]
  <1>1. \A q \in DOMAIN f \cup {p} : (IF q = p THEN v ELSE f[q]) \in BOOLEAN
    OBVIOUS
  <1> QED BY <1>1, Zenon DEF Set

LEMMA WithoutFacts ==
  ASSUME NEW f, f \in [DOMAIN f -> BOOLEAN], NEW S
  PROVE  /\ DOMAIN Without(f, S) = DOMAIN f \ S
         /\ Without(f, S) \in [DOMAIN Without(f, S) -> BOOLEAN]
  <1>1. \A q \in DOMAIN f \ S : f[q] \in BOOLEAN
    OBVIOUS
  <1> QED BY <1>1, Zenon DEF Without

\* The table user_roles after a row of it was written, or some were removed.
AssignedOK == DOMAIN assigned \subseteq Pairs /\ assigned \in [DOMAIN assigned -> BOOLEAN]

LEMMA AssignedSet ==
  ASSUME AssignedOK, NEW p \in Pairs, NEW v \in BOOLEAN, assigned' = Set(assigned, p, v)
  PROVE  AssignedOK'
  <1>1. DOMAIN Set(assigned, p, v) = DOMAIN assigned \cup {p}
    BY SetFacts DEF AssignedOK
  <1>2. Set(assigned, p, v) \in [DOMAIN Set(assigned, p, v) -> BOOLEAN]
    BY SetFacts DEF AssignedOK
  <1> QED BY <1>1, <1>2 DEF AssignedOK

LEMMA AssignedWithout ==
  ASSUME AssignedOK, NEW S, assigned' = Without(assigned, S)
  PROVE  AssignedOK'
  <1>1. DOMAIN Without(assigned, S) = DOMAIN assigned \ S
    BY WithoutFacts DEF AssignedOK
  <1>2. Without(assigned, S) \in [DOMAIN Without(assigned, S) -> BOOLEAN]
    BY WithoutFacts DEF AssignedOK
  <1> QED BY <1>1, <1>2 DEF AssignedOK

LEMMA IdleShape == Idle \in Request /\ ShapeOK(Idle) /\ Idle.pc = "idle"
  BY DEF Idle, Request, Kinds, Steps, ShapeOK, OfUser

\* A step of one request.
LEMMA StepShape ==
  ASSUME Shape, NEW r \in Requests, NEW next \in Request, ShapeOK(next),
         requests' = [requests EXCEPT ![r] = next]
  PROVE  /\ requests' \in [Requests -> Request]
         /\ \A q \in Requests : ShapeOK(requests[q])'
  BY DEF Shape, TypeOK, ShapeOK

LEMMA TablesShape ==
  ASSUME Shape, requests' \in [Requests -> Request],
         \A q \in Requests : ShapeOK(requests[q])',
         UNCHANGED <<tables, calm>>
  PROVE  Shape'
  BY DEF Shape, TypeOK, ShapeOK, tables

LEMMA EndShape ==
  ASSUME Shape, NEW r \in Requests, End(r)
  PROVE  /\ requests' \in [Requests -> Request]
         /\ \A q \in Requests : ShapeOK(requests[q])'
  BY IdleShape, StepShape DEF End

LEMMA GotoShape ==
  ASSUME Shape, NEW r \in Requests, NEW step \in Steps, Goto(r, step),
         step # "join", step \in OfUser => requests[r].user \in Users
  PROVE  /\ requests' \in [Requests -> Request]
         /\ \A q \in Requests : ShapeOK(requests[q])'
  <1>1. PICK next : next = [requests[r] EXCEPT !.pc = step]
    OBVIOUS
  <1>2. next \in Request
    BY <1>1 DEF Shape, TypeOK, Request
  <1>3. ShapeOK(next)
    BY <1>1 DEF Shape, TypeOK, Request, ShapeOK
  <1>4. requests' = [requests EXCEPT ![r] = next]
    BY <1>1 DEF Goto, Shape, TypeOK
  <1> QED BY <1>2, <1>3, <1>4, StepShape

LEMMA StartShape ==
  ASSUME Shape, NEW r \in Requests, NEW next \in Request, ShapeOK(next), Start(r, next)
  PROVE  Shape'
  BY StepShape, TablesShape DEF Start

LEMMA FailShape ==
  ASSUME Shape, NEW r \in Requests, Fail(r)
  PROVE  Shape'
  <1>1. /\ requests' \in [Requests -> Request]
        /\ \A q \in Requests : ShapeOK(requests[q])'
    BY EndShape DEF Fail
  <1> QED BY <1>1 DEF Fail, Shape, TypeOK, tables

LEMMA BeginShape ==
  ASSUME Shape, NEW r \in Requests, Begin(r)
  PROVE  Shape'
  <1>1. Idle \in Request
    BY IdleShape
  <1>2. ASSUME NEW u \in Users,
               StartCreate(r, u) \/ StartAddMember(r, u) \/ StartRemoveMember(r, u)
        PROVE  Shape'
    BY <1>2, StartShape DEF StartCreate, StartAddMember, StartRemoveMember, Idle, Request,
       Kinds, Steps, ShapeOK, OfUser
  <1>3. ASSUME NEW u \in Users, NEW some \in RoleLists,
               StartSetRoles(r, u, some) \/ StartAddRoles(r, u, some)
                                         \/ StartRemoveRoles(r, u, some)
        PROVE  Shape'
    <2>1. some \subseteq Roles /\ {u} \X some \subseteq Pairs
      BY ListsAreLists DEF Pairs
    <2>2. CASE StartSetRoles(r, u, some)
      BY <2>1, <2>2, StartShape DEF StartSetRoles, Idle, Request, Kinds, Steps, ShapeOK, OfUser
    <2>3. CASE StartAddRoles(r, u, some)
      BY <2>1, <2>3, StartShape DEF StartAddRoles, Idle, Request, Kinds, Steps, ShapeOK, OfUser
    <2>4. CASE StartRemoveRoles(r, u, some)
      BY <2>1, <2>4, StartShape DEF StartRemoveRoles, Idle, Request, Kinds, Steps, ShapeOK,
         OfUser
    <2> QED BY <1>3, <2>2, <2>3, <2>4
  <1>4. ASSUME NEW role \in Roles, StartDeleteRole(r, role) PROVE Shape'
    BY <1>4, StartShape DEF StartDeleteRole, Idle, Request, Kinds, Steps, ShapeOK, OfUser
  <1>5. ASSUME NEW g \in Groups, NEW some \in SUBSET (Users \cup Roles), NEW kind \in Kinds,
               \/ kind = "groupAddRoles" /\ some \subseteq Roles
               \/ kind = "groupAddUsers" /\ some \subseteq Users,
               StartJoin(r, g, kind, some)
        PROVE  Shape'
    BY <1>5, StartShape DEF StartJoin, Idle, Request, Kinds, Steps, ShapeOK, OfUser
  <1>6. ASSUME NEW g \in Groups, NEW some \in SUBSET (Users \cup Roles),
               NEW kind \in {"groupRemoveRoles", "groupRemoveUsers", "deleteGroup"},
               StartLeave(r, g, kind, some)
        PROVE  Shape'
    BY <1>6, StartShape DEF StartLeave, Idle, Request, Kinds, Steps, ShapeOK, OfUser
  <1>7. ASSUME NEW g \in Groups, StartDeleteGroup(r, g) PROVE Shape'
    <2>1. GroupRolesOf(g) \in SUBSET (Users \cup Roles)
      BY DEF GroupRolesOf
    <2> QED BY <1>6, <1>7, <2>1 DEF StartDeleteGroup
  <1>8. CASE StartDeleteTenant(r)
    BY <1>8, StartShape DEF StartDeleteTenant, Idle, Request, Kinds, Steps, ShapeOK, OfUser
  <1>9. ASSUME NEW g \in Groups, NEW some \in RoleLists,
               StartJoin(r, g, "groupAddRoles", some) \/ StartLeave(r, g, "groupRemoveRoles", some)
        PROVE  Shape'
    <2>1. some \subseteq Roles /\ some \in SUBSET (Users \cup Roles)
      BY ListsAreLists
    <2>2. "groupAddRoles" \in Kinds
      BY DEF Kinds
    <2> QED BY <1>5, <1>6, <1>9, <2>1, <2>2
  <1>10. ASSUME NEW g \in Groups, NEW some \in UserLists,
               StartJoin(r, g, "groupAddUsers", some) \/ StartLeave(r, g, "groupRemoveUsers", some)
        PROVE  Shape'
    <2>1. some \subseteq Users /\ some \in SUBSET (Users \cup Roles)
      BY ListsAreLists
    <2>2. "groupAddUsers" \in Kinds
      BY DEF Kinds
    <2> QED BY <1>5, <1>6, <1>10, <2>1, <2>2
  <1> QED BY <1>2, <1>3, <1>4, <1>7, <1>8, <1>9, <1>10 DEF Begin

LEMMA ContinueShape ==
  ASSUME Shape, NEW r \in Requests, Continue(r)
  PROVE  Shape'
  <1> DEFINE Moved == /\ requests' \in [Requests -> Request]
                      /\ \A q \in Requests : ShapeOK(requests[q])'
  <1>1. requests[r] \in Request /\ ShapeOK(requests[r])
    BY DEF Shape, TypeOK
  <1>a. AssignedOK
    BY DEF Shape, TypeOK, AssignedOK
  <1>2. CASE CheckDomain(r) \/ CreateDefaultClient(r) \/ CreateInitialKey(r)
    <2>1. PICK step \in {"row", "key", "owner"} : Goto(r, step)
      BY <1>2 DEF CheckDomain, CreateDefaultClient, CreateInitialKey, After
    <2>2. requests[r].user \in Users
      BY <1>1, <1>2 DEF CheckDomain, CreateDefaultClient, CreateInitialKey, At, ShapeOK, OfUser
    <2>3. Moved
      BY <2>1, <2>2, GotoShape DEF Steps
    <2> QED BY <1>2, <2>3 DEF CheckDomain, CreateDefaultClient, CreateInitialKey, Shape, TypeOK,
         Tenant, tables
  <1>3. CASE SaveTenant(r)
    <2>1. requests[r].user \in Users
      BY <1>1, <1>3 DEF SaveTenant, At, Kind, ShapeOK
    <2>2. Moved
      BY <1>3, <2>1, GotoShape DEF SaveTenant, Steps
    <2> QED BY <1>3, <2>2 DEF SaveTenant, NewTenant, Shape, TypeOK, Tenant
  <1>4. CASE AddMember(r)
    <2>1. requests[r].user \in Users
      BY <1>1, <1>4 DEF AddMember, At, ShapeOK, OfUser
    <2>2. CASE Kind(r) = "create"
      BY <1>4, <2>1, <2>2, GotoShape DEF AddMember, After, Steps, Shape, TypeOK
    <2>3. CASE Kind(r) # "create"
      BY <1>4, <2>1, <2>3, EndShape DEF AddMember, Shape, TypeOK
    <2> QED BY <2>2, <2>3
  <1>5. CASE CreateSystemRole(r)
    <2>1. PICK role \in System :
             /\ At(r, IF role = Admin THEN "adminRole" ELSE "viewerRole")
             /\ roles' = roles \cup {role}
             /\ Goto(r, After(requests[r].pc))
      BY <1>5 DEF CreateSystemRole
    <2>2. role \in Roles
      BY SystemRolesAreRoles
    <2>3. requests[r].user \in Users /\ After(requests[r].pc) \in {"viewerRole", "link"}
      BY <1>1, <2>1 DEF At, After, ShapeOK, OfUser
    <2>4. Moved
      BY <2>1, <2>3, GotoShape DEF Steps
    <2> QED BY <1>5, <2>1, <2>2, <2>4 DEF CreateSystemRole, Shape, TypeOK
  <1>6. CASE AppointOwner(r)
    <2>1. PICK next : next = [requests[r] EXCEPT !.wanted = {Admin}, !.pc = "isMember"]
      OBVIOUS
    <2>2. next \in Request
      BY <1>1, <2>1, SystemRolesAreRoles DEF System, Request, Steps
    <2>3. ShapeOK(next)
      BY <1>1, <1>6, <2>1 DEF AppointOwner, At, ShapeOK, OfUser, Request
    <2>4. requests' = [requests EXCEPT ![r] = next]
      BY <1>6, <2>1 DEF AppointOwner, Shape, TypeOK
    <2> QED BY <1>6, <2>2, <2>3, <2>4, StepShape, TablesShape DEF AppointOwner
  <1>7. CASE CheckMember(r)
    <2>1. PICK step \in {"isMember", "list"} : Goto(r, step)
      BY <1>7 DEF CheckMember
    <2>2. requests[r].user \in Users
      BY <1>7 DEF CheckMember, Shape, TypeOK
    <2>3. Moved
      BY <2>1, <2>2, GotoShape DEF Steps
    <2> QED BY <1>7, <2>3, TablesShape DEF CheckMember
  <1>8. CASE ListRoles(r)
    <2>1. requests[r].user \in Users
      BY <1>1, <1>8 DEF ListRoles, At, ShapeOK, OfUser
    <2>2. PICK next :
             next = [requests[r] EXCEPT
                !.grants = {requests[r].user} \X (requests[r].wanted \ RolesOf(requests[r].user)),
                !.strips = {requests[r].user} \X (RolesOf(requests[r].user) \ requests[r].wanted),
                !.later = {}, !.pc = "grant"]
      OBVIOUS
    <2>3. RolesOf(requests[r].user) \subseteq Roles /\ requests[r].wanted \subseteq Roles
      BY <1>1 DEF RolesOf, Request
    <2>4. next.grants \subseteq Pairs /\ next.strips \subseteq Pairs
      BY <1>1, <2>1, <2>2, <2>3 DEF Pairs, Request
    <2>5. next \in Request
      BY <1>1, <2>2, <2>4 DEF Request, Steps
    <2>6. ShapeOK(next)
      BY <1>1, <2>1, <2>2 DEF ShapeOK, OfUser, Request
    <2>7. requests' = [requests EXCEPT ![r] = next]
      BY <1>8, <2>2 DEF ListRoles, Shape, TypeOK
    <2> QED BY <1>8, <2>5, <2>6, <2>7, StepShape, TablesShape DEF ListRoles
  <1>9. CASE Granted(r)
    <2>1. CASE End(r)
      BY <1>9, <2>1, EndShape, TablesShape DEF Granted
    <2>2. CASE Goto(r, "strip")
      <3>1. Moved
        BY <2>2, GotoShape DEF Steps, OfUser
      <3> QED BY <1>9, <3>1, TablesShape DEF Granted
    <2> QED BY <1>9, <2>1, <2>2 DEF Granted
  <1>10. CASE Grant(r)
    <2>1. PICK p \in requests[r].grants :
             \/ /\ assigned' = Set(assigned, p, Kind(r) \in ByGroup)
                /\ requests' = [q \in Requests |->
                      IF q = r
                      THEN [requests[r] EXCEPT !.grants = @ \ {p}]
                      ELSE IF Kind(q) = "removeMember" /\ requests[q].user = p[1]
                           THEN [requests[q] EXCEPT !.later = @ \cup {p[2]}]
                           ELSE requests[q]]
             \/ /\ requests' = [requests EXCEPT ![r].grants = @ \ {p}]
                /\ UNCHANGED assigned
      BY <1>10 DEF Grant
    <2>2. p \in Pairs /\ p[2] \in Roles
      BY <1>1, <2>1 DEF Request, Pairs
    <2>3. Moved
      <3>1. requests' \in [Requests -> Request]
        BY <2>1, <2>2 DEF Shape, TypeOK, Request
      <3>2. \A q \in Requests : /\ requests'[q].kind = requests[q].kind
                                /\ requests'[q].pc = requests[q].pc
                                /\ requests'[q].user = requests[q].user
                                /\ requests'[q].todo = requests[q].todo
        BY <2>1 DEF Shape, TypeOK, Request
      <3> QED BY <3>1, <3>2 DEF Shape, ShapeOK
    <2>4. AssignedOK'
      <3>1. CASE assigned' = Set(assigned, p, Kind(r) \in ByGroup)
        <4>1. (Kind(r) \in ByGroup) \in BOOLEAN
          OBVIOUS
        <4> QED BY <1>a, <2>2, <3>1, <4>1, AssignedSet, Zenon
      <3>2. CASE UNCHANGED assigned
        BY <1>a, <3>2 DEF AssignedOK
      <3> QED BY <2>1, <3>1, <3>2
    <2> QED BY <1>10, <2>3, <2>4 DEF Grant, Shape, TypeOK, AssignedOK
  <1>11. CASE Strip(r)
    <2>1. PICK p \in requests[r].strips :
             \/ requests' = [requests EXCEPT ![r].found = {p}, ![r].pc = "erase"]
             \/ requests' = [requests EXCEPT ![r].strips = @ \ {p}]
      BY <1>11 DEF Strip, Missing
    <2>2. p \in Pairs
      BY <1>1, <2>1 DEF Request
    <2>3. CASE requests' = [requests EXCEPT ![r].found = {p}, ![r].pc = "erase"]
      <3>1. PICK next : next = [requests[r] EXCEPT !.found = {p}, !.pc = "erase"]
        OBVIOUS
      <3>2. next \in Request
        BY <1>1, <2>2, <3>1 DEF Request, Steps
      <3>3. ShapeOK(next)
        BY <1>1, <3>1 DEF Request, ShapeOK, OfUser
      <3>4. requests' = [requests EXCEPT ![r] = next]
        BY <2>3, <3>1 DEF Shape, TypeOK
      <3> QED BY <1>11, <3>2, <3>3, <3>4, StepShape, TablesShape DEF Strip
    <2>4. CASE requests' = [requests EXCEPT ![r].strips = @ \ {p}]
      <3>1. PICK next : next = [requests[r] EXCEPT !.strips = @ \ {p}]
        OBVIOUS
      <3>2. next \in Request
        BY <1>1, <3>1 DEF Request
      <3>3. ShapeOK(next)
        BY <1>1, <3>1 DEF Request, ShapeOK
      <3>4. requests' = [requests EXCEPT ![r] = next]
        BY <2>4, <3>1 DEF Shape, TypeOK
      <3> QED BY <1>11, <3>2, <3>3, <3>4, StepShape, TablesShape DEF Strip
    <2> QED BY <2>1, <2>3, <2>4
  <1>12. CASE Erase(r)
    <2>1. PICK next : next = [requests[r] EXCEPT !.strips = @ \ requests[r].found,
                                                 !.found = {}, !.pc = "strip"]
      OBVIOUS
    <2>2. next \in Request /\ ShapeOK(next)
      BY <1>1, <2>1 DEF Request, Steps, ShapeOK, OfUser
    <2>3. Moved
      BY <1>12, <2>1, <2>2, StepShape DEF Erase
    <2>4. AssignedOK'
      BY <1>a, <1>12, AssignedWithout DEF Erase
    <2> QED BY <1>12, <2>3, <2>4 DEF Erase, Shape, TypeOK, AssignedOK
  <1>13. CASE Stripped(r)
    <2>1. CASE Kind(r) = "deleteGroup"
      <3>1. PICK next : next = [requests[r] EXCEPT !.kind = "emptyGroup", !.pc = "leave",
                                                   !.todo = UsersOf(requests[r].group)]
        OBVIOUS
      <3>2. next \in Request /\ ShapeOK(next)
        BY <1>1, <3>1 DEF Request, Kinds, Steps, ShapeOK, OfUser, UsersOf
      <3>3. requests' = [requests EXCEPT ![r] = next]
        BY <1>13, <2>1, <3>1 DEF Stripped, Shape, TypeOK
      <3>4. Moved
        BY <3>2, <3>3, StepShape
      <3> QED BY <1>13, <3>4, TablesShape DEF Stripped
    <2>2. CASE Kind(r) # "deleteGroup"
      <3>1. Goto(r, "unlink") \/ Goto(r, "row") \/ End(r)
        BY <1>13, <2>2 DEF Stripped
      <3>2. Moved
        BY <3>1, GotoShape, EndShape DEF Steps, OfUser
      <3> QED BY <1>13, <3>2, TablesShape DEF Stripped
    <2> QED BY <2>1, <2>2
  <1>14. CASE Unlink(r) \/ RemoveRole(r) \/ RemoveGroup(r) \/ RemoveTenant(r)
    <2>1. Moved
      BY <1>14, EndShape DEF Unlink, RemoveRole, RemoveGroup, RemoveTenant
    <2>2. assigned' = assigned \/ \E S : assigned' = Without(assigned, S)
      BY <1>14 DEF Unlink, RemoveRole, RemoveGroup, RemoveTenant
    <2>3. AssignedOK'
      BY <1>a, <2>2, AssignedWithout DEF AssignedOK
    <2>4. /\ tenant' \in Tenant /\ roles' \subseteq Roles /\ members' \subseteq Users
          /\ protected' \subseteq Roles
          /\ groups' \subseteq Groups /\ groupUsers' \subseteq Groups \X Users
          /\ groupRoles' \subseteq Groups \X Roles /\ calm' \in BOOLEAN
      <3>1. CASE Unlink(r) \/ RemoveRole(r)
        BY <3>1 DEF Unlink, RemoveRole, Shape, TypeOK
      <3>2. CASE RemoveGroup(r)
        BY <3>2 DEF RemoveGroup, Shape, TypeOK
      <3>3. CASE RemoveTenant(r)
        BY <3>3 DEF RemoveTenant, Shape, TypeOK, Tenant
      <3> QED BY <1>14, <3>1, <3>2, <3>3
    <2> QED BY <2>1, <2>3, <2>4 DEF Shape, TypeOK, AssignedOK
  <1>15. CASE CountHolders(r) \/ ClearAssignments(r) \/ DeleteRoles(r)
    <2>1. Goto(r, "remove") \/ Goto(r, "roles") \/ Goto(r, "row")
      BY <1>15 DEF CountHolders, ClearAssignments, DeleteRoles
    <2>2. Moved
      BY <2>1, GotoShape DEF Steps, OfUser
    <2>3. assigned' = assigned \/ \E S : assigned' = Without(assigned, S)
      BY <1>15 DEF CountHolders, ClearAssignments, DeleteRoles, tables
    <2>4. AssignedOK'
      BY <1>a, <2>3, AssignedWithout DEF AssignedOK
    <2> QED BY <1>15, <2>2, <2>4 DEF CountHolders, ClearAssignments, DeleteRoles, Shape,
         TypeOK, AssignedOK, tables
  <1>16. CASE Join(r) \/ Leave(r)
    <2>a. PICK x \in requests[r].todo :
             requests' \in {[requests EXCEPT ![r].todo = @ \ {x}, ![r].done = done] :
                              done \in {requests[r].done, requests[r].done \cup {x}}}
      <3>1. CASE Join(r)
        BY <3>1 DEF Join
      <3>2. CASE Leave(r)
        BY <3>2 DEF Leave
      <3> QED BY <1>16, <3>1, <3>2
    <2>1. PICK done \in {requests[r].done, requests[r].done \cup {x}} :
             requests' = [requests EXCEPT ![r].todo = @ \ {x}, ![r].done = done]
      BY <2>a
    <2>2. PICK next : next = [requests[r] EXCEPT !.todo = @ \ {x}, !.done = done]
      OBVIOUS
    <2>3. x \in Users \cup Roles /\ next \in Request
      BY <1>1, <2>a, <2>1, <2>2 DEF Request
    <2>4. ShapeOK(next)
      BY <1>1, <2>2 DEF ShapeOK, Request
    <2>5. Moved
      BY <2>1, <2>2, <2>3, <2>4, StepShape DEF Shape, TypeOK
    <2>6. CASE Join(r)
      <3>1. requests[r].group \in Groups
        BY <2>6 DEF Join, Shape, TypeOK
      <3>2. groupUsers' \subseteq Groups \X Users /\ groupRoles' \subseteq Groups \X Roles
        <4>1. PICK y \in requests[r].todo :
                 IF OnRoles(r)
                 THEN /\ groupRoles' = groupRoles \cup {<<requests[r].group, y>>}
                      /\ UNCHANGED groupUsers
                 ELSE /\ groupUsers' = groupUsers \cup {<<requests[r].group, y>>}
                      /\ UNCHANGED groupRoles
          BY <2>6 DEF Join
        <4>2. IF OnRoles(r) THEN y \in Roles ELSE y \in Users
          BY <1>1, <2>6, <4>1 DEF Join, At, OnRoles, Kind, ShapeOK
        <4> QED BY <3>1, <4>1, <4>2 DEF Shape, TypeOK
      <3> QED BY <2>5, <2>6, <3>2 DEF Join, Shape, TypeOK
    <2>7. CASE Leave(r)
      BY <2>5, <2>7 DEF Leave, Shape, TypeOK
    <2> QED BY <1>16, <2>6, <2>7
  <1>17. CASE ReadOthers(r)
    <2>1. Affected(r) \subseteq Pairs
      BY DEF Affected, Pairs, UsersOf, GroupRolesOf
    <2>2. CASE requests' = [requests EXCEPT ![r].grants = Affected(r), ![r].done = {},
                                          ![r].pc = "grant"]
      <3>1. PICK next : next = [requests[r] EXCEPT !.grants = Affected(r), !.done = {},
                                                   !.pc = "grant"]
        OBVIOUS
      <3>2. next \in Request
        BY <1>1, <2>1, <3>1 DEF Request, Steps
      <3>3. ShapeOK(next)
        BY <1>1, <3>1 DEF Request, ShapeOK, OfUser
      <3>4. requests' = [requests EXCEPT ![r] = next]
        BY <2>2, <3>1 DEF Shape, TypeOK
      <3> QED BY <1>17, <3>2, <3>3, <3>4, StepShape, TablesShape DEF ReadOthers
    <2>3. CASE requests' = [requests EXCEPT ![r].strips = Affected(r), ![r].done = {},
                                          ![r].pc = "strip"]
      <3>1. PICK next : next = [requests[r] EXCEPT !.strips = Affected(r), !.done = {},
                                                   !.pc = "strip"]
        OBVIOUS
      <3>2. next \in Request
        BY <1>1, <2>1, <3>1 DEF Request, Steps
      <3>3. ShapeOK(next)
        BY <1>1, <3>1 DEF Request, ShapeOK, OfUser
      <3>4. requests' = [requests EXCEPT ![r] = next]
        BY <2>3, <3>1 DEF Shape, TypeOK
      <3> QED BY <1>17, <3>2, <3>3, <3>4, StepShape, TablesShape DEF ReadOthers
    <2> QED BY <1>17, <2>2, <2>3 DEF ReadOthers
  <1> QED BY <1>2, <1>3, <1>4, <1>5, <1>6, <1>7, <1>8, <1>9, <1>10, <1>11, <1>12, <1>13, <1>14,
       <1>15, <1>16, <1>17 DEF Continue, Create

\* A request in flight after a role was renamed.
LEMMA RenamedFacts ==
  ASSUME NEW q \in Request, NEW old \in Roles, NEW new \in Roles
  PROVE  LET n == Renamed(q, old, new)
             As(x) == IF x = old THEN new ELSE x
         IN  /\ n \in Request
             /\ n.kind = q.kind /\ n.pc = q.pc /\ n.user = q.user /\ n.wanted = q.wanted
             /\ q.kind # "deleteRole" => n.todo = q.todo
             /\ q.kind = "removeMember" =>
                   /\ n.grants = q.grants
                   /\ n.strips = (q.strips \ q.found)
                                    \cup {<<p[1], As(p[2])>> : p \in q.strips \cap q.found}
                   /\ n.later = q.later \cup {new}
  <1> DEFINE As(x) == IF x = old THEN new ELSE x
             Rows(S) == {<<p[1], As(p[2])>> : p \in S}
             byRow == q.kind \in ByGroup
             todo == IF q.kind = "deleteRole" THEN {As(x) : x \in q.todo} ELSE q.todo
             done == {As(x) : x \in q.done}
             grants == IF byRow THEN Rows(q.grants) ELSE q.grants
             strips == IF byRow THEN Rows(q.strips)
                       ELSE (q.strips \ q.found) \cup Rows(q.strips \cap q.found)
             found == Rows(q.found)
             later == IF q.kind = "removeMember" THEN q.later \cup {new} ELSE q.later
  <1>1. Renamed(q, old, new) = [q EXCEPT !.todo = todo, !.done = done, !.grants = grants,
                                         !.strips = strips, !.found = found, !.later = later]
    BY DEF Renamed
  <1>2. ASSUME NEW S \in SUBSET (Users \cup Roles)
        PROVE  {As(x) : x \in S} \in SUBSET (Users \cup Roles)
    BY <1>2
  <1>3. ASSUME NEW S \in SUBSET Pairs PROVE Rows(S) \in SUBSET Pairs
    BY <1>3 DEF Pairs
  <1>4. /\ q.todo \in SUBSET (Users \cup Roles) /\ q.done \in SUBSET (Users \cup Roles)
        /\ q.grants \in SUBSET Pairs /\ q.strips \in SUBSET Pairs
        /\ q.found \in SUBSET Pairs /\ q.later \in SUBSET Roles
        /\ q.strips \cap q.found \in SUBSET Pairs
    BY DEF Request
  <1>5. /\ todo \in SUBSET (Users \cup Roles) /\ done \in SUBSET (Users \cup Roles)
        /\ grants \in SUBSET Pairs /\ found \in SUBSET Pairs /\ later \in SUBSET Roles
    BY <1>2, <1>3, <1>4
  <1>6. strips \in SUBSET Pairs
    <2>1. Rows(q.strips) \in SUBSET Pairs /\ Rows(q.strips \cap q.found) \in SUBSET Pairs
      BY <1>3, <1>4
    <2> HIDE DEF Rows
    <2> QED BY <1>4, <2>1
  <1>7. /\ q.kind # "deleteRole" => todo = q.todo
        /\ q.kind = "removeMember" =>
              /\ grants = q.grants /\ later = q.later \cup {new}
              /\ strips = (q.strips \ q.found) \cup Rows(q.strips \cap q.found)
    BY DEF ByGroup
  <1> HIDE DEF todo, done, grants, strips, found, later
  <1>8. PICK n \in Request :
           /\ n = Renamed(q, old, new)
           /\ n.kind = q.kind /\ n.pc = q.pc /\ n.user = q.user /\ n.wanted = q.wanted
           /\ n.todo = todo /\ n.grants = grants /\ n.strips = strips /\ n.later = later
    BY <1>1, <1>5, <1>6 DEF Request
  <1> QED BY <1>7, <1>8

\* The tables after it.
Moved(old, new, S, T) ==
    {p \in S \X Roles : p[2] # old /\ <<p[1], IF p[2] = new THEN old ELSE p[2]>> \in T}

LEMMA RenameTables ==
  ASSUME NEW old \in Roles, NEW new \in Roles, RenameRole(old, new)
  PROVE  /\ DOMAIN assigned' = Moved(old, new, Users, DOMAIN assigned)
         /\ assigned' = [p \in Moved(old, new, Users, DOMAIN assigned) |->
                            assigned[<<p[1], IF p[2] = new THEN old ELSE p[2]>>]]
         /\ groupRoles' = Moved(old, new, Groups, groupRoles)
  BY DEF RenameRole, Moved

LEMMA RenameShape ==
  ASSUME Shape, NEW old \in Roles, NEW new \in Roles, RenameRole(old, new)
  PROVE  Shape'
  <1>1. /\ tenant' \in Tenant /\ roles' \subseteq Roles /\ protected' \subseteq Roles
        /\ members' \subseteq Users /\ groups' \subseteq Groups
        /\ groupUsers' \subseteq Groups \X Users /\ calm' \in BOOLEAN
    BY DEF RenameRole, Shape, TypeOK
  <1>2. groupRoles' \subseteq Groups \X Roles
    BY RenameTables DEF Moved
  <1>3. DOMAIN assigned' \subseteq Pairs
    BY RenameTables DEF Moved, Pairs
  <1>4. assigned' \in [DOMAIN assigned' -> BOOLEAN]
    <2> DEFINE D == Moved(old, new, Users, DOMAIN assigned)
               v(p) == assigned[<<p[1], IF p[2] = new THEN old ELSE p[2]>>]
    <2>1. \A p \in D : v(p) \in BOOLEAN
      BY DEF Moved, Shape, TypeOK
    <2>2. assigned' = [p \in D |-> v(p)] /\ DOMAIN assigned' = D
      BY RenameTables
    <2> HIDE DEF D, v
    <2> QED BY <2>1, <2>2
  <1>5. \A r \in Requests : requests[r] \in Request
                            /\ requests'[r] = Renamed(requests[r], old, new)
    BY DEF RenameRole, Shape, TypeOK
  <1>6. requests' \in [Requests -> Request]
    <2>1. requests' = [r \in Requests |-> Renamed(requests[r], old, new)]
      BY DEF RenameRole
    <2>2. \A r \in Requests : Renamed(requests[r], old, new) \in Request
      BY <1>5, RenamedFacts
    <2> QED BY <2>1, <2>2
  <1>7. ASSUME NEW r \in Requests PROVE ShapeOK(requests'[r])
    <2>1. PICK n \in Request : n = requests'[r]
      BY <1>6
    <2>2. /\ n.kind = requests[r].kind /\ n.pc = requests[r].pc
          /\ n.user = requests[r].user
          /\ requests[r].kind # "deleteRole" => n.todo = requests[r].todo
      BY <1>5, <2>1, RenamedFacts
    <2>3. ShapeOK(requests[r])
      BY DEF Shape
    <2> QED BY <2>1, <2>2, <2>3 DEF ShapeOK
  <1> QED BY <1>1, <1>2, <1>3, <1>4, <1>6, <1>7 DEF Shape, TypeOK, ShapeOK

LEMMA NextShape ==
  ASSUME Shape, [Next]_vars
  PROVE  Shape'
  <1>1. ASSUME NEW role \in Roles, CreateRole(role) PROVE Shape'
    BY <1>1 DEF CreateRole, Shape, TypeOK, ShapeOK
  <1>4. ASSUME NEW old \in Roles, NEW new \in NewNames, RenameRole(old, new) PROVE Shape'
    BY <1>4, RenameShape, ListsAreLists
  <1>2. ASSUME NEW g \in Groups, CreateGroup(g) PROVE Shape'
    BY <1>2 DEF CreateGroup, Shape, TypeOK, ShapeOK
  <1>3. CASE UNCHANGED vars
    BY <1>3 DEF vars, tables, Shape, TypeOK, ShapeOK
  <1> QED BY <1>1, <1>2, <1>3, <1>4, BeginShape, ContinueShape, FailShape DEF Next

LEMMA InitShape == Init => Shape
  <1> SUFFICES ASSUME Init PROVE Shape
    OBVIOUS
  <1>1. requests \in [Requests -> Request] /\ \A r \in Requests : ShapeOK(requests[r])
    BY IdleShape DEF Init
  <1>2. /\ tenant \in Tenant
        /\ DOMAIN assigned \subseteq Pairs /\ assigned \in [DOMAIN assigned -> BOOLEAN]
    BY DEF Init, Tenant
  <1> QED BY <1>1, <1>2 DEF Init, Shape, TypeOK

\* Every request has, at each step, the user and the lists its next statements
\* take for granted.
THEOREM ShapeHolds == Spec => []Shape
  BY InitShape, NextShape, PTL DEF Spec

\* Tables and local variables keep their types.
THEOREM TypeCorrect == Spec => []TypeOK
  <1>1. Shape => TypeOK
    BY DEF Shape
  <1> QED BY <1>1, ShapeHolds, PTL

-----------------------------------------------------------------------------
(* What holds of user_roles: its roles and the tenant are stored.          *)

Holders ==
    /\ \A p \in DOMAIN assigned : p[2] \in roles
    /\ ~Stored => DOMAIN assigned = {}

LEMMA EndIdle ==
  ASSUME Shape, NEW r \in Requests, End(r)
  PROVE  requests'[r] = Idle /\ \A q \in Requests \ {r} : requests'[q] = requests[q]
  BY DEF End, Shape, TypeOK

LEMMA GotoStep ==
  ASSUME Shape, NEW r \in Requests, NEW step, Goto(r, step)
  PROVE  /\ requests'[r] = [requests[r] EXCEPT !.pc = step]
         /\ requests'[r].pc = step /\ requests'[r].kind = requests[r].kind
         /\ \A q \in Requests \ {r} : requests'[q] = requests[q]
  BY DEF Goto, Shape, TypeOK, Request

\* What a request knows when it begins.
FirstOK(next) ==
    /\ next.pc \in {"domain", "owner", "membership", "isMember", "grant", "strip",
                    "count", "join", "leave", "clear"}
    /\ next.pc = "owner" => next.kind # "create"
    /\ next.kind = "removeMember" => next.pc = "membership" /\ next.wanted = {}
    /\ next.kind = "deleteTenant" => next.pc = "clear"
    /\ next.done = {}

Opened(r) ==
    /\ UNCHANGED <<tables, calm>> /\ At(r, "idle")
    /\ FirstOK(requests'[r])
    /\ \A q \in Requests \ {r} : requests'[q] = requests[q]

LEMMA StartOpens ==
  ASSUME Shape, NEW r \in Requests, NEW next, FirstOK(next), Start(r, next)
  PROVE  Opened(r)
  BY DEF Start, Opened, Shape, TypeOK

LEMMA BeginOpens ==
  ASSUME Shape, NEW r \in Requests, Begin(r)
  PROVE  Opened(r)
  <1>1. ASSUME NEW u, StartCreate(r, u) \/ StartAddMember(r, u) \/ StartRemoveMember(r, u)
        PROVE  Opened(r)
    BY <1>1, StartOpens DEF StartCreate, StartAddMember, StartRemoveMember, Idle, FirstOK
  <1>2. ASSUME NEW u, NEW some,
               StartSetRoles(r, u, some) \/ StartAddRoles(r, u, some)
                                         \/ StartRemoveRoles(r, u, some)
        PROVE  Opened(r)
    BY <1>2, StartOpens DEF StartSetRoles, StartAddRoles, StartRemoveRoles, Idle, FirstOK
  <1>3. ASSUME NEW role, StartDeleteRole(r, role)
        PROVE  Opened(r)
    BY <1>3, StartOpens DEF StartDeleteRole, Idle, FirstOK
  <1>4. ASSUME NEW g, NEW some, NEW kind \in {"groupAddRoles", "groupAddUsers"},
               StartJoin(r, g, kind, some)
        PROVE  Opened(r)
    BY <1>4, StartOpens DEF StartJoin, Idle, FirstOK
  <1>5. ASSUME NEW g, NEW some,
               NEW kind \in {"groupRemoveRoles", "groupRemoveUsers", "deleteGroup"},
               StartLeave(r, g, kind, some)
        PROVE  Opened(r)
    BY <1>5, StartOpens DEF StartLeave, Idle, FirstOK
  <1>6. CASE StartDeleteTenant(r)
    BY <1>6, StartOpens DEF StartDeleteTenant, Idle, FirstOK
  <1> QED BY <1>1, <1>2, <1>3, <1>4, <1>5, <1>6 DEF Begin, StartDeleteGroup

LEMMA NextHolders ==
  ASSUME Shape, Holders, [Next]_vars
  PROVE  Holders'
  <1>1. AssignedOK
    BY DEF Shape, TypeOK, AssignedOK
  <1>2. CASE UNCHANGED <<tenant, roles, assigned>>
    BY <1>2 DEF Holders, Stored
  <1>3. ASSUME NEW r \in Requests, Grant(r) PROVE Holders'
    <2>1. PICK p \in requests[r].grants :
             \/ /\ p[2] \in roles /\ Stored
                /\ assigned' = Set(assigned, p, Kind(r) \in ByGroup)
             \/ UNCHANGED assigned
      BY <1>3 DEF Grant
    <2>2. CASE p[2] \in roles /\ Stored /\ assigned' = Set(assigned, p, Kind(r) \in ByGroup)
      <3>1. DOMAIN assigned' = DOMAIN assigned \cup {p}
        BY <2>2 DEF Set
      <3> QED BY <1>3, <2>2, <3>1 DEF Grant, Holders, Stored
    <2>3. CASE UNCHANGED assigned
      BY <1>2, <1>3, <2>3 DEF Grant
    <2> QED BY <2>1, <2>2, <2>3
  <1>4. ASSUME NEW r \in Requests, Erase(r) PROVE Holders'
    <2>1. DOMAIN assigned' \subseteq DOMAIN assigned
      BY <1>4 DEF Erase, Without
    <2> QED BY <1>4, <2>1 DEF Erase, Holders, Stored
  <1>5. ASSUME NEW r \in Requests, RemoveRole(r) PROVE Holders'
    <2>1. DOMAIN assigned' = DOMAIN assigned \ (Users \X requests[r].todo)
      BY <1>5 DEF RemoveRole, Without
    <2>2. \A p \in DOMAIN assigned' : p[2] \notin requests[r].todo
      BY <1>1, <2>1 DEF AssignedOK, Pairs
    <2> QED BY <1>5, <2>1, <2>2 DEF RemoveRole, Holders, Stored
  <1>6. ASSUME NEW r \in Requests, ClearAssignments(r) \/ RemoveTenant(r) PROVE Holders'
    <2>1. DOMAIN assigned' = {}
      BY <1>1, <1>6 DEF ClearAssignments, RemoveTenant, Without, AssignedOK
    <2> QED BY <2>1 DEF Holders
  <1>7. ASSUME NEW r \in Requests, DeleteRoles(r) PROVE Holders'
    BY <1>7 DEF DeleteRoles, Holders
  <1>8. ASSUME NEW r \in Requests, SaveTenant(r) PROVE Holders'
    BY <1>8 DEF SaveTenant, NewTenant, Holders, Stored
  <1>9. ASSUME NEW r \in Requests, CreateDefaultClient(r) \/ CreateInitialKey(r) PROVE Holders'
    BY <1>9 DEF CreateDefaultClient, CreateInitialKey, Holders, Stored, Shape, TypeOK, Tenant
  <1>10. ASSUME NEW r \in Requests, CreateSystemRole(r) PROVE Holders'
    BY <1>10 DEF CreateSystemRole, Holders, Stored
  <1>11. ASSUME NEW role \in Roles, CreateRole(role) PROVE Holders'
    BY <1>11 DEF CreateRole, Holders, Stored
  <1>12. ASSUME NEW g \in Groups, CreateGroup(g) PROVE Holders'
    BY <1>2, <1>12 DEF CreateGroup
  <1>13. ASSUME NEW r \in Requests, Begin(r) \/ Fail(r) PROVE Holders'
    BY <1>2, <1>13, BeginOpens DEF Opened, Fail, tables
  <1>14. ASSUME NEW r \in Requests,
                \/ CheckDomain(r) \/ AppointOwner(r) \/ AddMember(r) \/ CheckMember(r)
                \/ ListRoles(r) \/ Unlink(r) \/ Granted(r) \/ Strip(r) \/ Stripped(r)
                \/ CountHolders(r) \/ Join(r) \/ Leave(r) \/ ReadOthers(r) \/ RemoveGroup(r)
         PROVE  Holders'
    <2>1. UNCHANGED <<tenant, roles, assigned>>
      BY <1>14 DEF CheckDomain, AppointOwner, AddMember, CheckMember, ListRoles, Unlink,
         Granted, Strip, Stripped, CountHolders, Join, Leave, ReadOthers, RemoveGroup, tables
    <2> QED BY <1>2, <2>1
  <1>15. CASE UNCHANGED vars
    BY <1>2, <1>15 DEF vars, tables
  <1>16. ASSUME NEW old \in Roles, NEW new \in NewNames, RenameRole(old, new)
         PROVE  Holders'
    <2>1. DOMAIN assigned' = Moved(old, new, Users, DOMAIN assigned)
      BY <1>16, RenameTables, ListsAreLists
    <2>2. roles' = (roles \ {old}) \cup {new} /\ Stored /\ UNCHANGED tenant
      BY <1>16 DEF RenameRole
    <2>3. ASSUME NEW p \in DOMAIN assigned' PROVE p[2] \in roles'
      <3>1. p[2] # old /\ <<p[1], IF p[2] = new THEN old ELSE p[2]>> \in DOMAIN assigned
        BY <2>1, <2>3 DEF Moved
      <3>2. p[2] # new => p[2] \in roles
        BY <3>1 DEF Holders
      <3> QED BY <2>2, <3>1, <3>2
    <2> QED BY <2>2, <2>3 DEF Holders, Stored
  <1> QED BY <1>3, <1>4, <1>5, <1>6, <1>7, <1>8, <1>9, <1>10, <1>11, <1>12, <1>13, <1>14, <1>15,
       <1>16 DEF Next, Continue, Create

-----------------------------------------------------------------------------
(* Creation: what is stored by the time a creation gets to a step.         *)

WithKey == Stored => tenant.client /\ tenant.key

StagedOK(q) ==
    /\ q.pc \in {"client", "key"} => tenant.row # "none"
    /\ q.pc = "key" => (Stored => tenant.client)
    /\ q.pc \in {"adminRole", "viewerRole", "link"} \/ (q.kind = "create" /\ q.pc = "owner") =>
          tenant.row # "none" /\ WithKey

Creating ==
    /\ Holders
    /\ protected # {} => tenant.row # "none" /\ WithKey
    /\ \A r \in Requests : StagedOK(requests[r])

LEMMA CreatingKept ==
  ASSUME Creating, UNCHANGED tenant, protected' # {} => protected # {}, Holders',
         \A q \in Requests : requests'[q] = requests[q] \/ StagedOK(requests'[q])
  PROVE  Creating'
  BY DEF Creating, StagedOK, WithKey, Stored

LEMMA NextCreating ==
  ASSUME Shape, Creating, [Next]_vars
  PROVE  Creating'
  <1>1. Holders'
    BY NextHolders DEF Creating
  <1>2. ASSUME NEW r \in Requests, CheckDomain(r) PROVE Creating'
    <2>1. StagedOK(requests'[r]) /\ \A q \in Requests \ {r} : requests'[q] = requests[q]
      <3>1. Goto(r, "row")
        BY <1>2 DEF CheckDomain
      <3>2. requests'[r].pc = "row" /\ \A q \in Requests \ {r} : requests'[q] = requests[q]
        BY <3>1, GotoStep
      <3> QED BY <3>2 DEF StagedOK
    <2> QED BY <1>1, <1>2, <2>1, CreatingKept DEF CheckDomain, tables
  <1>3. ASSUME NEW r \in Requests, SaveTenant(r) PROVE Creating'
    <2>1. /\ requests'[r].pc = "client"
          /\ \A q \in Requests \ {r} : requests'[q] = requests[q]
      BY <1>3, GotoStep DEF SaveTenant
    <2>2. tenant.row = "none" /\ tenant'.row = "stored"
      BY <1>3 DEF SaveTenant, NewTenant
    <2>3. protected' = {}
      BY <1>3, <2>2 DEF SaveTenant, Creating
    <2> QED BY <1>1, <2>1, <2>2, <2>3 DEF Creating, StagedOK
  <1>4. ASSUME NEW r \in Requests, CreateDefaultClient(r) PROVE Creating'
    <2>1. /\ requests'[r].pc = "key"
          /\ \A q \in Requests \ {r} : requests'[q] = requests[q]
      BY <1>4, GotoStep DEF CreateDefaultClient, After
    <2>2. /\ tenant' = [tenant EXCEPT !.client = TRUE] /\ tenant \in Tenant
          /\ protected' = protected
      BY <1>4 DEF CreateDefaultClient, Shape, TypeOK
    <2>3. tenant'.row = tenant.row /\ tenant'.client /\ tenant'.key = tenant.key
      BY <2>2 DEF Tenant
    <2>4. StagedOK(requests[r]) /\ requests[r].pc = "client"
      BY <1>4 DEF CreateDefaultClient, At, Creating
    <2> QED BY <1>1, <2>1, <2>2, <2>3, <2>4 DEF Creating, StagedOK, WithKey, Stored
  <1>5. ASSUME NEW r \in Requests, CreateInitialKey(r) PROVE Creating'
    <2>1. /\ requests'[r].pc = "owner"
          /\ \A q \in Requests \ {r} : requests'[q] = requests[q]
      BY <1>5, GotoStep DEF CreateInitialKey, After
    <2>2. /\ tenant' = [tenant EXCEPT !.key = TRUE] /\ tenant \in Tenant
          /\ protected' = protected
      BY <1>5 DEF CreateInitialKey, Shape, TypeOK
    <2>3. tenant'.row = tenant.row /\ tenant'.key /\ tenant'.client = tenant.client
      BY <2>2 DEF Tenant
    <2>4. StagedOK(requests[r]) /\ requests[r].pc = "key"
      BY <1>5 DEF CreateInitialKey, At, Creating
    <2> QED BY <1>1, <2>1, <2>2, <2>3, <2>4 DEF Creating, StagedOK, WithKey, Stored
  <1>6. ASSUME NEW r \in Requests, AddMember(r) PROVE Creating'
    <2>1. CASE Kind(r) = "create"
      <3>1. /\ requests'[r] = [requests[r] EXCEPT !.pc = "adminRole"]
            /\ \A q \in Requests \ {r} : requests'[q] = requests[q]
        BY <1>6, <2>1, GotoStep DEF AddMember, After
      <3>2. StagedOK(requests'[r])
        BY <1>6, <2>1, <3>1 DEF AddMember, At, Kind, Creating, StagedOK, Shape, TypeOK, Request
      <3> QED BY <1>1, <1>6, <3>1, <3>2, CreatingKept DEF AddMember
    <2>2. CASE Kind(r) # "create"
      BY <1>1, <1>6, <2>2, EndIdle, CreatingKept DEF AddMember, Idle, StagedOK
    <2> QED BY <2>1, <2>2
  <1>7. ASSUME NEW r \in Requests, CreateSystemRole(r) PROVE Creating'
    <2>1. requests[r].pc \in {"adminRole", "viewerRole"}
      BY <1>7 DEF CreateSystemRole, At
    <2>2. /\ requests'[r] = [requests[r] EXCEPT !.pc = After(requests[r].pc)]
          /\ \A q \in Requests \ {r} : requests'[q] = requests[q]
      BY <1>7, GotoStep DEF CreateSystemRole
    <2>3. tenant.row # "none" /\ WithKey
      BY <2>1 DEF Creating, StagedOK
    <2>4. tenant' = tenant
      BY <1>7 DEF CreateSystemRole
    <2>5. StagedOK(requests'[r])
      BY <2>1, <2>2, <2>3 DEF StagedOK, After, Shape, TypeOK, Request
    <2> QED BY <1>1, <2>2, <2>3, <2>4, <2>5 DEF Creating, StagedOK, WithKey, Stored
  <1>8. ASSUME NEW r \in Requests,
               \/ Unlink(r) \/ RemoveRole(r) \/ RemoveGroup(r) \/ Fail(r)
        PROVE  Creating'
    <2>1. End(r) /\ UNCHANGED tenant /\ protected' \subseteq protected
      BY <1>8 DEF Unlink, RemoveRole, RemoveGroup, Fail, tables
    <2> QED BY <1>1, <2>1, EndIdle, CreatingKept DEF Idle, StagedOK
  <1>9. ASSUME NEW r \in Requests, RemoveTenant(r) PROVE Creating'
    <2>1. tenant'.row = "deleted"
      BY <1>9 DEF RemoveTenant
    <2> QED BY <1>1, <2>1 DEF Creating, StagedOK, WithKey, Stored
  <1>10. ASSUME NEW role \in Roles, CreateRole(role) PROVE Creating'
    BY <1>1, <1>10, CreatingKept DEF CreateRole
  <1>11. ASSUME NEW g \in Groups, CreateGroup(g) PROVE Creating'
    BY <1>1, <1>11, CreatingKept DEF CreateGroup
  <1>12. ASSUME NEW r \in Requests, Begin(r) PROVE Creating'
    BY <1>1, <1>12, BeginOpens, CreatingKept DEF Opened, FirstOK, StagedOK, tables
  <1>13. ASSUME NEW r \in Requests,
                \/ AppointOwner(r) \/ CheckMember(r) \/ ListRoles(r) \/ Erase(r) \/ Strip(r)
                \/ Join(r) \/ Leave(r) \/ ReadOthers(r) \/ Granted(r) \/ Stripped(r)
                \/ CountHolders(r) \/ ClearAssignments(r) \/ DeleteRoles(r)
         PROVE  Creating'
    <2>1. UNCHANGED tenant /\ protected' \subseteq protected
      BY <1>13 DEF AppointOwner, CheckMember, ListRoles, Erase, Strip, Join, Leave, ReadOthers,
         Granted, Stripped, CountHolders, ClearAssignments, DeleteRoles, tables
    <2>2. /\ requests'[r].pc \in {"isMember", "list", "grant", "strip", "erase", "join",
                                  "leave", "idle", "unlink", "row", "remove", "roles"}
          /\ \A q \in Requests \ {r} : requests'[q] = requests[q]
      <3>1. CASE CheckMember(r) \/ CountHolders(r) \/ ClearAssignments(r) \/ DeleteRoles(r)
        BY <3>1, GotoStep DEF CheckMember, CountHolders, ClearAssignments, DeleteRoles
      <3>2. CASE Granted(r)
        <4>1. End(r) \/ Goto(r, "strip")
          BY <3>2 DEF Granted
        <4>2. Idle.pc = "idle"
          BY DEF Idle
        <4> QED BY <4>1, <4>2, GotoStep, EndIdle
      <3>3. CASE Stripped(r)
        <4>1. CASE Kind(r) = "deleteGroup"
          BY <3>3, <4>1 DEF Stripped, Shape, TypeOK, Request
        <4>2. Kind(r) # "deleteGroup" => Goto(r, "unlink") \/ Goto(r, "row") \/ End(r)
          BY <3>3 DEF Stripped
        <4>3. Idle.pc = "idle"
          BY DEF Idle
        <4> QED BY <4>1, <4>2, <4>3, GotoStep, EndIdle
      <3>4. CASE AppointOwner(r) \/ ListRoles(r) \/ Erase(r)
        BY <3>4 DEF AppointOwner, ListRoles, Erase, Shape, TypeOK, Request
      <3>5. CASE Strip(r)
        BY <3>5 DEF Strip, Missing, At, Shape, TypeOK, Request
      <3>6. CASE Join(r) \/ Leave(r)
        <4>1. PICK o \in Request : o = requests[r]
          BY DEF Shape, TypeOK
        <4>2. \A todo, done : [o EXCEPT !.todo = todo, !.done = done].pc = o.pc
          BY DEF Request
        <4>3. ASSUME NEW todo, NEW done,
                     requests' = [requests EXCEPT
                         ![r] = [o EXCEPT !.todo = todo, !.done = done]]
              PROVE  /\ requests'[r].pc = o.pc
                     /\ \A q \in Requests \ {r} : requests'[q] = requests[q]
          BY <4>2, <4>3 DEF Shape, TypeOK
        <4>4. CASE Join(r)
          <5>1. o.pc = "join" /\ \E x, done :
                  requests' = [requests EXCEPT ![r].todo = @ \ {x}, ![r].done = done]
            BY <4>1, <4>4 DEF Join, At
          <5>2. PICK x, done : requests' = [requests EXCEPT ![r].todo = @ \ {x}, ![r].done = done]
            BY <5>1
          <5>3. requests' = [requests EXCEPT
                    ![r] = [o EXCEPT !.todo = o.todo \ {x}, !.done = done]]
            BY <4>1, <5>2
          <5> QED BY <4>3, <5>1, <5>3
        <4>5. CASE Leave(r)
          <5>1. o.pc = "leave" /\ \E x, done :
                  requests' = [requests EXCEPT ![r].todo = @ \ {x}, ![r].done = done]
            BY <4>1, <4>5 DEF Leave, At
          <5>2. PICK x, done : requests' = [requests EXCEPT ![r].todo = @ \ {x}, ![r].done = done]
            BY <5>1
          <5>3. requests' = [requests EXCEPT
                    ![r] = [o EXCEPT !.todo = o.todo \ {x}, !.done = done]]
            BY <4>1, <5>2
          <5> QED BY <4>3, <5>1, <5>3
        <4> QED BY <3>6, <4>4, <4>5
      <3>7. CASE ReadOthers(r)
        BY <3>7 DEF ReadOthers, At, Shape, TypeOK, Request
      <3> QED BY <1>13, <3>1, <3>2, <3>3, <3>4, <3>5, <3>6, <3>7
    <2>3. StagedOK(requests'[r])
      BY <2>2 DEF StagedOK
    <2> QED BY <1>1, <2>1, <2>2, <2>3, CreatingKept
  <1>14. ASSUME NEW r \in Requests, Grant(r) PROVE Creating'
    <2>1. \A q \in Requests : /\ requests'[q].pc = requests[q].pc
                              /\ requests'[q].kind = requests[q].kind
      BY <1>14 DEF Grant, Shape, TypeOK, Request
    <2>2. UNCHANGED <<tenant, protected>>
      BY <1>14 DEF Grant
    <2> QED BY <1>1, <2>1, <2>2 DEF Creating, StagedOK, WithKey, Stored
  <1>15. CASE UNCHANGED vars
    BY <1>1, <1>15, CreatingKept DEF vars, tables
  <1>16. ASSUME NEW old \in Roles, NEW new \in NewNames, RenameRole(old, new)
         PROVE  Creating'
    <2>1. UNCHANGED tenant /\ (protected' # {} => protected # {})
      BY <1>16 DEF RenameRole
    <2>2. ASSUME NEW q \in Requests PROVE StagedOK(requests'[q])
      <3>1. requests'[q] = Renamed(requests[q], old, new) /\ requests[q] \in Request
        BY <1>16 DEF RenameRole, Shape, TypeOK
      <3>2. requests'[q].pc = requests[q].pc /\ requests'[q].kind = requests[q].kind
        BY <1>16, <3>1, RenamedFacts, ListsAreLists
      <3> QED BY <3>2 DEF Creating, StagedOK
    <2> QED BY <1>1, <2>1, <2>2 DEF Creating, StagedOK, WithKey, Stored
  <1> QED BY <1>2, <1>3, <1>4, <1>5, <1>6, <1>7, <1>8, <1>9, <1>10, <1>11, <1>12, <1>13, <1>14,
       <1>15, <1>16 DEF Next, Continue, Create

LEMMA InitCreating == Init => Creating
  BY DEF Init, Creating, Holders, StagedOK, Idle, Stored, WithKey

\* A creation can stop anywhere, but whoever holds a role that a creation made is in
\* a tenant with a client and a key, for any number of creations and deletions at
\* once, and whatever the roles are called by then.
THEOREM AdminsCanServe == Spec => []AdminMeansComplete
  <1>1. Shape /\ Creating => AdminMeansComplete
    BY DEF Shape, TypeOK, Creating, Holders, WithKey, Stored, AdminMeansComplete
  <1>2. Shape /\ Creating /\ [Next]_vars => Creating'
    BY NextCreating
  <1> QED BY <1>1, <1>2, InitCreating, ShapeHolds, PTL DEF Spec

-----------------------------------------------------------------------------
(* Removal of a member: what is still to be taken away.                    *)

RemovalOK(q) ==
    /\ q.pc = "unlink" => q.kind = "removeMember"
    /\ q.kind = "removeMember" =>
          /\ q.pc \in {"membership", "isMember", "list", "grant", "strip", "erase", "unlink"}
          /\ q.wanted = {}
          /\ q.pc \in {"grant", "strip", "erase", "unlink"} =>
                /\ q.grants = {}
                /\ \A x \in RolesOf(q.user) : <<q.user, x>> \in q.strips \/ x \in q.later
          /\ q.pc = "unlink" => q.strips = {}

Removing == Holders /\ \A r \in Requests : RemovalOK(requests[r])

\* A step that assigns no role.
LEMMA RemovingKept ==
  ASSUME Removing, Holders', DOMAIN assigned' \subseteq DOMAIN assigned,
         \A q \in Requests : requests'[q] = requests[q] \/ RemovalOK(requests[q])'
  PROVE  Removing'
  BY DEF Removing, RemovalOK, RolesOf

LEMMA NextRemoving ==
  ASSUME Shape, Removing, [Next]_vars
  PROVE  Removing'
  <1>1. Holders'
    BY NextHolders DEF Removing
  <1>2. RemovalOK(Idle)'
    BY DEF RemovalOK, Idle
  <1>3. ASSUME NEW r \in Requests, End(r), DOMAIN assigned' \subseteq DOMAIN assigned
        PROVE  Removing'
    BY <1>1, <1>2, <1>3, EndIdle, RemovingKept
  <1>4. ASSUME NEW r \in Requests, NEW step \in {"row", "key", "owner", "adminRole", "viewerRole",
                                                 "link", "client", "remove", "roles"},
               Goto(r, step), Kind(r) # "removeMember",
               DOMAIN assigned' \subseteq DOMAIN assigned
        PROVE  Removing'
    <2>1. RemovalOK(requests[r])'
      BY <1>4, GotoStep DEF RemovalOK, Kind
    <2> QED BY <1>1, <1>4, <2>1, GotoStep, RemovingKept
  <1>5. \A r \in Requests : requests[r].pc \notin {"membership", "isMember", "list", "grant",
                                                   "strip", "erase", "unlink"} =>
           Kind(r) # "removeMember"
    BY DEF Removing, RemovalOK, Kind
  <1>6. ASSUME NEW r \in Requests, Begin(r) PROVE Removing'
    <2>1. Opened(r)
      BY <1>6, BeginOpens
    <2>2. RemovalOK(requests[r])'
      BY <2>1 DEF Opened, FirstOK, RemovalOK
    <2> QED BY <1>1, <2>1, <2>2, RemovingKept DEF Opened, tables
  <1>7. ASSUME NEW r \in Requests,
               \/ CheckDomain(r) \/ SaveTenant(r) \/ CreateDefaultClient(r)
               \/ CreateInitialKey(r) \/ CreateSystemRole(r) \/ CountHolders(r)
        PROVE  Removing'
    <2>1. Kind(r) # "removeMember"
      BY <1>5, <1>7 DEF CheckDomain, SaveTenant, CreateDefaultClient, CreateInitialKey,
         CreateSystemRole, CountHolders, At
    <2>2. UNCHANGED assigned
      BY <1>7 DEF CheckDomain, SaveTenant, CreateDefaultClient, CreateInitialKey,
         CreateSystemRole, CountHolders, tables
    <2>3. PICK step \in {"row", "key", "owner", "viewerRole", "link", "client", "remove"} :
             Goto(r, step)
      BY <1>7 DEF CheckDomain, SaveTenant, CreateDefaultClient, CreateInitialKey,
         CreateSystemRole, CountHolders, At, After
    <2> QED BY <1>4, <2>1, <2>2, <2>3
  <1>8. ASSUME NEW r \in Requests, AddMember(r) PROVE Removing'
    <2>1. Kind(r) # "removeMember" /\ UNCHANGED assigned
      BY <1>5, <1>8 DEF AddMember, At
    <2>2. Goto(r, "adminRole") \/ End(r)
      BY <1>8 DEF AddMember, After
    <2> QED BY <1>3, <1>4, <2>1, <2>2
  <1>9. ASSUME NEW r \in Requests, AppointOwner(r) PROVE Removing'
    <2>1. Kind(r) # "removeMember"
      BY <1>5, <1>9 DEF AppointOwner, At
    <2>2. /\ requests'[r].kind = requests[r].kind /\ requests'[r].pc = "isMember"
          /\ \A q \in Requests \ {r} : requests'[q] = requests[q]
      BY <1>9 DEF AppointOwner, Shape, TypeOK, Request
    <2>3. RemovalOK(requests[r])'
      BY <2>1, <2>2 DEF RemovalOK, Kind
    <2> QED BY <1>1, <1>9, <2>2, <2>3, RemovingKept DEF AppointOwner, tables
  <1>10. ASSUME NEW r \in Requests, CheckMember(r) PROVE Removing'
    <2>1. PICK step \in {"isMember", "list"} : Goto(r, step)
      BY <1>10 DEF CheckMember
    <2>2. /\ requests'[r].kind = requests[r].kind /\ requests'[r].pc = step
          /\ requests'[r].wanted = requests[r].wanted
          /\ \A q \in Requests \ {r} : requests'[q] = requests[q]
      BY <2>1 DEF Goto, Shape, TypeOK, Request
    <2>3. RemovalOK(requests[r])'
      BY <2>2 DEF Removing, RemovalOK
    <2> QED BY <1>1, <1>10, <2>2, <2>3, RemovingKept DEF CheckMember, tables
  <1>11. ASSUME NEW r \in Requests, ListRoles(r) PROVE Removing'
    <2>1. /\ requests'[r].kind = requests[r].kind /\ requests'[r].pc = "grant"
          /\ requests'[r].wanted = requests[r].wanted /\ requests'[r].user = requests[r].user
          /\ requests'[r].grants =
                {requests[r].user} \X (requests[r].wanted \ RolesOf(requests[r].user))
          /\ requests'[r].strips =
                {requests[r].user} \X (RolesOf(requests[r].user) \ requests[r].wanted)
          /\ \A q \in Requests \ {r} : requests'[q] = requests[q]
      BY <1>11 DEF ListRoles, Shape, TypeOK, Request
    <2>2. UNCHANGED assigned
      BY <1>11 DEF ListRoles, tables
    <2>3. CASE requests[r].kind = "removeMember"
      <3>1. requests[r].wanted = {}
        BY <2>3 DEF Removing, RemovalOK
      <3>2. requests'[r].grants = {}
        BY <2>1, <3>1
      <3>3. \A x \in RolesOf(requests[r].user) : <<requests[r].user, x>> \in requests'[r].strips
        BY <2>1, <3>1
      <3> QED BY <1>1, <2>1, <2>2, <2>3, <3>1, <3>2, <3>3, RemovingKept DEF RemovalOK, RolesOf
    <2>4. CASE requests[r].kind # "removeMember"
      BY <1>1, <2>1, <2>2, <2>4, RemovingKept DEF RemovalOK
    <2> QED BY <2>3, <2>4
  <1>12. ASSUME NEW r \in Requests, Granted(r) PROVE Removing'
    <2>1. UNCHANGED assigned
      BY <1>12 DEF Granted, tables
    <2>2. CASE Goto(r, "strip")
      <3>1. /\ requests'[r] = [requests[r] EXCEPT !.pc = "strip"] /\ requests[r].pc = "grant"
            /\ \A q \in Requests \ {r} : requests'[q] = requests[q]
        BY <1>12, <2>2, GotoStep DEF Granted, At
      <3>2. RemovalOK(requests[r])'
        BY <2>1, <3>1 DEF Removing, RemovalOK, RolesOf, Shape, TypeOK, Request
      <3> QED BY <1>1, <2>1, <3>1, <3>2, RemovingKept
    <2> QED BY <1>3, <1>12, <2>1, <2>2 DEF Granted
  <1>13. ASSUME NEW r \in Requests, Grant(r) PROVE Removing'
    <2>1. Kind(r) # "removeMember"
      BY <1>13 DEF Grant, At, Kind, Removing, RemovalOK
    <2>2. requests[r] \in Request /\ requests[r].pc = "grant"
      BY <1>13 DEF Grant, At, Shape, TypeOK
    <2>3. ASSUME NEW p \in requests[r].grants,
                 assigned' = Set(assigned, p, Kind(r) \in ByGroup),
                 requests' = [q \in Requests |->
                      IF q = r
                      THEN [requests[r] EXCEPT !.grants = @ \ {p}]
                      ELSE IF Kind(q) = "removeMember" /\ requests[q].user = p[1]
                           THEN [requests[q] EXCEPT !.later = @ \cup {p[2]}]
                           ELSE requests[q]]
          PROVE  Removing'
      <3>1. DOMAIN assigned' = DOMAIN assigned \cup {p}
        BY <2>3 DEF Set
      <3>2. RemovalOK(requests[r])'
        BY <2>1, <2>2, <2>3 DEF Kind, Request, RemovalOK
      <3>3. ASSUME NEW q \in Requests \ {r} PROVE RemovalOK(requests[q])'
        <4>1. RemovalOK(requests[q]) /\ requests[q] \in Request
          BY DEF Removing, Shape, TypeOK
        <4>2. CASE Kind(q) = "removeMember" /\ requests[q].user = p[1]
          <5>1. requests'[q] = [requests[q] EXCEPT !.later = @ \cup {p[2]}]
            BY <2>3, <4>2
          <5>2. /\ requests'[q].kind = requests[q].kind /\ requests'[q].pc = requests[q].pc
                /\ requests'[q].wanted = requests[q].wanted
                /\ requests'[q].user = requests[q].user
                /\ requests'[q].grants = requests[q].grants
                /\ requests'[q].strips = requests[q].strips
                /\ requests'[q].later = requests[q].later \cup {p[2]}
            BY <4>1, <5>1 DEF Request
          <5>3. \A x \in RolesOf(requests[q].user)' :
                   x \in RolesOf(requests[q].user) \/ x = p[2]
            BY <3>1, <4>2, <5>2 DEF RolesOf
          <5> QED BY <4>1, <5>2, <5>3 DEF RemovalOK
        <4>3. CASE ~(Kind(q) = "removeMember" /\ requests[q].user = p[1])
          <5>1. requests'[q] = requests[q]
            BY <2>3, <4>3
          <5>2. Kind(q) = "removeMember" =>
                   RolesOf(requests[q].user)' = RolesOf(requests[q].user)
            BY <3>1, <4>3, <5>1 DEF RolesOf
          <5> QED BY <4>1, <5>1, <5>2 DEF RemovalOK, Kind
        <4> QED BY <4>2, <4>3
      <3> QED BY <1>1, <3>2, <3>3 DEF Removing
    <2>4. ASSUME NEW p \in requests[r].grants, UNCHANGED assigned,
                 requests' = [requests EXCEPT ![r].grants = @ \ {p}]
          PROVE  Removing'
      <3>1. /\ requests'[r].kind = requests[r].kind /\ requests'[r].pc = "grant"
            /\ \A q \in Requests \ {r} : requests'[q] = requests[q]
        BY <2>2, <2>4 DEF Shape, TypeOK, Request
      <3>2. RemovalOK(requests[r])'
        BY <2>1, <3>1 DEF RemovalOK, Kind
      <3> QED BY <1>1, <2>4, <3>1, <3>2, RemovingKept
    <2> QED BY <1>13, <2>3, <2>4 DEF Grant
  <1>14. ASSUME NEW r \in Requests, Strip(r) PROVE Removing'
    <2>1. UNCHANGED assigned /\ RemovalOK(requests[r]) /\ requests[r] \in Request
          /\ requests[r].pc = "strip"
      BY <1>14 DEF Strip, tables, At, Removing, Shape, TypeOK
    <2>2. PICK p \in requests[r].strips :
             \/ requests' = [requests EXCEPT ![r].found = {p}, ![r].pc = "erase"]
             \/ p[2] \notin roles /\ requests' = [requests EXCEPT ![r].strips = @ \ {p}]
      BY <1>14 DEF Strip, Missing
    <2>3. /\ requests'[r].kind = requests[r].kind /\ requests'[r].user = requests[r].user
          /\ requests'[r].wanted = requests[r].wanted /\ requests'[r].grants = requests[r].grants
          /\ requests'[r].later = requests[r].later /\ requests'[r].pc \in {"strip", "erase"}
          /\ \/ requests'[r].strips = requests[r].strips
             \/ p[2] \notin roles /\ requests'[r].strips = requests[r].strips \ {p}
          /\ \A q \in Requests \ {r} : requests'[q] = requests[q]
      BY <2>1, <2>2 DEF Shape, TypeOK, Request
    <2>4. \A x \in RolesOf(requests[r].user) : x \in roles
      BY DEF Removing, Holders, RolesOf
    <2>5. RemovalOK(requests[r])'
      BY <2>1, <2>3, <2>4 DEF RemovalOK, RolesOf
    <2> QED BY <1>1, <2>1, <2>3, <2>5, RemovingKept
  <1>15. ASSUME NEW r \in Requests, Erase(r) PROVE Removing'
    <2>1. RemovalOK(requests[r]) /\ requests[r] \in Request /\ requests[r].pc = "erase"
      BY <1>15 DEF Erase, At, Removing, Shape, TypeOK
    <2>2. DOMAIN assigned' = DOMAIN assigned \ requests[r].found
      BY <1>15 DEF Erase, Without
    <2>3. /\ requests'[r].kind = requests[r].kind /\ requests'[r].user = requests[r].user
          /\ requests'[r].wanted = requests[r].wanted /\ requests'[r].grants = requests[r].grants
          /\ requests'[r].later = requests[r].later /\ requests'[r].pc = "strip"
          /\ requests'[r].strips = requests[r].strips \ requests[r].found
          /\ \A q \in Requests \ {r} : requests'[q] = requests[q]
      BY <1>15, <2>1 DEF Erase, Shape, TypeOK, Request
    <2>4. RemovalOK(requests[r])'
      BY <2>1, <2>2, <2>3 DEF RemovalOK, RolesOf
    <2> QED BY <1>1, <2>2, <2>3, <2>4, RemovingKept
  <1>16. ASSUME NEW r \in Requests, Stripped(r) PROVE Removing'
    <2>1. UNCHANGED assigned /\ RemovalOK(requests[r]) /\ requests[r] \in Request
          /\ requests[r].pc = "strip" /\ requests[r].strips = {}
      BY <1>16 DEF Stripped, tables, At, Removing, Shape, TypeOK
    <2>2. CASE Kind(r) = "removeMember"
      <3>1. /\ requests'[r] = [requests[r] EXCEPT !.pc = "unlink"]
            /\ \A q \in Requests \ {r} : requests'[q] = requests[q]
        BY <1>16, <2>2, GotoStep DEF Stripped
      <3>2. RemovalOK(requests[r])'
        BY <2>1, <2>2, <3>1 DEF RemovalOK, RolesOf, Kind, Request
      <3> QED BY <1>1, <2>1, <3>1, <3>2, RemovingKept
    <2>3. CASE Kind(r) = "deleteGroup"
      <3>1. /\ requests'[r].kind = "emptyGroup" /\ requests'[r].pc = "leave"
            /\ \A q \in Requests \ {r} : requests'[q] = requests[q]
        BY <1>16, <2>1, <2>3 DEF Stripped, Shape, TypeOK, Request
      <3> QED BY <1>1, <2>1, <3>1, RemovingKept DEF RemovalOK
    <2>4. CASE Kind(r) \notin {"removeMember", "deleteGroup"}
      <3>1. Goto(r, "row") \/ End(r)
        BY <1>16, <2>4 DEF Stripped
      <3> QED BY <1>3, <1>4, <2>1, <2>4, <3>1
    <2> QED BY <2>2, <2>3, <2>4
  <1>17. ASSUME NEW r \in Requests,
                Unlink(r) \/ RemoveRole(r) \/ RemoveGroup(r) \/ RemoveTenant(r) \/ Fail(r)
         PROVE  Removing'
    <2>1. End(r)
      BY <1>17 DEF Unlink, RemoveRole, RemoveGroup, RemoveTenant, Fail
    <2>2. DOMAIN assigned' \subseteq DOMAIN assigned
      BY <1>17 DEF Unlink, RemoveRole, RemoveGroup, RemoveTenant, Fail, Without, tables
    <2> QED BY <1>3, <2>1, <2>2
  <1>18. ASSUME NEW r \in Requests, ClearAssignments(r) \/ DeleteRoles(r) PROVE Removing'
    <2>1. Kind(r) # "removeMember"
      BY <1>5, <1>18 DEF ClearAssignments, DeleteRoles, At
    <2>2. DOMAIN assigned' \subseteq DOMAIN assigned
      BY <1>18 DEF ClearAssignments, DeleteRoles, Without
    <2> QED BY <1>4, <1>18, <2>1, <2>2 DEF ClearAssignments, DeleteRoles
  <1>19. ASSUME NEW r \in Requests, Join(r) \/ Leave(r) \/ ReadOthers(r) PROVE Removing'
    <2>1. Kind(r) # "removeMember" /\ UNCHANGED assigned /\ requests[r].pc # "unlink"
      BY <1>5, <1>19 DEF Join, Leave, ReadOthers, At, tables
    <2>2. /\ requests'[r].kind = requests[r].kind /\ requests'[r].pc # "unlink"
          /\ \A q \in Requests \ {r} : requests'[q] = requests[q]
      <3>1. CASE Join(r)
        BY <3>1, <2>1 DEF Join, Shape, TypeOK, Request
      <3>2. CASE Leave(r)
        BY <3>2, <2>1 DEF Leave, Shape, TypeOK, Request
      <3>3. CASE ReadOthers(r)
        BY <3>3, <2>1 DEF ReadOthers, Shape, TypeOK, Request
      <3> QED BY <1>19, <3>1, <3>2, <3>3
    <2>3. RemovalOK(requests[r])'
      BY <2>1, <2>2 DEF RemovalOK, Kind
    <2> QED BY <1>1, <2>1, <2>2, <2>3, RemovingKept
  <1>20. ASSUME (\E role \in Roles : CreateRole(role)) \/ (\E g \in Groups : CreateGroup(g))
         PROVE  Removing'
    BY <1>1, <1>20, RemovingKept DEF CreateRole, CreateGroup
  <1>21. CASE UNCHANGED vars
    BY <1>1, <1>21, RemovingKept DEF vars, tables
  <1>22. ASSUME NEW old \in Roles, NEW new \in NewNames, RenameRole(old, new)
         PROVE  Removing'
    <2> SUFFICES ASSUME NEW r \in Requests PROVE RemovalOK(requests[r])'
      BY <1>1 DEF Removing
    <2>1. PICK q \in Request : q = requests[r]
      BY DEF Shape, TypeOK
    <2>2. PICK n \in Request :
             /\ n = requests'[r]
             /\ n.kind = q.kind /\ n.pc = q.pc /\ n.user = q.user /\ n.wanted = q.wanted
             /\ q.kind = "removeMember" =>
                   /\ n.grants = q.grants
                   /\ n.strips = (q.strips \ q.found)
                                    \cup {<<p[1], IF p[2] = old THEN new ELSE p[2]>> :
                                             p \in q.strips \cap q.found}
                   /\ n.later = q.later \cup {new}
      <3>1. requests'[r] = Renamed(q, old, new)
        BY <1>22, <2>1 DEF RenameRole
      <3> QED BY <2>1, <3>1, RenamedFacts, ListsAreLists
    <2>3. RemovalOK(q)
      BY <2>1 DEF Removing
    <2>4. ASSUME q.kind = "removeMember", q.pc \in {"grant", "strip", "erase", "unlink"},
                 NEW x \in RolesOf(q.user)'
          PROVE  <<q.user, x>> \in n.strips \/ x \in n.later
      <3>1. /\ x \in Roles /\ x # old
            /\ <<q.user, IF x = new THEN old ELSE x>> \in DOMAIN assigned
        <4>1. <<q.user, x>> \in Moved(old, new, Users, DOMAIN assigned)
          BY <1>22, <2>4, RenameTables, ListsAreLists DEF RolesOf
        <4> QED BY <4>1 DEF Moved
      <3>2. x # new => <<q.user, x>> \in q.strips \/ x \in q.later
        BY <2>3, <2>4, <3>1 DEF RemovalOK, RolesOf
      <3>3. CASE x # new /\ <<q.user, x>> \in q.strips
        <4>1. CASE <<q.user, x>> \in q.found
          <5>1. <<q.user, x>> = <<<<q.user, x>>[1],
                     IF <<q.user, x>>[2] = old THEN new ELSE <<q.user, x>>[2]>>
            BY <3>1
          <5> QED BY <2>2, <2>4, <3>3, <4>1, <5>1
        <4> QED BY <2>2, <2>4, <3>3, <4>1
      <3> QED BY <2>2, <2>4, <3>2, <3>3
    <2>5. q.pc = "unlink" => n.strips = {}
      BY <2>2, <2>3 DEF RemovalOK
    <2>6. RemovalOK(n)'
      BY <2>2, <2>3, <2>4, <2>5 DEF RemovalOK
    <2> QED BY <2>2, <2>6
  <1> QED BY <1>6, <1>7, <1>8, <1>9, <1>10, <1>11, <1>12, <1>13, <1>14, <1>15, <1>16, <1>17,
       <1>18, <1>19, <1>20, <1>21, <1>22 DEF Next, Continue, Create

LEMMA InitRemoving == Init => Removing
  BY DEF Init, Removing, Holders, RemovalOK, Idle, Stored

\* A member leaves without roles, except those assigned or renamed during the
\* removal, for any number of administrators and groups that assign and remove roles.
THEOREM RemovalIsThorough == Spec => []LeavesWithNothing
  <1>1. Removing => LeavesWithNothing
    BY DEF Removing, RemovalOK, LeavesWithNothing, At
  <1>2. Shape /\ Removing /\ [Next]_vars => Removing'
    BY NextRemoving
  <1> QED BY <1>1, <1>2, InitRemoving, ShapeHolds, PTL DEF Spec

-----------------------------------------------------------------------------
(* Groups: while nothing is taken away, a role of a group that a user of   *)
(* it does not have is being brought by a request.                         *)

Brings(q, g, u, x) ==
    \/ q.pc = "join" /\ q.group = g /\ (u \in q.done \/ x \in q.done)
    \/ q.pc = "grant" /\ q.kind \in ByGroup /\ <<u, x>> \in q.grants

Reaching ==
    \A g \in Groups : \A u \in UsersOf(g), x \in GroupRolesOf(g) :
        \/ <<u, x>> \in DOMAIN assigned
        \/ \E r \in Requests : Brings(requests[r], g, u, x)

\* A deletion of the tenant takes something away as soon as it begins.
CalmOK(q) == q.pc # "roles" /\ (q.kind = "deleteTenant" => q.pc = "clear")

Meeting == calm => Reaching /\ \A r \in Requests : CalmOK(requests[r])

\* A step that writes no row of a group, and forgets nothing a request brings.
LEMMA MeetingKept ==
  ASSUME Meeting, calm' => calm,
         UNCHANGED <<groupUsers, groupRoles>>, DOMAIN assigned \subseteq DOMAIN assigned',
         \A q \in Requests : calm' =>
             \/ requests'[q] = requests[q]
             \/ /\ CalmOK(requests'[q])
                /\ \A g \in Groups : \A u \in UsersOf(g), x \in GroupRolesOf(g) :
                      Brings(requests[q], g, u, x) => \/ Brings(requests'[q], g, u, x)
                                                      \/ <<u, x>> \in DOMAIN assigned'
  PROVE  Meeting'
  <1> SUFFICES ASSUME calm'
               PROVE  Reaching' /\ \A r \in Requests : CalmOK(requests'[r])
    BY DEF Meeting, CalmOK
  <1>1. \A g : UsersOf(g)' = UsersOf(g) /\ GroupRolesOf(g)' = GroupRolesOf(g)
    BY DEF UsersOf, GroupRolesOf
  <1>2. ASSUME NEW g \in Groups, NEW u \in UsersOf(g), NEW x \in GroupRolesOf(g)
        PROVE  \/ <<u, x>> \in DOMAIN assigned'
               \/ \E r \in Requests : Brings(requests'[r], g, u, x)
    <2>1. CASE <<u, x>> \in DOMAIN assigned
      BY <2>1
    <2>2. ASSUME NEW r \in Requests, Brings(requests[r], g, u, x)
          PROVE  <<u, x>> \in DOMAIN assigned' \/ Brings(requests'[r], g, u, x)
      BY <1>2, <2>2
    <2> QED BY <1>2, <2>1, <2>2 DEF Meeting, Reaching
  <1>3. Reaching'
    BY <1>1, <1>2 DEF Reaching, Brings
  <1>4. \A r \in Requests : CalmOK(requests'[r])
    BY DEF Meeting
  <1> QED BY <1>3, <1>4

\* A step of a request that brings nothing.
LEMMA MeetingEmptyHanded ==
  ASSUME Meeting, UNCHANGED <<calm, assigned, groupUsers, groupRoles>>,
         NEW r \in Requests, calm => CalmOK(requests'[r]),
         \A q \in Requests \ {r} : requests'[q] = requests[q],
         \/ requests[r].pc \notin {"join", "grant"}
         \/ requests[r].pc = "grant" /\ requests[r].grants = {}
  PROVE  Meeting'
  <1>1. \A g, u, x : ~Brings(requests[r], g, u, x)
    BY DEF Brings
  <1> QED BY <1>1, MeetingKept

LEMMA JoinMeets ==
  ASSUME Shape, Meeting, NEW r \in Requests, Join(r)
  PROVE  Meeting'
  <1> DEFINE g0 == requests[r].group
  <1>1. /\ requests[r] \in Request /\ requests[r].pc = "join"
        /\ UNCHANGED <<calm, assigned>>
    BY DEF Join, At, Shape, TypeOK
  <1>2. PICK y \in requests[r].todo :
           /\ requests' = [requests EXCEPT
                 ![r].todo = @ \ {y},
                 ![r].done = IF y \in UsersOf(g0) \cup GroupRolesOf(g0) THEN @ ELSE @ \cup {y}]
           /\ IF OnRoles(r)
              THEN groupRoles' = groupRoles \cup {<<g0, y>>} /\ UNCHANGED groupUsers
              ELSE groupUsers' = groupUsers \cup {<<g0, y>>} /\ UNCHANGED groupRoles
    BY DEF Join
  <1>3. IF OnRoles(r) THEN y \in Roles ELSE y \in Users
    BY <1>1, <1>2 DEF OnRoles, Kind, Shape, ShapeOK
  <1>4. /\ requests'[r].pc = "join" /\ requests'[r].kind = requests[r].kind
        /\ requests'[r].group = g0 /\ requests[r].done \subseteq requests'[r].done
        /\ y \in UsersOf(g0) \cup GroupRolesOf(g0) \cup requests'[r].done
        /\ \A q \in Requests \ {r} : requests'[q] = requests[q]
    BY <1>1, <1>2 DEF Shape, TypeOK, Request
  <1>5. ASSUME calm, NEW g \in Groups, NEW u \in UsersOf(g)', NEW x \in GroupRolesOf(g)'
        PROVE  \/ <<u, x>> \in DOMAIN assigned
               \/ \E q \in Requests : Brings(requests'[q], g, u, x)
    <2>1. CASE u \in UsersOf(g) /\ x \in GroupRolesOf(g)
      <3>1. \/ <<u, x>> \in DOMAIN assigned
            \/ \E q \in Requests : Brings(requests[q], g, u, x)
        BY <1>5, <2>1 DEF Meeting, Reaching
      <3>2. ASSUME NEW q \in Requests, Brings(requests[q], g, u, x)
            PROVE  Brings(requests'[q], g, u, x)
        BY <1>1, <1>4, <3>2 DEF Brings
      <3> QED BY <3>1, <3>2
    <2>2. CASE ~(u \in UsersOf(g) /\ x \in GroupRolesOf(g))
      <3>1. g = g0 /\ y \in {u, x} /\ y \notin UsersOf(g0) \cup GroupRolesOf(g0)
        BY <1>2, <1>3, <1>5, <2>2, UsersAreNoRoles DEF UsersOf, GroupRolesOf
      <3>2. Brings(requests'[r], g, u, x)
        BY <1>4, <3>1 DEF Brings
      <3> QED BY <3>2
    <2> QED BY <2>1, <2>2
  <1>6. calm => Reaching'
    BY <1>1, <1>5 DEF Reaching, Brings
  <1>7. calm => \A q \in Requests : CalmOK(requests'[q])
    BY <1>1, <1>4 DEF Meeting, CalmOK
  <1> QED BY <1>1, <1>6, <1>7 DEF Meeting, CalmOK

LEMMA GrantMeets ==
  ASSUME Shape, Meeting, NEW r \in Requests, Grant(r)
  PROVE  Meeting'
  <1>1. /\ requests[r] \in Request /\ requests[r].pc = "grant"
        /\ UNCHANGED <<calm, groupUsers, groupRoles>>
    BY DEF Grant, At, Shape, TypeOK
  <1>2. PICK p \in requests[r].grants :
           \/ /\ assigned' = Set(assigned, p, Kind(r) \in ByGroup)
              /\ requests' = [q \in Requests |->
                    IF q = r
                    THEN [requests[r] EXCEPT !.grants = @ \ {p}]
                    ELSE IF Kind(q) = "removeMember" /\ requests[q].user = p[1]
                         THEN [requests[q] EXCEPT !.later = @ \cup {p[2]}]
                         ELSE requests[q]]
           \/ /\ Kind(r) \notin ByGroup
              /\ requests' = [requests EXCEPT ![r].grants = @ \ {p}]
              /\ UNCHANGED assigned
    BY DEF Grant
  <1>3. /\ DOMAIN assigned \subseteq DOMAIN assigned'
        /\ Kind(r) \in ByGroup => p \in DOMAIN assigned'
    BY <1>2 DEF Set
  <1>4. /\ \A q \in Requests : /\ requests'[q].pc = requests[q].pc
                               /\ requests'[q].kind = requests[q].kind
                               /\ requests'[q].group = requests[q].group
                               /\ requests'[q].done = requests[q].done
        /\ \A q \in Requests \ {r} : requests'[q].grants = requests[q].grants
        /\ requests'[r].grants = requests[r].grants \ {p}
    BY <1>1, <1>2 DEF Shape, TypeOK, Request
  <1>5. ASSUME NEW q \in Requests, NEW g, NEW u, NEW x, Brings(requests[q], g, u, x)
        PROVE  Brings(requests'[q], g, u, x) \/ <<u, x>> \in DOMAIN assigned'
    BY <1>1, <1>3, <1>4, <1>5 DEF Brings, Kind
  <1>6. calm => \A q \in Requests : CalmOK(requests'[q])
    BY <1>4 DEF Meeting, CalmOK
  <1> QED BY <1>1, <1>3, <1>5, <1>6, MeetingKept

LEMMA NextMeeting ==
  ASSUME Shape, Meeting, [Next]_vars
  PROVE  Meeting'
  <1>1. ASSUME ~calm' PROVE Meeting'
    BY <1>1 DEF Meeting
  <1>2. ASSUME NEW r \in Requests,
               \/ Fail(r) \/ Erase(r) \/ RemoveRole(r) \/ Leave(r) \/ RemoveGroup(r)
               \/ ClearAssignments(r)
        PROVE  Meeting'
    BY <1>1, <1>2 DEF Fail, Erase, RemoveRole, Leave, RemoveGroup, ClearAssignments
  <1>10. ASSUME NEW old \in Roles, NEW new \in NewNames, RenameRole(old, new)
         PROVE  Meeting'
    BY <1>1, <1>10 DEF RenameRole
  <1>3. ASSUME NEW r \in Requests, DeleteRoles(r) \/ RemoveTenant(r) PROVE Meeting'
    BY <1>1, <1>3 DEF DeleteRoles, RemoveTenant, At, Kind, Meeting, CalmOK
  <1>4. ASSUME NEW r \in Requests, Begin(r) PROVE Meeting'
    <2>1. Opened(r)
      BY <1>4, BeginOpens
    <2>2. requests[r].pc = "idle" /\ CalmOK(requests'[r])
      BY <2>1 DEF Opened, FirstOK, At, CalmOK
    <2> QED BY <2>1, <2>2, MeetingEmptyHanded DEF Opened, tables
  <1>5. ASSUME NEW r \in Requests,
               \/ CheckDomain(r) \/ SaveTenant(r) \/ CreateDefaultClient(r)
               \/ CreateInitialKey(r) \/ CreateSystemRole(r) \/ CountHolders(r)
               \/ AddMember(r) \/ CheckMember(r) \/ Unlink(r) \/ Granted(r)
        PROVE  Meeting'
    <2>1. UNCHANGED <<calm, assigned, groupUsers, groupRoles>>
      BY <1>5 DEF CheckDomain, SaveTenant, CreateDefaultClient, CreateInitialKey,
         CreateSystemRole, CountHolders, AddMember, CheckMember, Unlink, Granted, tables
    <2>2. \/ End(r)
          \/ \E step \in {"row", "key", "owner", "adminRole", "viewerRole", "link", "client",
                          "remove", "isMember", "list", "strip"} : Goto(r, step)
      BY <1>5 DEF CheckDomain, SaveTenant, CreateDefaultClient, CreateInitialKey,
         CreateSystemRole, CountHolders, AddMember, CheckMember, Unlink, Granted, At, After
    <2>3. /\ requests[r].pc # "clear"
          /\ \/ requests[r].pc \notin {"join", "grant"}
             \/ requests[r].pc = "grant" /\ requests[r].grants = {}
      BY <1>5 DEF CheckDomain, SaveTenant, CreateDefaultClient, CreateInitialKey,
         CreateSystemRole, CountHolders, AddMember, CheckMember, Unlink, Granted, At
    <2>4. calm => requests[r].kind # "deleteTenant"
      BY <2>3 DEF Meeting, CalmOK
    <2>5. CASE End(r)
      <3>1. CalmOK(Idle)
        BY DEF CalmOK, Idle
      <3> QED BY <2>1, <2>3, <2>5, <3>1, EndIdle, MeetingEmptyHanded
    <2>6. ASSUME NEW step \in {"row", "key", "owner", "adminRole", "viewerRole", "link",
                               "client", "remove", "isMember", "list", "strip"},
                 Goto(r, step)
          PROVE  Meeting'
      <3>1. calm => CalmOK(requests'[r])
        BY <2>4, <2>6, GotoStep DEF CalmOK
      <3> QED BY <2>1, <2>3, <2>6, <3>1, GotoStep, MeetingEmptyHanded
    <2> QED BY <2>2, <2>5, <2>6
  <1>6. ASSUME NEW r \in Requests, AppointOwner(r) \/ ListRoles(r) \/ Strip(r) \/ Stripped(r)
        PROVE  Meeting'
    <2>1. /\ UNCHANGED <<calm, assigned, groupUsers, groupRoles>>
          /\ requests[r].pc \in {"link", "list", "strip"}
      BY <1>6 DEF AppointOwner, ListRoles, Strip, Stripped, At, tables
    <2>2. calm => requests[r].kind # "deleteTenant"
      BY <2>1 DEF Meeting, CalmOK
    <2>3. /\ requests'[r].pc # "roles"
          /\ requests'[r].kind \in {requests[r].kind, "emptyGroup", "none"}
          /\ \A q \in Requests \ {r} : requests'[q] = requests[q]
      <3>1. CASE AppointOwner(r) \/ ListRoles(r)
        BY <3>1 DEF AppointOwner, ListRoles, Shape, TypeOK, Request
      <3>2. CASE Strip(r)
        BY <3>2 DEF Strip, Missing, At, Shape, TypeOK, Request
      <3>3. CASE Stripped(r)
        <4>1. CASE Kind(r) = "deleteGroup"
          BY <3>3, <4>1 DEF Stripped, Shape, TypeOK, Request
        <4>2. Kind(r) # "deleteGroup" => Goto(r, "unlink") \/ Goto(r, "row") \/ End(r)
          BY <3>3 DEF Stripped
        <4>3. Idle.pc = "idle" /\ Idle.kind = "none"
          BY DEF Idle
        <4>4. CASE End(r)
          BY <4>3, <4>4, EndIdle
        <4>5. ASSUME NEW step \in {"unlink", "row"}, Goto(r, step)
              PROVE  /\ requests'[r].pc # "roles"
                     /\ requests'[r].kind \in {requests[r].kind, "emptyGroup", "none"}
                     /\ \A q \in Requests \ {r} : requests'[q] = requests[q]
          BY <4>5, GotoStep
        <4> QED BY <4>1, <4>2, <4>4, <4>5
      <3> QED BY <1>6, <3>1, <3>2, <3>3
    <2>4. calm => CalmOK(requests'[r])
      BY <2>2, <2>3 DEF CalmOK
    <2> QED BY <2>1, <2>3, <2>4, MeetingEmptyHanded
  <1>7. ASSUME NEW r \in Requests, ReadOthers(r) PROVE Meeting'
    <2>1. /\ requests[r] \in Request /\ requests[r].pc \in {"join", "leave"}
          /\ UNCHANGED <<calm, assigned, groupUsers, groupRoles>>
      BY <1>7 DEF ReadOthers, At, Shape, TypeOK, tables
    <2>2. /\ requests'[r].pc = IF requests[r].pc = "join" THEN "grant" ELSE "strip"
          /\ requests'[r].kind = requests[r].kind
          /\ requests[r].pc = "join" => requests'[r].grants = Affected(r)
          /\ \A q \in Requests \ {r} : requests'[q] = requests[q]
      BY <1>7, <2>1 DEF ReadOthers, At, Shape, TypeOK, Request
    <2>3. calm => CalmOK(requests'[r])
      BY <2>1, <2>2 DEF Meeting, CalmOK
    <2>4. ASSUME NEW g \in Groups, NEW u \in UsersOf(g), NEW x \in GroupRolesOf(g),
                 Brings(requests[r], g, u, x)
          PROVE  Brings(requests'[r], g, u, x)
      <3>1. requests[r].pc = "join" /\ requests[r].group = g
            /\ (u \in requests[r].done \/ x \in requests[r].done)
        BY <2>1, <2>4 DEF Brings
      <3>2. requests[r].kind \in ByGroup
        BY <3>1 DEF Shape, ShapeOK, ByGroup
      <3>3. u \in Users /\ x \in Roles
        BY <2>4 DEF UsersOf, GroupRolesOf
      <3>4. <<u, x>> \in Affected(r)
        BY <2>4, <3>1, <3>3 DEF Affected
      <3> QED BY <2>2, <3>1, <3>2, <3>4 DEF Brings
    <2> QED BY <2>1, <2>2, <2>3, <2>4, MeetingKept
  <1>8. ASSUME (\E role \in Roles : CreateRole(role)) \/ (\E g \in Groups : CreateGroup(g))
        PROVE  Meeting'
    BY <1>8, MeetingKept DEF CreateRole, CreateGroup
  <1>9. CASE UNCHANGED vars
    BY <1>9, MeetingKept DEF vars, tables
  <1> QED BY <1>2, <1>3, <1>4, <1>5, <1>6, <1>7, <1>8, <1>9, <1>10, JoinMeets, GrantMeets
       DEF Next, Continue, Create

LEMMA InitMeeting == Init => Meeting
  BY DEF Init, Meeting, Reaching, UsersOf, GroupRolesOf, CalmOK, Idle

\* As long as nothing is taken away or renamed and nothing fails, every user of a group
\* has its roles once all requests have ended, whatever was added at once.
THEOREM GroupsReach == Spec => []GrantsReach
  <1>1. Shape /\ Meeting => GrantsReach
    <2> SUFFICES ASSUME Shape, Meeting, calm, \A r \in Requests : At(r, "idle"),
                        NEW g \in groups, NEW u \in UsersOf(g), NEW x \in GroupRolesOf(g)
                 PROVE  <<u, x>> \in DOMAIN assigned
      BY DEF GrantsReach
    <2>1. \A r \in Requests : ~Brings(requests[r], g, u, x)
      BY DEF At, Brings
    <2> QED BY <2>1 DEF Meeting, Reaching, Shape, TypeOK
  <1>2. Shape /\ Meeting /\ [Next]_vars => Meeting'
    BY NextMeeting
  <1> QED BY <1>1, <1>2, InitMeeting, ShapeHolds, PTL DEF Spec

=============================================================================
