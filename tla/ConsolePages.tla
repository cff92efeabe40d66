----------------------------- MODULE ConsolePages -----------------------------
(***************************************************************************)
(* The pages of the console: for each the requests it loads its data with, *)
(* the acts its buttons offer, by the name of their handler, and what that *)
(* does afterwards, and the pages it links to.  Pages of the same name in  *)
(* the tenant's and in the administrator's area are told apart by the A of *)
(* their components.                                                       *)
(***************************************************************************)
EXTENDS ConsoleCalls, Sequences

(***************************************************************************)
(* What a handler does once its act is done                                *)
(***************************************************************************)
After(do, kinds, to) == [do |-> do, kinds |-> kinds, to |-> to]

Reload      == After("reload", {}, "")      \* loads the whole page again
Part(kinds) == After("part", kinds, "")     \* loads a part of it, quietly
Keep(kinds) == After("keep", kinds, "")     \* shows the data of the answer
Rows        == After("rows", {}, "")        \* refreshes the table
Nothing     == After("none", {}, "")
Go(to)      == After("go", {}, to)          \* navigates to another page
Back        == After("back", {}, "")        \* the browser's way back

(***************************************************************************)
(* Acts                                                                    *)
(***************************************************************************)
\* way: a form that waits for the answer, a value help that closes when its
\* choice is confirmed, or a call sent once a question is answered with yes.
\* also: the other outcomes after which the handler goes on as after success.
\* many: one request per chosen row.  spoils: the data the act's value help puts
\* other rows over.  gated: for tenant administrators.
Form(d, after) ==
    [way |-> "form", kinds |-> d.kinds, done |-> d.done, fails |-> d.fails,
     leaves |-> d.leaves, after |-> after, also |-> {}, many |-> FALSE,
     spoils |-> {}, gated |-> FALSE]

\* Opened without ModalService: 'Cross click' is a result like any other.
Raw(d, after) ==
    [Form(d, after) EXCEPT !.leaves = (@ \ {Cross}) \cup {"ok"}]

Call(kinds, after) ==
    [way |-> "call", kinds |-> kinds, done |-> "closes", fails |-> "stays",
     leaves |-> {}, after |-> after, also |-> {}, many |-> FALSE,
     spoils |-> {}, gated |-> FALSE]

Also(act, outcomes) == [act EXCEPT !.also = outcomes]

ForEach(act) == [act EXCEPT !.many = TRUE]

\* Opened as a value help whose table is the one the page shows.
Spoils(act, kinds) == [act EXCEPT !.way = "help", !.spoils = kinds, !.leaves = {"dismiss"}]

\* The acts of a record handler |-> act, for everyone or for administrators.
All(acts)   == {acts[h] : h \in DOMAIN acts}
Gated(acts) == {[a EXCEPT !.gated = TRUE] : a \in All(acts)}

NoActs == {}

(***************************************************************************)
(* Pages                                                                   *)
(***************************************************************************)
\* loads: the requests of the first load, one after the other.  late: tables are
\* filled when the last has answered.  hides: nothing can be clicked while it
\* loads.  sticks: the data without which the page stays in that state.
\* swallows: a failed request does not keep the next from being sent.  rows: the
\* data of the table of a list page, which loads by itself.
Page(loads, acts, links) ==
    [loads |-> loads, acts |-> acts, links |-> links, late |-> FALSE, hides |-> TRUE,
     sticks |-> {}, swallows |-> FALSE, rows |-> {}, unshown |-> {}]

NoLinks == {}

ListPage(kinds, acts, links) ==
    [Page(<<>>, acts, links) EXCEPT !.rows = kinds, !.hides = FALSE]

(***************************************************************************)
(* The tenant's own area                                                   *)
(***************************************************************************)
Home == Page(<<>>, NoActs, {"TN02"})

TN02Loads ==
    <<TenantService.getTenantCredentials, TenantService.getTenantDetails,
      TenantService.getMembers, TenantService.getTenantRoles,
      AppService.getAppCreatedByTenantId, SubscriptionService.getTenantSubscription,
      ClientService.getClientsByTenant, GroupService.getGroupsByTenant>>

TN02MemberActs ==
    [onUpdateTenant |-> Form(UpdateTenant, Reload),
     onAddMember    |-> Form(AddMember, Reload),
     onAddRole      |-> Form(AddRole, Reload),
     onRemoveRole   |-> Call(TenantService.deleteRole, Reload),
     removeMember   |-> Call(TenantService.removeMember, Reload),
     onDeleteTenant |-> Call(TenantService.deleteTenant, Back)]

TN02AppActs ==
    [onAddApp             |-> Form(CreateApp, Reload),
     onUpdateApp          |-> Form(UpdateApp, Reload),
     onDeleteApp          |-> Call(AppService.deleteApp, Reload),
     onTestWebhook        |-> Form(TestWebhook, Nothing),
     onCreateSubscription |-> Form(CreateSubscription, Reload),
     onUnsubscribe        |-> Call(SubscriptionService.unsubscribeFromApp, Reload),
     onPublishApp         |-> Call(AppService.publishApp, Reload)]

TN02ClientActs ==
    [onCreateClient |-> Form(CreateClient, Reload),
     onDeleteClient |-> Call(ClientService.deleteClient, Reload),
     onCreateGroup  |-> Form(CreateGroup, Reload),
     onDeleteGroup  |-> Call(GroupService.deleteGroup, Reload)]

\* The tabs of the page: every button is disabled unless isTenantAdmin.
TN02MemberTabs == Gated(TN02MemberActs)
TN02AppTabs    == Gated(TN02AppActs)
TN02ClientTabs == Gated(TN02ClientActs)

TN02 == [Page(TN02Loads, TN02MemberTabs \cup TN02AppTabs \cup TN02ClientTabs,
              {"TNRL01", "RL02", "CL02", "GP02"}) EXCEPT !.late = TRUE]

CL02Acts ==
    [onEditClient   |-> Form(EditClient, Keep({"client"})),
     onRotateSecret |-> Call(ClientService.rotateSecret, Keep({"client"})),
     onDeleteClient |-> Call(ClientService.deleteClient, Go("TN02"))]

CL02 == Page(<<ClientService.getClient>>, Gated(CL02Acts), NoLinks)

GP02Acts ==
    Gated([onUpdateGroup |-> Form(UpdateGroup, Reload),
           onDeleteGroup |-> Call(GroupService.deleteGroup, Go("TN02")),
           onRemoveUser  |-> Call(GroupService.removeUser, Reload),
           onRemoveRole  |-> Call(GroupService.removeRoles, Reload)])
    \cup All([onAddUsers |-> Call(GroupService.addUser, Reload),
              onAddRoles |-> Call(GroupService.addRoles, Reload)])

GP02 == Page(<<GroupService.getGroupDetail, TenantService.getMembers,
               TenantService.getTenantRoles>>, GP02Acts, {"RL02"})

RL02RoleActs ==
    [onUpdateRole |-> Form(UpdateRole, Keep({"role"})),
     onDeleteRole |-> Call(TenantService.deleteRole, Go("ERROR"))]

RL02UserActs ==
    [onUserRemove  |-> Also(Call(MemberRoleService.removeRolesFromMember, Reload), {"no"}),
     onUserVhClose |-> Spoils(ForEach(Call(MemberRoleService.addRolesToMember,
                                           Part({"memberRole"}))), {"memberRole"})]

RL02PolicyActs ==
    [openCreatePolicyModal |-> Form(CreatePolicy, Part({"policy"})),
     openUpdatePolicyModal |-> Form(UpdatePolicy, Part({"policy"})),
     onPolicyRemove        |-> Call(PolicyService.deleteAuthorization, Part({"policy"})),
     onAppVhClose          |-> ForEach(Call(RoleService.updateRole, Part({"role"})))]

\* No button of this page asks whether the user is a tenant administrator.
RL02Tabs == All(RL02RoleActs) \cup All(RL02UserActs) \cup All(RL02PolicyActs)

RL02 == [Page(<<RoleService.getRoleDetails, PolicyService.getRoleAuthorizations>>,
              RL02Tabs, NoLinks) EXCEPT !.sticks = {"role"}, !.swallows = TRUE]

TNRL01Acts ==
    [onAddRoles         |-> Call(MemberRoleService.addRolesToMember, Part({"memberRole"})),
     onRemoveAssignment |-> Call(MemberRoleService.removeRolesFromMember, Part({"memberRole"}))]

TNRL01 == [Page(<<TenantService.getTenantDetails, UserService.getUser,
                  MemberRoleService.getMemberDetails>>, All(TNRL01Acts), {"RL02"})
           EXCEPT !.sticks = {"memberRole"}]

(***************************************************************************)
(* The administrator's area                                                *)
(***************************************************************************)
AdminHome == Page(<<>>, NoActs,
                  {"TN01A", "TN02AS", "TNRL01AS", "UR01A", "UR02AS", "RL01A", "RL02AS",
                   "AP01A", "CL01A", "CL02AS", "KY01A", "GP01A", "GP02AS"})

AP01A == ListPage(AppService.createDataModel,
                  All([openCreateModal |-> Form(CreateAppAdmin, Rows),
                       openUpdateModal |-> Form(AdminUpdateApp, Rows),
                       openDeleteModal |-> Call(AppService.deleteApp, Rows)]), NoLinks)

CL01A == ListPage({"client"},
                  All([openCreateModal |-> Form(CreateClientAdmin, Rows),
                       onRotateSecret  |-> Call(ClientService.rotateSecret, Rows),
                       openDeleteModal |-> Call(ClientService.deleteClient, Rows)]), {"CL02A"})

\* ngOnInit, called after each act of the next three, only sets the title.
GP01A == ListPage(GroupService.createDataModel,
                  All([openCreateModal |-> Raw(AdminCreateGroup, Nothing),
                       openUpdateModal |-> Raw(AdminUpdateGroup, Nothing),
                       openDeleteModal |-> Call(GroupService.deleteGroup, Nothing)]),
                  {"GP02A", "TN02A"})

RL01A == ListPage(RoleService.createDataModel,
                  All([openDeleteModal |-> Call(AdminTenantService.deleteRole, Nothing)]),
                  {"RL02A", "TN02A"})

UR01A == ListPage(UserService.createDataModel,
                  All([openCreateModal |-> Raw(CreateUser, Nothing),
                       openDeleteModal |-> Call(UserService.deleteUser, Nothing)]), {"UR02A"})

\* The column of active keys is filled from one request, sent when the page comes.
TN01AActs ==
    All([openCreateModal |-> Raw(CreateTenant, Rows),
         openUpdateModal |-> Raw(AdminUpdateTenant, Rows),
         openDeleteModal |-> Also(Call(AdminTenantService.deleteTenant, Rows), {"no", "refused"})])

TN01A == [ListPage(AdminTenantParts.createDataModel, TN01AActs, {"TN02A"})
          EXCEPT !.loads = <<AdminTenantParts.getAllTenants>>]

KY01A == [Page(<<AdminTenantParts.getAllKeys>>, NoActs, {"TN02A"}) EXCEPT !.hides = FALSE]

\* The selection pages: a list, and the page of what is chosen in it.
TN02AS   == ListPage(AdminTenantParts.createDataModel, NoActs, {"TN02A"})
CL02AS   == ListPage({"client"}, NoActs, {"CL02A"})
GP02AS   == ListPage(GroupService.createDataModel, NoActs, {"GP02A"})
RL02AS   == ListPage(RoleService.createDataModel, NoActs, {"RL02A"})
UR02AS   == ListPage(UserService.createDataModel, NoActs, {"UR02A"})
TNRL01AS == ListPage(AdminTenantParts.createDataModel, NoActs, {"TNRL01A"})

CL02A == Page(<<ClientService.getClient>>,
              All([onEditClient   |-> Form(EditClientAdmin, Keep({"client"})),
                   onRotateSecret |-> Call(ClientService.rotateSecret, Nothing),
                   onDeleteClient |-> Call(ClientService.deleteClient, Go("CL01A"))]), {"TN02A"})

GP02A == Page(<<GroupService.getGroupDetail, AdminTenantService.getMembers,
                AdminTenantService.getTenantRoles>>,
              All([onUpdateGroup |-> Form(AdminUpdateGroup, Reload),
                   onDeleteGroup |-> Call(GroupService.deleteGroup, Go("GP01A")),
                   onUserRemove  |-> Call(GroupService.removeUser, Reload),
                   onAddUsers    |-> Call(GroupService.addUser, Reload),
                   onAddRoles    |-> Call(GroupService.addRoles, Reload),
                   onRemoveRole  |-> Call(GroupService.removeRoles, Reload)]),
              {"RL02A", "UR02A", "TNRL01A"})

RL02A == Page(<<RoleService.getRoleDetails>>,
              All([onUpdateRole |-> Form(AdminUpdateRole, Reload),
                   onDeleteRole |-> Call(AdminTenantService.deleteRole, Back)]),
              {"TN02A", "UR02A"})

TN02ALoads ==
    <<AdminTenantService.getTenantCredentials, AdminTenantService.getTenantDetails,
      AdminTenantService.getMembers, AdminTenantService.getTenantRoles,
      AdminTenantParts.getCreatedApps, AdminTenantParts.getSubscriptions,
      AdminTenantParts.getClients, AdminTenantParts.getGroups, AdminTenantParts.getKeys>>

TN02AMemberActs ==
    [onRotateKey    |-> Call(AdminTenantParts.rotateKeys, Part({"key"})),
     onUpdateTenant |-> Form(UpdateTenantAdmin, Reload),
     onAddMember    |-> Form(AddMemberAdmin, Reload),
     onAddRole      |-> Form(AddRoleAdmin, Reload),
     onRemoveRole   |-> Call(AdminTenantService.deleteRole, Reload),
     removeMember   |-> Call(AdminTenantParts.removeMember, Reload),
     onDeleteTenant |-> Call(AdminTenantService.deleteTenant, Back)]

TN02AClientActs ==
    [onAddApp       |-> Form(AdminCreateApp, Reload),
     onDeleteApp    |-> Call(AppService.deleteApp, Reload),
     onTestWebhook  |-> Form(TestWebhookAdmin, Nothing),
     onCreateClient |-> Form(CreateClientAdmin, Reload),
     onDeleteClient |-> Call(ClientService.deleteClient, Reload),
     onCreateGroup  |-> Form(AdminCreateGroup, Reload),
     onDeleteGroup  |-> Call(GroupService.deleteGroup, Reload)]

TN02A == [Page(TN02ALoads, All(TN02AMemberActs) \cup All(TN02AClientActs),
               {"TNRL01A", "CL02A", "GP02A"}) EXCEPT !.late = TRUE]

\* The roles are asked for but never shown: the answer is not the array the
\* page expects.
TNRL01A == [Page(<<AdminTenantService.getTenantDetails, AdminTenantService.getMemberDetails,
                   AdminTenantService.getTenantRoles, AdminTenantService.getMemberRoles>>,
                 All([onAddRoles |-> Call(AdminTenantService.setMemberRoles, Part({"memberRole"}))]),
                 {"RL02A"})
            EXCEPT !.sticks = {"memberRole"}, !.unshown = {"memberRole"}]

\* Neither dialog of the user's data is waited for.
UR02A == [Page(<<UserService.getUser, UserService.getUserTenants>>,
               All([openUpdateModal         |-> Raw(EditUser, Nothing),
                    openChangePasswordModal |-> Raw(ChangePassword, Nothing),
                    onDelete     |-> Also(Call(UserService.deleteUser, Back), {"no", "refused"}),
                    onVerifyUser |-> Call(UserService.verifyUser, Reload),
                    onToggleLock |-> Call(UserService.lockUser, Reload)]),
               {"TN02A", "TNRL01A"}) EXCEPT !.hides = FALSE]

ErrorPage == Page(<<>>, NoActs, {"HOME"})

\* The routes of the two areas.
Pages == [HOME |-> Home, TN02 |-> TN02, CL02 |-> CL02, GP02 |-> GP02, RL02 |-> RL02,
          TNRL01 |-> TNRL01, ERROR |-> ErrorPage]

AdminPages ==
    [ADMIN |-> AdminHome, AP01A |-> AP01A, CL01A |-> CL01A, GP01A |-> GP01A, RL01A |-> RL01A,
     UR01A |-> UR01A, TN01A |-> TN01A, KY01A |-> KY01A, TN02AS |-> TN02AS, CL02AS |-> CL02AS,
     GP02AS |-> GP02AS, RL02AS |-> RL02AS, UR02AS |-> UR02AS, TNRL01AS |-> TNRL01AS,
     CL02A |-> CL02A, GP02A |-> GP02A, RL02A |-> RL02A, TN02A |-> TN02A,
     TNRL01A |-> TNRL01A, UR02A |-> UR02A]

OwnArea == DOMAIN Pages

PageNames == OwnArea \cup DOMAIN AdminPages

PageOf(p) == IF p \in OwnArea THEN Pages[p] ELSE AdminPages[p]
=============================================================================
