----------------------------- MODULE ConsoleCalls -----------------------------
(***************************************************************************)
(* What the console asks of the server, and the dialogs it asks it from.   *)
(* Of a service's method only the kinds of data it changes, or returns,    *)
(* are kept; of a dialog, what its submission changes, what success and    *)
(* failure do to it, and in which other ways it can be left.               *)
(***************************************************************************)

Kinds == {"tenant", "member", "role", "app", "subscription", "client", "secret",
          "group", "groupUser", "groupRole", "key", "user", "memberRole", "policy"}

(***************************************************************************)
(* The services: method |-> the kinds of data it changes or returns        *)
(***************************************************************************)
\* A new tenant has a key, which the list of tenants counts; what else is made
\* with it, or goes with it, no page shows that makes or deletes tenants.
TenantService ==
    [createTenant |-> {"tenant", "key"}, editTenant |-> {"tenant"}, deleteTenant |-> {"tenant"},
     getTenantDetails |-> {"tenant"}, getTenantCredentials |-> {"key"},
     getMembers |-> {"member"}, addMember |-> {"member"}, removeMember |-> {"member", "memberRole"},
     getTenantRoles |-> {"role"}, createRole |-> {"role"}, deleteRole |-> {"role", "memberRole"}]

MemberRoleService ==
    [getMemberDetails |-> {"memberRole"}, replaceRoles |-> {"memberRole"},
     addRolesToMember |-> {"memberRole"}, removeRolesFromMember |-> {"memberRole"}]

AdminTenantService ==
    [getTenantDetails |-> {"tenant"}, updateTenant |-> {"tenant"}, deleteTenant |-> {"tenant"},
     getTenantCredentials |-> {"key"}, getMembers |-> {"member"}, getMemberDetails |-> {"user"},
     getMemberRoles |-> {"memberRole"}, setMemberRoles |-> {"memberRole"},
     getTenantRoles |-> {"role"}, createRole |-> {"role"}, deleteRole |-> {"role", "memberRole"}]

AdminTenantParts ==
    [getGroups |-> {"group"}, getClients |-> {"client"}, getCreatedApps |-> {"app"},
     getSubscriptions |-> {"subscription"}, addMember |-> {"member"},
     removeMember |-> {"member", "memberRole"}, getKeys |-> {"key"}, rotateKeys |-> {"key"},
     getAllKeys |-> {"key"}, getAllTenants |-> {"key"}, createTenant |-> {"tenant", "key"},
     createDataModel |-> {"tenant"}]

AppService ==
    [createApp |-> {"app", "client"}, updateApp |-> {"app", "client"},
     deleteApp |-> {"app", "client"}, getAppCreatedByTenantId |-> {"app"},
     publishApp |-> {"app"}, testWebhook |-> {}, createDataModel |-> {"app"}]

SubscriptionService ==
    [subscribeToApp |-> {"subscription"}, unsubscribeFromApp |-> {"subscription"},
     getTenantSubscription |-> {"subscription"}]

\* A client's secret is shown when it is made and on no page afterwards.
ClientService ==
    [createClient |-> {"client"}, getClient |-> {"client"}, getClientsByTenant |-> {"client"},
     updateClient |-> {"client"}, rotateSecret |-> {"secret"}, deleteClient |-> {"client"}]

GroupService ==
    [getGroupsByTenant |-> {"group"}, createGroup |-> {"group"}, updateGroup |-> {"group"},
     deleteGroup |-> {"group"}, getGroupDetail |-> {"group", "groupUser", "groupRole"},
     addUser |-> {"groupUser"}, removeUser |-> {"groupUser"}, addRoles |-> {"groupRole"},
     removeRoles |-> {"groupRole"}, createDataModel |-> {"group"}]

RoleService ==
    [updateRole |-> {"role"}, getRoleDetails |-> {"role", "memberRole"},
     createDataModel |-> {"role"}]

PolicyService ==
    [createAuthorization |-> {"policy"}, getRoleAuthorizations |-> {"policy"},
     updateAuthorization |-> {"policy"}, deleteAuthorization |-> {"policy"}]

UserService ==
    [createUser |-> {"user"}, editUser |-> {"user"}, deleteUser |-> {"user", "member"},
     getUser |-> {"user"}, getUserTenants |-> {"member"}, verifyUser |-> {"user"},
     changeUserPassword |-> {}, lockUser |-> {"user"}, unlockUser |-> {"user"},
     createDataModel |-> {"user"}]

(***************************************************************************)
(* The dialogs                                                             *)
(***************************************************************************)
\* done: an accepted submission closes the dialog with the answer, or leaves it
\* open showing what was made.  fails: a refused one leaves the form open with a
\* message, dismisses it (the promise of open() rejects and the page's handler
\* ends there), or closes it like success.  leaves: the ways out without
\* submitting; activeModal.close() is one of them and counts as success.
Dialog(kinds, done, fails, leaves) ==
    [kinds |-> kinds, done |-> done, fails |-> fails, leaves |-> leaves]

\* The cross of every dialog: ModalService reports it as USER_CLOSED.
Cross == "cross"

CreateApp == Dialog(AppService.createApp, "stays", "dismisses", {"ok", Cross})

UpdateApp == Dialog(AppService.updateApp, "closes", "dismisses", {"ok", Cross})

TestWebhook == Dialog(AppService.testWebhook, "stays", "stays", {"ok", Cross})

CreateClient == Dialog(ClientService.createClient, "closes", "stays", {"ok", Cross})

EditClient == Dialog(ClientService.updateClient, "closes", "stays", {"dismiss", Cross})

CreateSubscription == Dialog(SubscriptionService.subscribeToApp, "closes", "closes", {"ok", Cross})

\* A form submitted unchanged closes as if it had been saved.
UpdateTenant == Dialog(TenantService.editTenant, "closes", "stays", {"ok", Cross})

AddMember == Dialog(TenantService.addMember, "closes", "stays", {Cross})

AddRole == Dialog(TenantService.createRole, "closes", "stays", {Cross})

CreateGroup == Dialog(GroupService.createGroup, "closes", "stays", {Cross})

UpdateGroup == Dialog(GroupService.updateGroup, "closes", "stays", {Cross})

UpdateRole == Dialog(RoleService.updateRole, "closes", "stays", {"dismiss", Cross})

CreatePolicy == Dialog(PolicyService.createAuthorization, "closes", "stays", {"dismiss", Cross})

UpdatePolicy == Dialog(PolicyService.updateAuthorization, "closes", "stays", {"dismiss", Cross})

\* The administrator's dialogs, where they are files of their own.
AdminCreateApp == Dialog(AppService.createApp, "closes", "dismisses", {"ok", Cross})

CreateAppAdmin == Dialog(AppService.createApp, "stays", "dismisses", {"ok", Cross})

AdminUpdateApp == Dialog(AppService.updateApp, "closes", "dismisses", {"ok", Cross})

TestWebhookAdmin == Dialog(AppService.testWebhook, "stays", "stays", {"ok", Cross})

CreateClientAdmin == Dialog(ClientService.createClient, "closes", "stays", {"ok", Cross})

EditClientAdmin == Dialog(ClientService.updateClient, "closes", "stays", {"dismiss", Cross})

CreateTenant == Dialog(AdminTenantParts.createTenant, "closes", "stays", {Cross})

AdminUpdateTenant == Dialog(AdminTenantService.updateTenant, "closes", "stays", {"ok", Cross})

UpdateTenantAdmin == Dialog(AdminTenantService.updateTenant, "closes", "stays", {"ok", Cross})

AddMemberAdmin == Dialog(AdminTenantParts.addMember, "closes", "stays", {Cross})

AddRoleAdmin == Dialog(AdminTenantService.createRole, "closes", "stays", {Cross})

AdminCreateGroup == Dialog(GroupService.createGroup, "closes", "stays", {Cross})

AdminUpdateGroup == Dialog(GroupService.updateGroup, "closes", "stays", {Cross})

AdminUpdateRole == Dialog(RoleService.updateRole, "closes", "stays", {"dismiss", Cross})

CreateUser == Dialog(UserService.createUser, "closes", "stays", {Cross})

EditUser == Dialog(UserService.editUser, "closes", "stays", {Cross})

ChangePassword == Dialog(UserService.changeUserPassword, "closes", "stays", {Cross})
=============================================================================
