----------------------------- MODULE Subscriptions -----------------------------
(***************************************************************************)
(* Subscriptions of tenants to applications, and the provisioning of       *)
(* customers by an application.                                            *)
(*                                                                         *)
(* Subscribing and unsubscribing call a web hook of the application between *)
(* two database statements; provisioning writes user, tenant, subscription *)
(* and roles one after the other.  Each action is the code of a request    *)
(* from one statement or call to the next:                                 *)
(*                                                                         *)
(*   subscribe     clear -> create -> call -> finish | fail                *)
(*   unsubscribe   look -> call -> named -> roles -> drop | fail           *)
(*   onboard       find -> user -> tenant -> client -> key -> owner ->     *)
(*                 kinds -> admin -> sub -> roles                          *)
(*                 seek -> sub -> find -> user -> member -> roles          *)
(*   delete        remove                                                  *)
(*                                                                         *)
(* A subscription is an entity with a generated id: save() updates the row *)
(* with that id, or inserts it when there is none; the pair of tenant and  *)
(* application is unique.                                                  *)
(***************************************************************************)
EXTENDS Naturals

CONSTANTS
    Tenants,   \* customers; the owner of the applications is none of them
    Apps,
    Hooked,    \* applications with onboarding enabled and a URL to call
    Users,     \* customers' users
    Requests,
    MaxRows,   \* bound: subscriptions ever created
    NoTenant, NoApp, NoUser, NoSub

ASSUME HookedAreApps == Hooked \subseteq Apps
ASSUME RowsAreCounted == MaxRows \in Nat
ASSUME NullsAreNoValues ==
    /\ NoTenant \notin Tenants
    /\ NoApp \notin Apps
    /\ NoUser \notin Users

RowIds == 1 .. MaxRows
Status == {"pending", "success", "failed"}
Sub == [id : RowIds, status : Status]

ASSUME NoSubIsNoRow == NoSub \notin Sub

VARIABLES
    tenants,   \* rows of table tenants
    parts,     \* what else the creation of each tenant has stored
    apps,      \* rows of table apps
    users,     \* rows of table users
    members,   \* table tenant_members
    roles,     \* table user_roles: members who hold an application's roles
    subs,      \* table subscriptions
    rows,      \* how many subscriptions were created
    requests,  \* the local variables of each request
    acked,     \* history: rows whose onboarding an application with a hook
               \* answered well or asked for itself
    released,  \* history: rows whose offboarding the application answered well
    missed,    \* history: calls of onboardCustomer whose pair lost its row or
               \* roles since they began
    orphans,   \* history: rows whose subscribe call the server stopped in
    unfinished \* history: tenants created without a user, or whose creation
               \* stopped half-way

tables == <<tenants, parts, apps, users, members, roles, subs, rows>>
history == <<acked, released, missed, orphans, unfinished>>
vars == <<tables, requests, history>>

Pairs == Tenants \X Apps

\* What a tenant's creation stores after its row: the default client and a
\* signing key, which signing in needs; the two system roles, one of them given
\* to the owner, which administration needs.
Parts == {"keys", "admin"}

\* row: the subscription the request made or found; outer, outerRow: the
\* application and subscription whose offboarding named this application.
Request == [op : {"none", "subscribe", "unsubscribe", "onboard", "delete"},
            pc : {"idle", "look", "clear", "create", "call", "finish", "fail",
                  "named", "roles", "drop", "seek", "find", "user", "tenant",
                  "client", "key", "owner", "kinds", "admin", "sub", "member", "remove", "ok", "error"},
            tenant : Tenants \cup {NoTenant},
            app : Apps \cup {NoApp},
            user : Users \cup {NoUser},
            fresh : BOOLEAN,
            row : RowIds \cup {0},
            outer : Apps \cup {NoApp},
            outerRow : RowIds \cup {0}]

Idle == [op |-> "none", pc |-> "idle", tenant |-> NoTenant, app |-> NoApp,
         user |-> NoUser, fresh |-> FALSE, row |-> 0,
         outer |-> NoApp, outerRow |-> 0]

TypeOK ==
    /\ tenants \subseteq Tenants
    /\ parts \in [Tenants -> SUBSET Parts]
    /\ apps \subseteq Apps
    /\ users \subseteq Users
    /\ members \subseteq Tenants \X Users
    /\ roles \subseteq Tenants \X Users \X Apps
    /\ subs \in [Pairs -> Sub \cup {NoSub}]
    /\ rows \in 0 .. MaxRows
    /\ requests \in [Requests -> Request]
    /\ acked \subseteq RowIds
    /\ released \subseteq RowIds
    /\ missed \subseteq Requests
    /\ orphans \subseteq RowIds
    /\ unfinished \subseteq Tenants

\* Some customers are tenants already.
Init ==
    /\ tenants \in SUBSET Tenants
    /\ parts = [t \in Tenants |-> IF t \in tenants THEN Parts ELSE {}]
    /\ apps = Apps
    /\ users = {}
    /\ members = {}
    /\ roles = {}
    /\ subs = [p \in Pairs |-> NoSub]
    /\ rows = 0
    /\ requests = [r \in Requests |-> Idle]
    /\ acked = {}
    /\ released = {}
    /\ missed = {}
    /\ orphans = {}
    /\ unfinished = {}

-----------------------------------------------------------------------------
Is(r, op, pc) == requests[r].op = op /\ requests[r].pc = pc
To(r, pc) == requests' = [requests EXCEPT ![r].pc = pc]
Answer(r) == requests' = [requests EXCEPT ![r] = Idle]
PairOf(r) == <<requests[r].tenant, requests[r].app>>
SubOf(r) == subs[PairOf(r)]

Stored(id) == {p \in Pairs : subs[p] # NoSub /\ subs[p].id = id}

\* save() of the request's subscription: update by id, else insert.
Accepts(r) ==
    \/ PairOf(r) \in Stored(requests[r].row)
    \/ SubOf(r) = NoSub /\ requests[r].app \in apps /\ requests[r].tenant \in tenants

SaveAs(r, status) ==
    subs' = [subs EXCEPT ![PairOf(r)] = [id |-> requests[r].row, status |-> status]]

Insertable(p) == subs[p] = NoSub /\ p[1] \in tenants /\ p[2] \in apps

\* delete by id
Without(id) == [p \in Pairs |-> IF p \in Stored(id) THEN NoSub ELSE subs[p]]

\* Pairs that lose their row or their roles in this step, and the note of it.
Losing ==
    {p \in Pairs : subs[p] # NoSub /\ subs'[p] = NoSub}
        \cup {<<g[1], g[3]>> : g \in roles \ roles'}

NoteLoss ==
    missed' = missed \cup
        {r \in Requests : requests[r].op = "onboard" /\ PairOf(r) \in Losing}

-----------------------------------------------------------------------------
(* subscribeApp                                                            *)

\* A pending subscription is an error and a successful one the answer, both
\* without a change; a failed one is deleted first.
BeginSubscribe(r, t, a) ==
    /\ requests[r].pc = "idle"
    /\ t \in tenants /\ a \in apps
    /\ rows < MaxRows
    /\ LET found == subs[<<t, a>>] IN
          /\ found # NoSub => found.status = "failed"
          /\ requests' = [requests EXCEPT ![r] =
                [Idle EXCEPT !.op = "subscribe", !.tenant = t, !.app = a,
                             !.pc = IF found = NoSub THEN "create" ELSE "clear",
                             !.row = IF found = NoSub THEN 0 ELSE found.id]]
    /\ UNCHANGED <<tables, history>>

\* The failed row is deleted by all its columns; the time among them is compared
\* after a conversion that drops digits, so the row may be missed.
Clear(r) ==
    /\ Is(r, "subscribe", "clear")
    /\ subs' \in {Without(requests[r].row), subs}
    /\ requests' = [requests EXCEPT ![r].pc = "create", ![r].row = 0]
    /\ UNCHANGED <<tenants, parts, apps, users, members, roles, rows, acked, released,
                   orphans, unfinished>>
    /\ NoteLoss

\* createPendingSubscription; the unique pair or a foreign key may refuse it,
\* and the handler then tries to store a failed one instead.
CreatePending(r) ==
    /\ Is(r, "subscribe", "create")
    /\ IF Insertable(PairOf(r))
       THEN /\ rows < MaxRows
            /\ rows' = rows + 1
            /\ subs' = [subs EXCEPT ![PairOf(r)] =
                           [id |-> rows + 1, status |-> "pending"]]
            /\ requests' = [requests EXCEPT ![r].pc = "call", ![r].row = rows + 1]
       ELSE /\ To(r, "fail")
            /\ UNCHANGED <<rows, subs>>
    /\ UNCHANGED <<tenants, parts, apps, users, members, roles, history>>

\* Faulty form: the status of the answer is not looked at.
CallOnboardUnchecked(r) ==
    /\ Is(r, "subscribe", "call")
    /\ To(r, "finish")
    /\ UNCHANGED <<tables, history>>

\* The web hook is called.  It may fail before or after the application took
\* note; any further application it names ends in an error, because nested
\* applications are loaded without their owner.
CallOnboard(r) ==
    /\ Is(r, "subscribe", "call")
    /\ \/ /\ requests[r].app \notin Hooked
          /\ To(r, "finish")
          /\ UNCHANGED acked
       \/ /\ requests[r].app \in Hooked
          /\ To(r, "finish")
          /\ acked' = acked \cup {requests[r].row}
       \/ /\ requests[r].app \in Hooked
          /\ To(r, "fail")
          /\ UNCHANGED acked
    /\ UNCHANGED <<tables, released, missed, orphans, unfinished>>

\* Faulty form: the new status is set and not saved.
FinishUnsaved(r) ==
    /\ Is(r, "subscribe", "finish")
    /\ Answer(r)
    /\ UNCHANGED <<tables, history>>

Finish(r) ==
    /\ Is(r, "subscribe", "finish")
    /\ IF Accepts(r)
       THEN SaveAs(r, "success") /\ Answer(r)
       ELSE UNCHANGED subs /\ To(r, "fail")
    /\ UNCHANGED <<tenants, parts, apps, users, members, roles, rows, history>>

\* Faulty form: the error is logged and thrown on.
FailSubscribeUnsaved(r) ==
    /\ Is(r, "subscribe", "fail")
    /\ Answer(r)
    /\ UNCHANGED <<tables, history>>

\* The catch block stores the error: on the request's own row, or on a row of
\* its own when it has none yet.
FailSubscribe(r) ==
    /\ Is(r, "subscribe", "fail")
    /\ Answer(r)
    /\ IF requests[r].row # 0
       THEN /\ IF Accepts(r) THEN SaveAs(r, "failed") ELSE UNCHANGED subs
            /\ UNCHANGED rows
       ELSE IF Insertable(PairOf(r)) /\ rows < MaxRows
       THEN /\ subs' = [subs EXCEPT ![PairOf(r)] =
                           [id |-> rows + 1, status |-> "failed"]]
            /\ rows' = rows + 1
       ELSE UNCHANGED <<subs, rows>>
    /\ UNCHANGED <<tenants, parts, apps, users, members, roles, history>>

-----------------------------------------------------------------------------
(* unsubscribe                                                             *)

BeginUnsubscribe(r, t, a) ==
    /\ requests[r].pc = "idle"
    /\ t \in tenants /\ a \in apps
    /\ requests' = [requests EXCEPT ![r] =
          [Idle EXCEPT !.op = "unsubscribe", !.pc = "look", !.tenant = t, !.app = a]]
    /\ UNCHANGED <<tables, history>>

\* The call for one application is over; a nested one goes back to the outer,
\* which takes the next name or stores the error.
Return(r, pc) ==
    LET q == requests[r] IN
    IF q.outer = NoApp
    THEN Answer(r)
    ELSE requests' = [requests EXCEPT
            ![r] = [q EXCEPT !.app = q.outer, !.row = q.outerRow,
                             !.outer = NoApp, !.outerRow = 0,
                             !.pc = pc]]

\* No subscription and a pending one are answered the same way: nothing done.
\* So is the application that is already being worked on.
LookUnsubscribe(r) ==
    /\ Is(r, "unsubscribe", "look")
    /\ LET found == SubOf(r) IN
          IF \/ found = NoSub
             \/ found.status = "pending"
             \/ requests[r].app = requests[r].outer /\ found.status = "success"
          THEN Return(r, "named")
          ELSE requests' = [requests EXCEPT
                  ![r].pc = IF found.status = "failed" THEN "drop" ELSE "call",
                  ![r].row = found.id]
    /\ UNCHANGED <<tables, history>>

\* Faulty form: an error of the offboarding hook is ignored.
CallOffboardAnyway(r) ==
    /\ Is(r, "unsubscribe", "call")
    /\ To(r, "roles")
    /\ UNCHANGED <<tables, history>>

\* The offboarding hook.  A nested application with a hook fails before it is
\* called, because its owner is not loaded.
CallOffboard(r) ==
    /\ Is(r, "unsubscribe", "call")
    /\ \/ /\ requests[r].app \notin Hooked
          /\ To(r, "roles")
          /\ UNCHANGED released
       \/ /\ requests[r].app \in Hooked
          /\ To(r, "fail")
          /\ UNCHANGED released
       \/ /\ requests[r].app \in Hooked
          /\ requests[r].outer = NoApp
          /\ released' = released \cup {requests[r].row}
          /\ To(r, "named")
    /\ UNCHANGED <<tables, acked, missed, orphans, unfinished>>

\* The answer may name further applications, known or not.
NextNamed(r) ==
    /\ Is(r, "unsubscribe", "named")
    /\ \/ To(r, "roles")
       \/ To(r, "fail")
       \/ \E b \in apps :
             requests' = [requests EXCEPT
                ![r].pc = "look", ![r].app = b, ![r].row = 0,
                ![r].outer = requests[r].app, ![r].outerRow = requests[r].row]
    /\ UNCHANGED <<tables, history>>

\* The roles are those whose app_id is the application's.
DropRoles(r) ==
    /\ Is(r, "unsubscribe", "roles")
    /\ roles' = IF requests[r].app \in apps
                THEN {g \in roles : <<g[1], g[3]>> # PairOf(r)}
                ELSE roles
    /\ To(r, "drop")
    /\ UNCHANGED <<tenants, parts, apps, users, members, subs, rows, acked, released,
                   orphans, unfinished>>
    /\ NoteLoss

DropSub(r) ==
    /\ Is(r, "unsubscribe", "drop")
    /\ subs' = Without(requests[r].row)
    /\ Return(r, "named")
    /\ UNCHANGED <<tenants, parts, apps, users, members, roles, rows, acked, released,
                   orphans, unfinished>>
    /\ NoteLoss

\* The catch block saves the error into the subscription it read.  It was read
\* without tenant and application, so a row deleted since cannot be inserted.
FailUnsubscribe(r) ==
    /\ Is(r, "unsubscribe", "fail")
    /\ IF PairOf(r) \in Stored(requests[r].row)
       THEN SaveAs(r, "success")
       ELSE UNCHANGED subs
    /\ Return(r, "fail")
    /\ UNCHANGED <<tenants, parts, apps, users, members, roles, rows, history>>

-----------------------------------------------------------------------------
(* deleteApp: refused while there are subscriptions; the rest cascades.    *)

BeginDelete(r, a) ==
    /\ requests[r].pc = "idle"
    /\ a \in apps
    /\ \A t \in Tenants : subs[<<t, a>>] = NoSub
    /\ requests' = [requests EXCEPT ![r] =
          [Idle EXCEPT !.op = "delete", !.pc = "remove", !.app = a]]
    /\ UNCHANGED <<tables, history>>

RemoveApp(r) ==
    /\ Is(r, "delete", "remove")
    /\ LET a == requests[r].app IN
          /\ apps' = apps \ {a}
          /\ subs' = [p \in Pairs |-> IF p[2] = a THEN NoSub ELSE subs[p]]
    /\ Answer(r)
    /\ UNCHANGED <<tenants, parts, users, members, roles, rows, acked, released,
                   orphans, unfinished>>
    /\ NoteLoss

-----------------------------------------------------------------------------
(* onboardCustomer                                                         *)

\* It starts with the tenant of the domain.
BeginOnboard(r, t, a, u) ==
    /\ requests[r].pc = "idle"
    /\ a \in apps
    /\ rows < MaxRows
    /\ LET fresh == t \notin tenants IN
          requests' = [requests EXCEPT ![r] =
             [Idle EXCEPT !.op = "onboard", !.tenant = t, !.app = a, !.user = u,
                          !.fresh = fresh,
                          !.pc = IF ~fresh THEN "seek"
                                 ELSE IF u # NoUser THEN "find" ELSE "tenant"]]
    /\ UNCHANGED <<tables, history>>

HasUser(r) == requests[r].user # NoUser

\* Faulty form: a tenant that is subscribed needs nothing more.
SeekAndStop(r) ==
    /\ Is(r, "onboard", "seek")
    /\ To(r, IF SubOf(r) = NoSub THEN "sub" ELSE "ok")
    /\ UNCHANGED <<tables, history>>

\* Any subscription will do, whatever its status.
Seek(r) ==
    /\ Is(r, "onboard", "seek")
    /\ To(r, IF SubOf(r) = NoSub THEN "sub" ELSE IF HasUser(r) THEN "find" ELSE "ok")
    /\ UNCHANGED <<tables, history>>

AfterUser(r) == IF requests[r].fresh THEN "tenant" ELSE "member"

FindUser(r) ==
    /\ Is(r, "onboard", "find")
    /\ To(r, IF requests[r].user \in users THEN AfterUser(r) ELSE "user")
    /\ UNCHANGED <<tables, history>>

CreateUser(r) ==
    /\ Is(r, "onboard", "user")
    /\ LET u == requests[r].user IN
          IF u \in users
          THEN To(r, "error") /\ UNCHANGED users
          ELSE /\ users' = users \cup {u}
               /\ To(r, AfterUser(r))
    /\ UNCHANGED <<tenants, parts, apps, members, roles, subs, rows, history>>

\* Faulty form: the default client and the signing key are forgotten.
CreateTenantUnsigned(r) ==
    /\ Is(r, "onboard", "tenant")
    /\ HasUser(r) /\ requests[r].tenant \notin tenants
    /\ tenants' = tenants \cup {requests[r].tenant}
    /\ To(r, "owner")
    /\ UNCHANGED <<parts, apps, users, members, roles, subs, rows, history>>

\* The domain is unique.  Without a user there is no owner, and the handler
\* stores the row of the tenant and nothing else of it.
CreateTenant(r) ==
    /\ Is(r, "onboard", "tenant")
    /\ LET t == requests[r].tenant IN
          IF t \in tenants
          THEN To(r, "error") /\ UNCHANGED <<tenants, unfinished>>
          ELSE /\ tenants' = tenants \cup {t}
               /\ To(r, IF HasUser(r) THEN "client" ELSE "sub")
               /\ unfinished' = IF HasUser(r) THEN unfinished ELSE unfinished \cup {t}
    /\ UNCHANGED <<parts, apps, users, members, roles, subs, rows,
                   acked, released, missed, orphans>>

\* The rest of the tenant's creation: where each statement leads, and the part
\* that is stored with it.
After == [client |-> "key", key |-> "owner", kinds |-> "admin", admin |-> "sub"]
Completes == [client |-> {}, key |-> {"keys"}, kinds |-> {}, admin |-> {"admin"}]

Furnish(r) ==
    /\ requests[r].op = "onboard"
    /\ \E step \in DOMAIN After :
          /\ requests[r].pc = step
          /\ parts' = [parts EXCEPT ![requests[r].tenant] = @ \cup Completes[step]]
          /\ To(r, After[step])
    /\ UNCHANGED <<tenants, apps, users, members, roles, subs, rows, history>>

Join(r) == members' = members \cup {<<requests[r].tenant, requests[r].user>>}

\* The owner becomes a member.
AddOwner(r) ==
    /\ Is(r, "onboard", "owner")
    /\ Join(r)
    /\ To(r, "kinds")
    /\ UNCHANGED <<tenants, parts, apps, users, roles, subs, rows, history>>

CreateSubscription(r) ==
    /\ Is(r, "onboard", "sub")
    /\ IF Insertable(PairOf(r))
       THEN /\ rows < MaxRows
            /\ rows' = rows + 1
            /\ subs' = [subs EXCEPT ![PairOf(r)] =
                           [id |-> rows + 1, status |-> "success"]]
            /\ acked' = IF requests[r].app \in Hooked THEN acked \cup {rows + 1} ELSE acked
            /\ To(r, IF ~HasUser(r) THEN "ok"
                     ELSE IF requests[r].fresh THEN "roles" ELSE "find")
       ELSE /\ To(r, "error")
            /\ UNCHANGED <<rows, subs, acked>>
    /\ UNCHANGED <<tenants, parts, apps, users, members, roles, released, missed, orphans,
                   unfinished>>

EnsureMember(r) ==
    /\ Is(r, "onboard", "member")
    /\ Join(r)
    /\ To(r, "roles")
    /\ UNCHANGED <<tenants, parts, apps, users, roles, subs, rows, history>>

AssignRoles(r) ==
    /\ Is(r, "onboard", "roles")
    /\ roles' = roles \cup {<<requests[r].tenant, requests[r].user, requests[r].app>>}
    /\ To(r, "ok")
    /\ UNCHANGED <<tenants, parts, apps, users, members, subs, rows, history>>

-----------------------------------------------------------------------------
Answered(r) ==
    /\ requests[r].pc \in {"ok", "error"}
    /\ requests' = [requests EXCEPT ![r] = Idle]
    /\ missed' = missed \ {r}
    /\ UNCHANGED <<tables, acked, released, orphans, unfinished>>

Calling(r) ==
    requests[r].op = "subscribe" /\ requests[r].row # 0 /\ requests[r].pc # "clear"

\* A call that created a tenant and has parts of it yet to store.
Making(r) ==
    /\ requests[r].op = "onboard"
    /\ requests[r].pc \in {"client", "key", "owner", "kinds", "admin"}

Made(calls) == {requests[r].tenant : r \in {s \in calls : Making(s)}}

\* A statement of onboardCustomer fails; nothing is undone.
Break(r) ==
    /\ requests[r].op = "onboard" /\ requests[r].pc \notin {"ok", "error"}
    /\ To(r, "error")
    /\ unfinished' = unfinished \cup Made({r})
    /\ UNCHANGED <<tables, acked, released, missed, orphans>>

\* The server stops; what its requests had not stored is lost.
Crash ==
    /\ \E r \in Requests : requests[r].pc # "idle"
    /\ requests' = [r \in Requests |-> Idle]
    /\ orphans' = orphans \cup {requests[r].row : r \in {q \in Requests : Calling(q)}}
    /\ unfinished' = unfinished \cup Made(Requests)
    /\ missed' = {}
    /\ UNCHANGED <<tables, acked, released>>

Begin(r) ==
    \/ \E t \in Tenants, a \in Apps :
          \/ BeginSubscribe(r, t, a)
          \/ BeginUnsubscribe(r, t, a)
          \/ \E u \in Users \cup {NoUser} : BeginOnboard(r, t, a, u)
    \/ \E a \in Apps : BeginDelete(r, a)

Subscribe(r) ==
    Clear(r) \/ CreatePending(r) \/ CallOnboard(r)
        \/ Finish(r) \/ FailSubscribe(r)

Unsubscribe(r) ==
    LookUnsubscribe(r) \/ CallOffboard(r) \/ NextNamed(r) \/ DropRoles(r) \/ DropSub(r)
        \/ FailUnsubscribe(r)

Onboard(r) ==
    Seek(r) \/ FindUser(r) \/ CreateUser(r) \/ CreateTenant(r)
        \/ Furnish(r) \/ AddOwner(r) \/ CreateSubscription(r) \/ EnsureMember(r) \/ AssignRoles(r)

Work(r) == Subscribe(r) \/ Unsubscribe(r) \/ RemoveApp(r) \/ Onboard(r)

Next ==
    \/ \E r \in Requests : Begin(r) \/ Work(r) \/ Break(r) \/ Answered(r)
    \/ Crash

Spec == Init /\ [][Next]_vars

\* Every call of a hook ends, in an answer or in a timeout of fetch, and the
\* event loop runs every handler on.
FairSpec == Spec /\ \A r \in Requests : WF_vars(Work(r))

-----------------------------------------------------------------------------
Rows(status) == {p \in Pairs : subs[p] # NoSub /\ subs[p].status = status}

\* Pending subscriptions whose call the server did not stop in.
Awaited == {p \in Rows("pending") : subs[p].id \notin orphans}

\* A subscription is pending only while a subscribe call works on that very
\* row: subscribe refuses and unsubscribe ignores a pending one, so a pending
\* one that nobody works on would lock the pair for ever (it does so after a
\* restart).  subscribeApp looks for the row before it stores its own, so this
\* needs the unique pair and the catch block (app-subscription.service.ts).
PendingHasAWorker ==
    \A p \in Awaited : \E r \in Requests :
        Calling(r) /\ PairOf(r) = p /\ requests[r].row = subs[p].id

\* Every pending subscription ends as successful or failed or is removed,
\* because every hook call ends and every path of subscribeApp stores a result.
PendingSettles == \A p \in Pairs : p \in Awaited ~> p \notin Awaited

\* A successful subscription to an application with a hook was acknowledged:
\* the hook answered well for that row, or the application asked for it; also
\* when a late answer of the hook writes a row back that was deleted meanwhile.
SuccessWasAcknowledged ==
    \A p \in Rows("success") : p[2] \in Hooked => subs[p].id \in acked

\* No step takes a successful subscription to an application with a hook away,
\* unless the application was told and answered well, or is deleted itself.
NoSilentLeave ==
    [][\A p \in Rows("success") :
          subs'[p] # subs[p] /\ p[2] \in Hooked \cap apps' =>
              subs[p].id \in released]_vars

\* A provisioning call that was answered leaves user, membership, subscription
\* and roles all stored, also when it repeats a call that stopped half-way or
\* runs against another one; unless the pair lost its row or roles while the call
\* ran.  The tenant is whole, unless its creation stopped, had no user, or is
\* still under way in another call.
RetryCompletes ==
    \A r \in Requests : Is(r, "onboard", "ok") =>
        LET q == requests[r] IN
        /\ \/ parts[q.tenant] = Parts
           \/ q.tenant \in unfinished \cup Made(Requests)
        /\ r \in missed \/ SubOf(r) # NoSub
        /\ HasUser(r) =>
              /\ q.user \in users
              /\ <<q.tenant, q.user>> \in members
              /\ r \in missed \/ <<q.tenant, q.user, q.app>> \in roles

-----------------------------------------------------------------------------
(* What the code's comments and docs say and the code does not keep.       *)

\* The tenant of an answered provisioning call has a client and a signing key,
\* and its owner the role.  It fails: without a user only the row is stored, and
\* a retry takes the row of a creation that stopped for a tenant.
CustomersCanSignIn ==
    \A r \in Requests : Is(r, "onboard", "ok") => parts[requests[r].tenant] = Parts
=============================================================================
