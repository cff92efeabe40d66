-------------------------------- MODULE Clients --------------------------------
(***************************************************************************)
(* OAuth clients, their secrets, and the applications that own a client.   *)
(*                                                                         *)
(* A change of a client reads the whole row and saves it after further     *)
(* statements; an application and its client are two rows written one      *)
(* after the other, without a transaction.  Each action is the code of a   *)
(* request from one statement to the next:                                 *)
(*                                                                         *)
(*   rotate, update   read | save                                          *)
(*   delete           read | remove                                        *)
(*   createApp        look | client | app | undo                           *)
(*   updateApp        read | name | find | uris | save                     *)
(*   deleteApp        read | app | client                                  *)
(*                                                                         *)
(* save() updates the row with that id or inserts it when there is none.   *)
(* Tick ages the secrets that are to expire, in the tables and in the      *)
(* copies that requests hold.                                              *)
(***************************************************************************)
EXTENDS Naturals

CONSTANTS
    Clients, Apps,   \* ids, each drawn once
    Names,           \* application names; the alias of a client stands for one
    Urls,            \* redirect URIs
    Secrets,         \* secrets, each drawn once
    Requests,
    Overlap,         \* how long a superseded secret is still accepted
    MaxBegun,        \* bound: requests ever begun
    NoName, NoUrl, NoClient, NoApp

ASSUME OverlapIsTime == Overlap \in Nat
ASSUME BegunIsCounted == MaxBegun \in Nat
ASSUME NullsAreNoValues ==
    NoName \notin Names /\ NoUrl \notin Urls /\ NoClient \notin Clients /\ NoApp \notin Apps

\* How long a secret is still valid: without an end, or for the time that is
\* left; 0 is an expired entry of the list, or none.
Open == Overlap + 1
Expiry == 0 .. Open

Row == [secrets : [Secrets -> Expiry],
        public : BOOLEAN,
        uris : SUBSET Urls,
        name : Names \cup {NoName},
        alias : Names \cup {NoName}]

AppRow == [name : Names, url : Urls, client : Clients]

ASSUME NoClientIsNoRow == NoClient \notin Row
ASSUME NoAppIsNoRow == NoApp \notin AppRow

VARIABLES
    clients,    \* table clients
    apps,       \* table apps
    requests,   \* the local variables of each request
    begun,      \* how many requests were begun
    drawn,      \* client ids, application ids and secrets that were drawn
    given,      \* history: the client each secret was handed out for, and the
                \* time for which it was promised to be accepted
    overrun,    \* history: clients whose row a save wrote over a later one
    unsettled,  \* history: clients that were edited by hand, or whose
                \* application has an update that failed, was broken off or
                \* ran over another one
    abandoned   \* history: clients of applications in whose creation or
                \* deletion the server stopped

tables == <<clients, apps>>
history == <<given, overrun, unsettled, abandoned>>
vars == <<tables, requests, begun, drawn, history>>

\* row, appRow: what was read; name, url: what is to be stored; uris: the
\* redirect URIs to be stored.
Request == [op : {"none", "rotate", "update", "delete", "createApp", "updateApp",
                  "deleteApp"},
            pc : {"idle", "save", "remove", "client", "app", "undo", "name", "find",
                  "uris"},
            client : Clients \cup {NoClient},
            row : Row \cup {NoClient},
            app : Apps \cup {NoApp},
            appRow : AppRow \cup {NoApp},
            name : Names \cup {NoName},
            url : Urls \cup {NoUrl},
            uris : SUBSET Urls]

Idle == [op |-> "none", pc |-> "idle", client |-> NoClient, row |-> NoClient,
         app |-> NoApp, appRow |-> NoApp, name |-> NoName, url |-> NoUrl, uris |-> {}]

TypeOK ==
    /\ clients \in [Clients -> Row \cup {NoClient}]
    /\ apps \in [Apps -> AppRow \cup {NoApp}]
    /\ requests \in [Requests -> Request]
    /\ begun \in 0 .. MaxBegun
    /\ drawn \subseteq Clients \cup Apps \cup Secrets
    /\ given \in [Secrets -> [client : Clients \cup {NoClient}, left : Expiry]]
    /\ overrun \subseteq Clients
    /\ unsettled \subseteq Clients
    /\ abandoned \subseteq Clients

Init ==
    /\ clients = [c \in Clients |-> NoClient]
    /\ apps = [a \in Apps |-> NoApp]
    /\ requests = [r \in Requests |-> Idle]
    /\ begun = 0
    /\ drawn = {}
    /\ given = [s \in Secrets |-> [client |-> NoClient, left |-> 0]]
    /\ overrun = {}
    /\ unsettled = {}
    /\ abandoned = {}

-----------------------------------------------------------------------------
Is(r, op, pc) == requests[r].op = op /\ requests[r].pc = pc
To(r, pc) == requests' = [requests EXCEPT ![r].pc = pc]
Answer(r) == requests' = [requests EXCEPT ![r] = Idle]

Begin(r, request) ==
    /\ requests[r].pc = "idle"
    /\ begun < MaxBegun
    /\ begun' = begun + 1
    /\ requests' = [requests EXCEPT ![r] = request]
    /\ UNCHANGED <<tables, history>>

Working(ops) == {r \in Requests : requests[r].op \in ops}

Aliased(n) == {c \in Clients : clients[c] # NoClient /\ clients[c].alias = n}
Named(n) == {a \in Apps : apps[a] # NoApp /\ apps[a].name = n}
AppsOf(c) == {a \in Apps : apps[a] # NoApp /\ apps[a].client = c}

NoSecrets == [s \in Secrets |-> 0]

\* validateClientSecret: a public client needs no secret.
Accepts(row, s) == row.public \/ row.secrets[s] # 0

\* Faulty form: the expiry of every earlier secret is set anew.
RenewAll(secrets, s) ==
    [x \in Secrets |-> IF x = s THEN Open
                       ELSE IF secrets[x] = 0 THEN 0 ELSE Overlap]

\* rotateSecret: a drawn secret is added; those without an expiry get one.
WithSecret(secrets, s) ==
    [x \in Secrets |-> IF x = s THEN Open
                       ELSE IF secrets[x] = Open THEN Overlap ELSE secrets[x]]

\* What the caller who is given secret s of client c may rely on.
Given(c, s) ==
    [x \in Secrets |->
        IF x = s THEN [client |-> c, left |-> Open]
        ELSE IF given[x] = [client |-> c, left |-> Open]
             THEN [client |-> c, left |-> Overlap]
             ELSE given[x]]

-----------------------------------------------------------------------------
(* The clients of a tenant; a public one has no secret, like those of the  *)
(* applications below                                                      *)

CreateClient(r, c, s, u) ==
    /\ requests[r].pc = "idle"
    /\ begun < MaxBegun
    /\ begun' = begun + 1
    /\ {c, s} \cap drawn = {}
    /\ clients' = [clients EXCEPT ![c] =
          [secrets |-> [NoSecrets EXCEPT ![s] = Open], public |-> FALSE,
           uris |-> {u}, name |-> NoName, alias |-> NoName]]
    /\ drawn' = drawn \cup {c, s}
    /\ given' = Given(c, s)
    /\ UNCHANGED <<apps, requests, overrun, unsettled, abandoned>>

\* findByClientId reads the whole row.
Read(r, op, c, uris) ==
    /\ clients[c] # NoClient
    /\ Begin(r, [Idle EXCEPT !.op = op, !.client = c, !.row = clients[c],
                             !.uris = uris,
                             !.pc = IF op = "delete" THEN "remove" ELSE "save"])
    /\ UNCHANGED drawn

SaveClient(c, old, new) ==
    /\ clients' = [clients EXCEPT ![c] = new]
    /\ overrun' = IF clients[c] = old THEN overrun ELSE overrun \cup {c}

\* rotateSecret; a public client becomes a confidential one.
Rotate(r, s) ==
    /\ Is(r, "rotate", "save")
    /\ s \notin drawn
    /\ LET c == requests[r].client
           old == requests[r].row
       IN  /\ SaveClient(c, old, [old EXCEPT !.public = FALSE,
                                             !.secrets = WithSecret(old.secrets, s)])
           /\ given' = Given(c, s)
    /\ drawn' = drawn \cup {s}
    /\ Answer(r)
    /\ UNCHANGED <<apps, begun, unsettled, abandoned>>

\* updateClient replaces the redirect URIs, also those of an application.
Update(r) ==
    /\ Is(r, "update", "save")
    /\ LET c == requests[r].client
           old == requests[r].row
       IN  /\ SaveClient(c, old, [old EXCEPT !.uris = requests[r].uris])
           /\ unsettled' = unsettled \cup {c}
    /\ Answer(r)
    /\ UNCHANGED <<apps, begun, drawn, given, abandoned>>

\* deleteClient and deleteAppClient: the client of an application stays, by
\* the check of the former or by the foreign key.
Removed(c) ==
    clients' = IF AppsOf(c) = {} THEN [clients EXCEPT ![c] = NoClient] ELSE clients

Delete(r) ==
    /\ Is(r, "delete", "remove")
    /\ Removed(requests[r].client)
    /\ Answer(r)
    /\ UNCHANGED <<apps, begun, drawn, history>>

-----------------------------------------------------------------------------
(* createApp                                                               *)

\* The alias is looked up before anything is stored.
BeginCreateApp(r, a, c, n, u) ==
    /\ {a, c} \cap drawn = {}
    /\ Aliased(n) = {}
    /\ drawn' = drawn \cup {a, c}
    /\ Begin(r, [Idle EXCEPT !.op = "createApp", !.pc = "client", !.client = c,
                             !.app = a, !.name = n, !.url = u])

\* createAppClient: the alias is unique.
CreateAppClient(r) ==
    /\ Is(r, "createApp", "client")
    /\ LET q == requests[r] IN
          IF Aliased(q.name) # {}
          THEN Answer(r) /\ UNCHANGED clients
          ELSE /\ clients' = [clients EXCEPT ![q.client] =
                     [secrets |-> NoSecrets, public |-> TRUE, uris |-> {q.url},
                      name |-> q.name, alias |-> q.name]]
               /\ To(r, "app")
    /\ UNCHANGED <<apps, begun, drawn, history>>

\* An application with that name may exist: names change, aliases do not.
Storable(a, row) == Named(row.name) \subseteq {a} /\ clients[row.client] # NoClient

CreateApp(r) ==
    /\ Is(r, "createApp", "app")
    /\ LET q == requests[r]
           row == [name |-> q.name, url |-> q.url, client |-> q.client]
       IN  IF Storable(q.app, row)
           THEN apps' = [apps EXCEPT ![q.app] = row] /\ Answer(r)
           ELSE To(r, "undo") /\ UNCHANGED apps
    /\ UNCHANGED <<clients, begun, drawn, history>>

\* Faulty form: the error is thrown on without the compensating action.
UndoNothing(r) ==
    /\ Is(r, "createApp", "undo")
    /\ Answer(r)
    /\ UNCHANGED <<tables, begun, drawn, history>>

\* The compensating action: the client is deleted.
Undo(r) ==
    /\ Is(r, "createApp", "undo")
    /\ Removed(requests[r].client)
    /\ Answer(r)
    /\ UNCHANGED <<apps, begun, drawn, history>>

-----------------------------------------------------------------------------
(* updateApp; publishApp and an update of simple fields are the update      *)
(* whose name and URL are the present ones.                                *)

\* Faulty form: the URL is not passed on to the client.
FirstUnlessUrl(row, n, u) == IF n # row.name THEN "name" ELSE "save"

First(row, n, u) ==
    IF n # row.name THEN "name" ELSE IF u # row.url THEN "find" ELSE "save"

BeginUpdateApp(r, a, n, u) ==
    /\ apps[a] # NoApp
    /\ Begin(r, [Idle EXCEPT !.op = "updateApp", !.app = a, !.appRow = apps[a],
                             !.client = apps[a].client, !.name = n, !.url = u,
                             !.pc = First(apps[a], n, u)])
    /\ UNCHANGED drawn

\* updateAppClientName; no row is no error.
Rename(r) ==
    /\ Is(r, "updateApp", "name")
    /\ LET q == requests[r] IN
          /\ clients' = IF clients[q.client] = NoClient THEN clients
                        ELSE [clients EXCEPT ![q.client].name = q.name]
          /\ To(r, IF q.url # q.appRow.url THEN "find" ELSE "save")
    /\ UNCHANGED <<apps, begun, drawn, history>>

\* replaceSeededRedirectUri: findOneOrFail, then the column is written.
FindUris(r) ==
    /\ Is(r, "updateApp", "find")
    /\ LET q == requests[r] IN
          IF clients[q.client] = NoClient
          THEN Answer(r)
          ELSE requests' = [requests EXCEPT
                  ![r].pc = "uris",
                  ![r].uris = (clients[q.client].uris \ {q.appRow.url}) \cup {q.url}]
    /\ UNCHANGED <<tables, begun, drawn, history>>

WriteUris(r) ==
    /\ Is(r, "updateApp", "uris")
    /\ LET q == requests[r] IN
          clients' = IF clients[q.client] = NoClient THEN clients
                     ELSE [clients EXCEPT ![q.client].uris = q.uris]
    /\ To(r, "save")
    /\ UNCHANGED <<apps, begun, drawn, history>>

\* The name may be taken: the client keeps what was written.
SaveApp(r) ==
    /\ Is(r, "updateApp", "save")
    /\ LET q == requests[r]
           row == [q.appRow EXCEPT !.name = q.name, !.url = q.url]
       IN  /\ apps' = IF Storable(q.app, row) THEN [apps EXCEPT ![q.app] = row] ELSE apps
           /\ unsettled' = IF /\ Storable(q.app, row)
                              /\ apps[q.app] = q.appRow
                              /\ {x \in Working({"updateApp"}) : requests[x].app = q.app} = {r}
                           THEN unsettled ELSE unsettled \cup {q.client}
    /\ Answer(r)
    /\ UNCHANGED <<clients, begun, drawn, given, overrun, abandoned>>

-----------------------------------------------------------------------------
(* deleteApp of an application without subscriptions                       *)

BeginDeleteApp(r, a) ==
    /\ apps[a] # NoApp
    /\ Begin(r, [Idle EXCEPT !.op = "deleteApp", !.pc = "app", !.app = a,
                             !.client = apps[a].client])
    /\ UNCHANGED drawn

RemoveApp(r) ==
    /\ Is(r, "deleteApp", "app")
    /\ apps' = [apps EXCEPT ![requests[r].app] = NoApp]
    /\ To(r, "client")
    /\ UNCHANGED <<clients, begun, drawn, history>>

RemoveAppClient(r) ==
    /\ Is(r, "deleteApp", "client")
    /\ Removed(requests[r].client)
    /\ Answer(r)
    /\ UNCHANGED <<apps, begun, drawn, history>>

-----------------------------------------------------------------------------
Aged(expiry) == IF expiry \in 1 .. Overlap THEN expiry - 1 ELSE expiry
AgedRow(row) ==
    IF row = NoClient THEN row
    ELSE [row EXCEPT !.secrets = [s \in Secrets |-> Aged(row.secrets[s])]]

Tick ==
    /\ \E s \in Secrets : given[s].left \in 1 .. Overlap
    /\ clients' = [c \in Clients |-> AgedRow(clients[c])]
    /\ requests' = [r \in Requests |-> [requests[r] EXCEPT !.row = AgedRow(@)]]
    /\ given' = [s \in Secrets |-> [given[s] EXCEPT !.left = Aged(@)]]
    /\ UNCHANGED <<apps, begun, drawn, overrun, unsettled, abandoned>>

\* The server stops; what its requests had not stored is lost.
Crash ==
    /\ Working({"createApp", "updateApp", "deleteApp"}) # {}
    /\ requests' = [r \in Requests |-> Idle]
    /\ unsettled' = unsettled \cup {requests[r].client : r \in Working({"updateApp"})}
    /\ abandoned' = abandoned \cup
          {requests[r].client : r \in Working({"createApp", "deleteApp"})}
    /\ UNCHANGED <<tables, begun, drawn, given, overrun>>

OnClients(r) ==
    \/ \E c \in Clients, s \in Secrets, u \in Urls : CreateClient(r, c, s, u)
    \/ \E c \in Clients : Read(r, "rotate", c, {}) \/ Read(r, "delete", c, {})
    \/ \E c \in Clients, u \in Urls : Read(r, "update", c, {u})
    \/ \E s \in Secrets : Rotate(r, s)
    \/ Update(r)
    \/ Delete(r)

OnApps(r) ==
    \/ \E a \in Apps, c \in Clients, n \in Names, u \in Urls : BeginCreateApp(r, a, c, n, u)
    \/ \E a \in Apps, n \in Names, u \in Urls : BeginUpdateApp(r, a, n, u)
    \/ \E a \in Apps : BeginDeleteApp(r, a)
    \/ CreateAppClient(r) \/ CreateApp(r) \/ Undo(r)
    \/ Rename(r) \/ FindUris(r) \/ WriteUris(r) \/ SaveApp(r)
    \/ RemoveApp(r) \/ RemoveAppClient(r)

Next ==
    \/ \E r \in Requests : OnClients(r) \/ OnApps(r)
    \/ Tick
    \/ Crash

Spec == Init /\ [][Next]_vars

-----------------------------------------------------------------------------
\* Secrets that were handed out are accepted until the overlap after the next
\* one has passed, and no longer, also when rotations follow each other within
\* the overlap; unless a save wrote the client over a row that was stored after
\* it was read (then the secret just handed out is lost, or the superseded one
\* is valid for ever: client.service.ts, rotateSecret and updateClient).
SecretsAsHandedOut ==
    \A c \in Clients, s \in Secrets :
        clients[c] # NoClient /\ given[s].client = c /\ c \notin overrun =>
            (Accepts(clients[c], s) <=> given[s].left # 0)

\* An application whose requests all ended well, none of them over a later row,
\* and whose client was not edited by hand, finds its URL among the redirect
\* URIs of its client, and the client carries its name (app.service.ts,
\* updateApp changes the client before the application).
Settled(a) ==
    /\ apps[a] # NoApp
    /\ apps[a].client \notin unsettled \cup overrun
    /\ \A r \in Requests : requests[r].app = a => requests[r].op # "updateApp"

AppCanSignIn ==
    \A a \in Apps : Settled(a) =>
        LET client == clients[apps[a].client] IN
           client # NoClient /\ apps[a].url \in client.uris /\ client.name = apps[a].name

\* A client that was created for an application exists beside it, or while the
\* application is created or deleted; afterwards only when the server stopped in
\* that, or a save brought a deleted client back.  A stray one would hold its
\* alias, and no application of that name could be created again.
NoStrayClients ==
    \A c \in Clients : clients[c] # NoClient /\ clients[c].alias # NoName =>
        \/ AppsOf(c) # {}
        \/ \E r \in Working({"createApp", "deleteApp"}) : requests[r].client = c
        \/ c \in overrun \cup abandoned
=============================================================================
