------------------------------ MODULE ClientsProofs ------------------------------
(***************************************************************************)
(* Proofs about Clients, for any clients, applications, secrets and        *)
(* requests, and any overlap.                                              *)
(*                                                                         *)
(* Shape says what a request knows, and Ids that an application and its    *)
(* client belong to each other for good, from the draw of their ids on,    *)
(* whatever is deleted and stored again.  The three properties rest on     *)
(* these two, each with an invariant of its own (Holding, Keeping, Signing).  *)
(***************************************************************************)
EXTENDS Clients, TLAPS

AppOps == {"createApp", "updateApp", "deleteApp"}

LocalOK(q) ==
    /\ q.op \in {"rotate", "update"} => q.client \in Clients /\ q.row \in Row
    /\ q.op = "delete" => q.client \in Clients
    /\ q.op \in AppOps => q.client \in Clients /\ q.app \in Apps
    /\ q.op = "createApp" => q.name \in Names /\ q.url \in Urls
    /\ q.op = "updateApp" => /\ q.appRow \in AppRow /\ q.client = q.appRow.client
                             /\ q.name \in Names /\ q.url \in Urls
    /\ q.app # NoApp => q.op \in AppOps
    /\ q.pc = "idle" => q.op = "none"

Shape ==
    /\ TypeOK
    /\ \A r \in Requests : LocalOK(requests[r])

-----------------------------------------------------------------------------
(* Types.                                                                  *)

LEMMA IdleShape == Idle \in Request /\ LocalOK(Idle) /\ Idle.op = "none"
  BY DEF Idle, Request, LocalOK, AppOps

LEMMA StepShape ==
  ASSUME Shape, NEW r \in Requests, NEW next \in Request, LocalOK(next),
         requests' = [requests EXCEPT ![r] = next]
  PROVE  requests' \in [Requests -> Request] /\ \A q \in Requests : LocalOK(requests'[q])
  BY DEF Shape, TypeOK

LEMMA AnswerShape ==
  ASSUME Shape, NEW r \in Requests, Answer(r)
  PROVE  requests' \in [Requests -> Request] /\ \A q \in Requests : LocalOK(requests'[q])
  BY IdleShape, StepShape DEF Answer

LEMMA ToShape ==
  ASSUME Shape, NEW r \in Requests,
         NEW pc \in {"client", "app", "undo", "name", "find", "uris", "save"}, To(r, pc)
  PROVE  requests' \in [Requests -> Request] /\ \A q \in Requests : LocalOK(requests'[q])
  <1>1. PICK next : next = [requests[r] EXCEPT !.pc = pc]
    OBVIOUS
  <1>2. next \in Request
    BY <1>1 DEF Shape, TypeOK, Request
  <1>3. LocalOK(next)
    BY <1>1 DEF Shape, TypeOK, Request, LocalOK
  <1>4. requests' = [requests EXCEPT ![r] = next]
    BY <1>1 DEF To, Shape, TypeOK
  <1> QED BY <1>2, <1>3, <1>4, StepShape

LEMMA BeginShape ==
  ASSUME Shape, NEW r \in Requests, NEW next \in Request, LocalOK(next), Begin(r, next),
         drawn' \subseteq Clients \cup Apps \cup Secrets
  PROVE  Shape'
  <1>1. requests' \in [Requests -> Request] /\ \A q \in Requests : LocalOK(requests'[q])
    BY StepShape DEF Begin
  <1>2. begun' \in 0 .. MaxBegun
    BY BegunIsCounted DEF Begin, Shape, TypeOK
  <1> QED BY <1>1, <1>2 DEF Begin, tables, history, Shape, TypeOK, LocalOK

LEMMA ReadShape ==
  ASSUME Shape, NEW r \in Requests, NEW op \in {"rotate", "update", "delete"},
         NEW c \in Clients, NEW uris \in SUBSET Urls, Read(r, op, c, uris)
  PROVE  Shape'
  <1>1. PICK next :
           next = [Idle EXCEPT !.op = op, !.client = c, !.row = clients[c], !.uris = uris,
                               !.pc = IF op = "delete" THEN "remove" ELSE "save"]
    OBVIOUS
  <1>2. clients[c] \in Row
    BY DEF Read, Shape, TypeOK
  <1>3. next \in Request
    BY <1>1, <1>2 DEF Idle, Request
  <1>4. LocalOK(next)
    BY <1>1, <1>2 DEF Idle, LocalOK, AppOps
  <1>5. Begin(r, next) /\ drawn' \subseteq Clients \cup Apps \cup Secrets
    BY <1>1 DEF Read, Shape, TypeOK
  <1> QED BY <1>3, <1>4, <1>5, BeginShape

LEMMA BeginAppShape ==
  ASSUME Shape, NEW r \in Requests,
         \/ \E a \in Apps, c \in Clients, n \in Names, u \in Urls : BeginCreateApp(r, a, c, n, u)
         \/ \E a \in Apps, n \in Names, u \in Urls : BeginUpdateApp(r, a, n, u)
         \/ \E a \in Apps : BeginDeleteApp(r, a)
  PROVE  Shape'
  <1>1. ASSUME NEW a \in Apps, NEW c \in Clients, NEW n \in Names, NEW u \in Urls,
               BeginCreateApp(r, a, c, n, u)
        PROVE  Shape'
    <2>1. PICK next : next = [Idle EXCEPT !.op = "createApp", !.pc = "client", !.client = c,
                                          !.app = a, !.name = n, !.url = u]
      OBVIOUS
    <2>2. next \in Request /\ LocalOK(next)
      BY <2>1 DEF Idle, Request, LocalOK, AppOps
    <2>3. Begin(r, next) /\ drawn' \subseteq Clients \cup Apps \cup Secrets
      BY <1>1, <2>1 DEF BeginCreateApp, Shape, TypeOK
    <2> QED BY <2>2, <2>3, BeginShape
  <1>2. ASSUME NEW a \in Apps, NEW n \in Names, NEW u \in Urls, BeginUpdateApp(r, a, n, u)
        PROVE  Shape'
    <2>1. apps[a] \in AppRow /\ apps[a].client \in Clients
      BY <1>2 DEF BeginUpdateApp, Shape, TypeOK, AppRow
    <2>2. PICK next : next = [Idle EXCEPT !.op = "updateApp", !.app = a, !.appRow = apps[a],
                                          !.client = apps[a].client, !.name = n, !.url = u,
                                          !.pc = First(apps[a], n, u)]
      OBVIOUS
    <2>3. First(apps[a], n, u) \in {"name", "find", "save"}
      BY DEF First
    <2>4. next \in Request
      BY <2>1, <2>2, <2>3 DEF Idle, Request
    <2>5. LocalOK(next)
      BY <2>1, <2>2, <2>3 DEF Idle, LocalOK, AppOps
    <2>6. Begin(r, next) /\ drawn' \subseteq Clients \cup Apps \cup Secrets
      BY <1>2, <2>2 DEF BeginUpdateApp, Shape, TypeOK
    <2> QED BY <2>4, <2>5, <2>6, BeginShape
  <1>3. ASSUME NEW a \in Apps, BeginDeleteApp(r, a) PROVE Shape'
    <2>1. apps[a].client \in Clients
      BY <1>3 DEF BeginDeleteApp, Shape, TypeOK, AppRow
    <2>2. PICK next : next = [Idle EXCEPT !.op = "deleteApp", !.pc = "app", !.app = a,
                                          !.client = apps[a].client]
      OBVIOUS
    <2>3. next \in Request /\ LocalOK(next)
      BY <2>1, <2>2 DEF Idle, Request, LocalOK, AppOps
    <2>4. Begin(r, next) /\ drawn' \subseteq Clients \cup Apps \cup Secrets
      BY <1>3, <2>2 DEF BeginDeleteApp, Shape, TypeOK
    <2> QED BY <2>3, <2>4, BeginShape
  <1> QED BY <1>1, <1>2, <1>3

\* Secrets and what was promised about them.
LEMMA SecretTypes ==
  ASSUME NEW c \in Clients, NEW s \in Secrets
  PROVE  /\ [NoSecrets EXCEPT ![s] = Open] \in [Secrets -> Expiry]
         /\ NoSecrets \in [Secrets -> Expiry]
         /\ \A secrets \in [Secrets -> Expiry] : WithSecret(secrets, s) \in [Secrets -> Expiry]
         /\ given \in [Secrets -> [client : Clients \cup {NoClient}, left : Expiry]] =>
               Given(c, s) \in [Secrets -> [client : Clients \cup {NoClient}, left : Expiry]]
  <1>1. Open \in Expiry /\ Overlap \in Expiry /\ 0 \in Expiry
    BY OverlapIsTime DEF Open, Expiry
  <1> QED BY <1>1 DEF NoSecrets, WithSecret, Given

LEMMA AgedTypes ==
  ASSUME NEW row \in Row
  PROVE  /\ AgedRow(row) \in Row /\ AgedRow(row).uris = row.uris /\ AgedRow(row).name = row.name
         /\ AgedRow(row).alias = row.alias /\ AgedRow(row).public = row.public
         /\ \A s \in Secrets : AgedRow(row).secrets[s] = Aged(row.secrets[s])
  <1>1. row # NoClient
    BY NoClientIsNoRow
  <1>2. AgedRow(row) = [row EXCEPT !.secrets = [s \in Secrets |-> Aged(row.secrets[s])]]
    BY <1>1 DEF AgedRow
  <1>3. \A e \in Expiry : Aged(e) \in Expiry
    BY OverlapIsTime DEF Aged, Expiry, Open
  <1>4. [s \in Secrets |-> Aged(row.secrets[s])] \in [Secrets -> Expiry]
    BY <1>3 DEF Row
  <1> QED BY <1>2, <1>4 DEF Row

LEMMA RowTypes ==
  ASSUME NEW row \in Row
  PROVE  /\ \A secrets \in [Secrets -> Expiry] :
               [row EXCEPT !.public = FALSE, !.secrets = secrets] \in Row
         /\ \A uris \in SUBSET Urls : [row EXCEPT !.uris = uris] \in Row
         /\ \A n \in Names : [row EXCEPT !.name = n] \in Row
  BY DEF Row

LEMMA ClientsShape ==
  ASSUME Shape, NEW r \in Requests,
         \/ \E c \in Clients, s \in Secrets, u \in Urls : CreateClient(r, c, s, u)
         \/ \E s \in Secrets : Rotate(r, s)
         \/ Update(r) \/ Delete(r)
  PROVE  Shape'
  <1>1. ASSUME NEW c \in Clients, NEW s \in Secrets, NEW u \in Urls, CreateClient(r, c, s, u)
        PROVE  Shape'
    <2>1. [secrets |-> [NoSecrets EXCEPT ![s] = Open], public |-> FALSE,
           uris |-> {u}, name |-> NoName, alias |-> NoName] \in Row
      BY SecretTypes DEF Row
    <2>2. given' \in [Secrets -> [client : Clients \cup {NoClient}, left : Expiry]]
      BY <1>1, SecretTypes DEF CreateClient, Shape, TypeOK
    <2>3. begun' \in 0 .. MaxBegun
      BY <1>1, BegunIsCounted DEF CreateClient, Shape, TypeOK
    <2> QED BY <1>1, <2>1, <2>2, <2>3 DEF CreateClient, Shape, TypeOK
  <1>2. ASSUME NEW s \in Secrets, Rotate(r, s) PROVE Shape'
    <2>1. requests[r].client \in Clients /\ requests[r].row \in Row
      BY <1>2 DEF Rotate, Is, Shape, LocalOK
    <2>2. requests[r].row.secrets \in [Secrets -> Expiry]
      BY <2>1 DEF Row
    <2>3. [requests[r].row EXCEPT !.public = FALSE,
                                  !.secrets = WithSecret(requests[r].row.secrets, s)] \in Row
      BY <2>1, <2>2, SecretTypes, RowTypes
    <2>4. given' \in [Secrets -> [client : Clients \cup {NoClient}, left : Expiry]]
      BY <1>2, <2>1, SecretTypes DEF Rotate, Shape, TypeOK
    <2>5. requests' \in [Requests -> Request] /\ \A q \in Requests : LocalOK(requests'[q])
      BY <1>2, AnswerShape DEF Rotate
    <2> QED BY <1>2, <2>1, <2>3, <2>4, <2>5 DEF Rotate, SaveClient, Shape, TypeOK
  <1>3. CASE Update(r)
    <2>1. /\ requests[r].client \in Clients /\ requests[r].row \in Row
          /\ requests[r].uris \in SUBSET Urls
      BY <1>3 DEF Update, Is, Shape, LocalOK, TypeOK, Request
    <2>2. [requests[r].row EXCEPT !.uris = requests[r].uris] \in Row
      BY <2>1, RowTypes
    <2>3. requests' \in [Requests -> Request] /\ \A q \in Requests : LocalOK(requests'[q])
      BY <1>3, AnswerShape DEF Update
    <2> QED BY <1>3, <2>1, <2>2, <2>3 DEF Update, SaveClient, Shape, TypeOK
  <1>4. CASE Delete(r)
    <2>1. requests' \in [Requests -> Request] /\ \A q \in Requests : LocalOK(requests'[q])
      BY <1>4, AnswerShape DEF Delete
    <2> QED BY <1>4, <2>1 DEF Delete, Removed, history, Shape, TypeOK
  <1> QED BY <1>1, <1>2, <1>3, <1>4

LEMMA AppsShape ==
  ASSUME Shape, NEW r \in Requests,
         \/ CreateAppClient(r) \/ CreateApp(r) \/ Undo(r)
         \/ Rename(r) \/ FindUris(r) \/ WriteUris(r) \/ SaveApp(r)
         \/ RemoveApp(r) \/ RemoveAppClient(r)
  PROVE  Shape'
  <1> DEFINE q == requests[r]
             Moved == requests' \in [Requests -> Request]
                         /\ \A x \in Requests : LocalOK(requests'[x])
  <1>1. q \in Request /\ LocalOK(q)
    BY DEF Shape, TypeOK
  <1>2. CASE CreateAppClient(r)
    <2>1. q.client \in Clients /\ q.name \in Names /\ q.url \in Urls
      BY <1>1, <1>2 DEF CreateAppClient, Is, LocalOK, AppOps
    <2>2. [secrets |-> NoSecrets, public |-> TRUE, uris |-> {q.url},
           name |-> q.name, alias |-> q.name] \in Row
      <3>1. NoSecrets \in [Secrets -> Expiry]
        BY OverlapIsTime DEF NoSecrets, Expiry, Open
      <3> QED BY <2>1, <3>1 DEF Row
    <2>3. Moved
      BY <1>2, AnswerShape, ToShape DEF CreateAppClient
    <2> QED BY <1>2, <2>1, <2>2, <2>3 DEF CreateAppClient, history, Shape, TypeOK
  <1>3. CASE CreateApp(r)
    <2>1. q.client \in Clients /\ q.app \in Apps /\ q.name \in Names /\ q.url \in Urls
      BY <1>1, <1>3 DEF CreateApp, Is, LocalOK, AppOps
    <2>2. [name |-> q.name, url |-> q.url, client |-> q.client] \in AppRow
      BY <2>1 DEF AppRow
    <2>3. Moved
      BY <1>3, AnswerShape, ToShape DEF CreateApp
    <2> QED BY <1>3, <2>1, <2>2, <2>3 DEF CreateApp, history, Shape, TypeOK
  <1>4. CASE Undo(r) \/ RemoveAppClient(r)
    <2>1. Moved
      BY <1>4, AnswerShape DEF Undo, RemoveAppClient
    <2> QED BY <1>4, <2>1 DEF Undo, RemoveAppClient, Removed, history, Shape, TypeOK
  <1>5. CASE Rename(r)
    <2>1. q.client \in Clients /\ q.name \in Names
      BY <1>1, <1>5 DEF Rename, Is, LocalOK, AppOps
    <2>2. clients[q.client] # NoClient => [clients[q.client] EXCEPT !.name = q.name] \in Row
      BY <2>1, RowTypes DEF Shape, TypeOK
    <2>3. To(r, "find") \/ To(r, "save")
      BY <1>5 DEF Rename
    <2>4. Moved
      BY <2>3, ToShape
    <2> QED BY <1>5, <2>1, <2>2, <2>4 DEF Rename, history, Shape, TypeOK
  <1>6. CASE FindUris(r)
    <2>1. q.client \in Clients /\ q.url \in Urls
      BY <1>1, <1>6 DEF FindUris, Is, LocalOK, AppOps
    <2>2. CASE clients[q.client] = NoClient
      <3>1. Moved
        BY <1>6, <2>2, AnswerShape DEF FindUris
      <3> QED BY <1>6, <3>1 DEF FindUris, tables, history, Shape, TypeOK
    <2>3. CASE clients[q.client] # NoClient
      <3>1. clients[q.client].uris \in SUBSET Urls
        BY <2>1, <2>3 DEF Shape, TypeOK, Row
      <3>2. PICK uris \in SUBSET Urls :
               uris = (clients[q.client].uris \ {q.appRow.url}) \cup {q.url}
        BY <2>1, <3>1
      <3>3. PICK next : next = [q EXCEPT !.pc = "uris", !.uris = uris]
        OBVIOUS
      <3>4. next \in Request /\ LocalOK(next)
        BY <1>1, <3>3 DEF Request, LocalOK
      <3>5. requests' = [requests EXCEPT ![r] = next]
        BY <1>1, <1>6, <2>3, <3>2, <3>3 DEF FindUris, Shape, TypeOK
      <3>6. Moved
        BY <3>4, <3>5, StepShape
      <3> QED BY <1>6, <3>6 DEF FindUris, tables, history, Shape, TypeOK
    <2> QED BY <2>2, <2>3
  <1>7. CASE WriteUris(r)
    <2>1. q.client \in Clients /\ q.uris \in SUBSET Urls
      BY <1>1, <1>7 DEF WriteUris, Is, LocalOK, AppOps, Request
    <2>2. clients[q.client] # NoClient => [clients[q.client] EXCEPT !.uris = q.uris] \in Row
      BY <2>1, RowTypes DEF Shape, TypeOK
    <2>3. Moved
      BY <1>7, ToShape DEF WriteUris
    <2> QED BY <1>7, <2>1, <2>2, <2>3 DEF WriteUris, history, Shape, TypeOK
  <1>8. CASE SaveApp(r)
    <2>1. /\ q.client \in Clients /\ q.app \in Apps /\ q.name \in Names /\ q.url \in Urls
          /\ q.appRow \in AppRow
      BY <1>1, <1>8 DEF SaveApp, Is, LocalOK, AppOps
    <2>2. [q.appRow EXCEPT !.name = q.name, !.url = q.url] \in AppRow
      BY <2>1 DEF AppRow
    <2>3. Moved
      BY <1>8, AnswerShape DEF SaveApp
    <2>4. apps' \in [Apps -> AppRow \cup {NoApp}] /\ unsettled' \subseteq Clients
      BY <1>8, <2>1, <2>2 DEF SaveApp, Shape, TypeOK
    <2> QED BY <1>8, <2>3, <2>4 DEF SaveApp, Shape, TypeOK
  <1>9. CASE RemoveApp(r)
    <2>1. Moved
      BY <1>9, ToShape DEF RemoveApp
    <2> QED BY <1>9, <2>1 DEF RemoveApp, history, Shape, TypeOK
  <1> QED BY <1>2, <1>3, <1>4, <1>5, <1>6, <1>7, <1>8, <1>9

LEMMA TickShape ==
  ASSUME Shape, Tick
  PROVE  Shape'
  <1>1. \A e \in Expiry : Aged(e) \in Expiry
    BY OverlapIsTime DEF Aged, Expiry, Open
  <1>2. given' \in [Secrets -> [client : Clients \cup {NoClient}, left : Expiry]]
    BY <1>1 DEF Tick, Shape, TypeOK
  <1>3. \A row \in Row \cup {NoClient} : AgedRow(row) \in Row \cup {NoClient}
    BY AgedTypes DEF AgedRow
  <1>4. clients' \in [Clients -> Row \cup {NoClient}]
    BY <1>3 DEF Tick, Shape, TypeOK
  <1>5. ASSUME NEW q \in Requests
        PROVE  /\ requests'[q] = [requests[q] EXCEPT !.row = AgedRow(@)]
               /\ requests'[q] \in Request /\ LocalOK(requests'[q])
    <2>1. requests'[q] = [requests[q] EXCEPT !.row = AgedRow(@)]
      BY DEF Tick
    <2>2. requests[q] \in Request /\ LocalOK(requests[q])
      BY DEF Shape, TypeOK
    <2>3. requests'[q] \in Request
      BY <1>3, <2>1, <2>2 DEF Request
    <2>4. requests[q].row \in Row => requests'[q].row \in Row
      BY <2>1, <2>2, AgedTypes DEF Request
    <2> QED BY <2>1, <2>2, <2>3, <2>4 DEF LocalOK, Request
  <1>6. requests' \in [Requests -> Request] /\ \A q \in Requests : LocalOK(requests'[q])
    BY <1>5 DEF Tick
  <1> QED BY <1>2, <1>4, <1>6 DEF Tick, Shape, TypeOK

LEMMA CrashShape ==
  ASSUME Shape, Crash
  PROVE  Shape'
  <1>1. \A r \in Working(AppOps) : requests[r].client \in Clients
    BY DEF Working, AppOps, Shape, LocalOK
  <1>2. unsettled' \subseteq Clients /\ abandoned' \subseteq Clients
    BY <1>1 DEF Crash, Working, AppOps, Shape, TypeOK
  <1>3. requests' \in [Requests -> Request] /\ \A q \in Requests : LocalOK(requests'[q])
    BY IdleShape DEF Crash
  <1> QED BY <1>2, <1>3 DEF Crash, tables, Shape, TypeOK

LEMMA NextShape ==
  ASSUME Shape, [Next]_vars
  PROVE  Shape'
  <1>1. ASSUME NEW r \in Requests, OnClients(r) PROVE Shape'
    <2>1. ASSUME NEW c \in Clients, Read(r, "rotate", c, {}) \/ Read(r, "delete", c, {})
          PROVE  Shape'
      BY <2>1, ReadShape
    <2>2. ASSUME NEW c \in Clients, NEW u \in Urls, Read(r, "update", c, {u}) PROVE Shape'
      BY <2>2, ReadShape
    <2> QED BY <1>1, <2>1, <2>2, ClientsShape DEF OnClients
  <1>2. ASSUME NEW r \in Requests, OnApps(r) PROVE Shape'
    BY <1>2, BeginAppShape, AppsShape DEF OnApps
  <1>3. CASE UNCHANGED vars
    BY <1>3 DEF vars, tables, history, Shape, TypeOK, LocalOK
  <1> QED BY <1>1, <1>2, <1>3, TickShape, CrashShape DEF Next

LEMMA InitShape == Init => Shape
  <1> SUFFICES ASSUME Init PROVE Shape
    OBVIOUS
  <1>1. requests \in [Requests -> Request] /\ \A r \in Requests : LocalOK(requests[r])
    BY IdleShape DEF Init
  <1>2. given \in [Secrets -> [client : Clients \cup {NoClient}, left : Expiry]]
    BY OverlapIsTime DEF Init, Expiry, Open
  <1>3. begun \in 0 .. MaxBegun
    BY BegunIsCounted DEF Init
  <1> QED BY <1>1, <1>2, <1>3 DEF Init, Shape, TypeOK

\* A request knows the row, the application and the client that its next
\* statement takes for granted.
THEOREM ShapeHolds == Spec => []Shape
  BY InitShape, NextShape, PTL DEF Spec

\* Tables and local variables keep their types.
THEOREM TypeCorrect == Spec => []TypeOK
  <1>1. Shape => TypeOK
    BY DEF Shape
  <1> QED BY <1>1, ShapeHolds, PTL

-----------------------------------------------------------------------------
(* An application and its client.                                          *)

\* Somebody holds that application a has client c.
Tied(a, c) ==
    \/ apps[a] # NoApp /\ apps[a].client = c
    \/ \E r \in Requests : requests[r].op \in AppOps /\ requests[r].app = a
                           /\ requests[r].client = c

Paired ==
    \A a, b \in Apps, c, d \in Clients : Tied(a, c) /\ Tied(b, d) => (a = b <=> c = d)

Drawn ==
    /\ \A c \in Clients : clients[c] # NoClient => c \in drawn
    /\ \A a \in Apps : apps[a] # NoApp => a \in drawn /\ apps[a].client \in drawn
    /\ \A s \in Secrets : given[s].client # NoClient => given[s].client \in drawn
    /\ \A r \in Requests : /\ requests[r].client # NoClient => requests[r].client \in drawn
                           /\ requests[r].app # NoApp => requests[r].app \in drawn

\* The foreign key.
Referred == \A a \in Apps : apps[a] # NoApp => clients[apps[a].client] # NoClient

Unborn(q) == q.op = "createApp" /\ q.pc = "client"

\* Nobody else knows an application that is being created, nor, at first, its
\* client.
Fresh(r) ==
    /\ requests[r].op = "createApp" =>
          /\ apps[requests[r].app] = NoApp
          /\ \A s \in Requests \ {r} : requests[s].app # requests[r].app
    /\ Unborn(requests[r]) =>
          /\ clients[requests[r].client] = NoClient
          /\ \A s \in Secrets : given[s].client # requests[r].client
          /\ \A s \in Requests \ {r} : requests[s].client # requests[r].client

Ids == Paired /\ Drawn /\ Referred /\ \A r \in Requests : Fresh(r)

\* No request begins.
Continues ==
    \A r \in Requests :
        \/ requests'[r] = Idle
        \/ /\ requests'[r].op = requests[r].op
           /\ requests'[r].app = requests[r].app
           /\ requests'[r].client = requests[r].client
           /\ Unborn(requests'[r]) => Unborn(requests[r])

\* Where rows come from, when no id is drawn.
RowsFromRequests ==
    /\ \A c \in Clients : clients'[c] # NoClient =>
          \/ clients[c] # NoClient
          \/ \E r \in Requests : requests[r].client = c /\ ~Unborn(requests'[r])
    /\ \A a \in Apps : apps'[a] # NoApp =>
          \/ apps[a] # NoApp /\ apps'[a].client = apps[a].client
          \/ \E r \in Requests : /\ requests[r].op \in AppOps /\ requests[r].app = a
                                 /\ requests[r].client = apps'[a].client
                                 /\ requests'[r] = Idle
    /\ \A s \in Secrets :
          \/ given'[s].client = given[s].client
          \/ \E r \in Requests : requests[r].op = "rotate"
                                 /\ requests[r].client = given'[s].client

LEMMA IdsKept ==
  ASSUME Shape, Shape', Ids, Continues, RowsFromRequests, drawn \subseteq drawn', Referred'
  PROVE  Ids'
  <1> USE DEF Unborn
  <1>1. Idle.op = "none" /\ Idle.app = NoApp /\ Idle.client = NoClient /\ "none" \notin AppOps
    BY DEF Idle, AppOps
  <1>2. ASSUME NEW a \in Apps, NEW c \in Clients, Tied(a, c)' PROVE Tied(a, c)
    BY <1>1, <1>2 DEF Tied, Continues, RowsFromRequests
  <1>3. Paired'
    BY <1>2 DEF Ids, Paired
  <1>4. Drawn'
    <2>1. \A c \in Clients : clients'[c] # NoClient => c \in drawn'
      BY NullsAreNoValues DEF Ids, Drawn, RowsFromRequests
    <2>2. \A a \in Apps : apps'[a] # NoApp => a \in drawn' /\ apps'[a].client \in drawn'
      <3>1. ASSUME NEW a \in Apps, apps'[a] # NoApp
            PROVE  a \in drawn /\ apps'[a].client \in drawn
        <4>1. CASE apps[a] # NoApp /\ apps'[a].client = apps[a].client
          BY <4>1 DEF Ids, Drawn
        <4>2. ASSUME NEW r \in Requests, requests[r].op \in AppOps, requests[r].app = a,
                     requests[r].client = apps'[a].client
              PROVE  a \in drawn /\ apps'[a].client \in drawn
          BY <4>2, NullsAreNoValues DEF Ids, Drawn, Shape, LocalOK
        <4> QED BY <3>1, <4>1, <4>2 DEF RowsFromRequests
      <3> QED BY <3>1
    <2>3. \A s \in Secrets : given'[s].client # NoClient => given'[s].client \in drawn'
      BY NullsAreNoValues DEF Ids, Drawn, RowsFromRequests
    <2>4. \A r \in Requests : /\ requests'[r].client # NoClient => requests'[r].client \in drawn'
                              /\ requests'[r].app # NoApp => requests'[r].app \in drawn'
      BY <1>1 DEF Ids, Drawn, Continues
    <2> QED BY <2>1, <2>2, <2>3, <2>4 DEF Drawn
  <1>5. ASSUME NEW r \in Requests PROVE Fresh(r)'
    <2>1. CASE requests'[r].op # "createApp"
      BY <2>1 DEF Fresh
    <2>2. CASE requests'[r].op = "createApp"
      <3>1. /\ requests[r].op = "createApp" /\ requests'[r].app = requests[r].app
            /\ requests'[r].client = requests[r].client /\ requests'[r] # Idle
            /\ Unborn(requests'[r]) => Unborn(requests[r])
        BY <1>1, <2>2 DEF Continues
      <3>2. requests[r].app \in Apps /\ requests[r].client \in Clients
        BY <3>1 DEF Shape, LocalOK, AppOps
      <3>3. Fresh(r)
        BY DEF Ids
      <3>4. apps'[requests[r].app] = NoApp
        BY <3>1, <3>2, <3>3 DEF Fresh, RowsFromRequests
      <3>5. \A s \in Requests \ {r} : requests'[s].app # requests[r].app
        BY <1>1, <3>1, <3>2, <3>3, NullsAreNoValues DEF Fresh, Continues
      <3>6. ASSUME Unborn(requests'[r])
            PROVE  /\ clients'[requests[r].client] = NoClient
                   /\ \A s \in Secrets : given'[s].client # requests[r].client
                   /\ \A s \in Requests \ {r} : requests'[s].client # requests[r].client
        <4>1. clients'[requests[r].client] = NoClient
          BY <3>1, <3>2, <3>3, <3>6 DEF Fresh, RowsFromRequests
        <4>2. \A s \in Secrets : given'[s].client # requests[r].client
          BY <3>1, <3>2, <3>3, <3>6 DEF Fresh, RowsFromRequests
        <4>3. \A s \in Requests \ {r} : requests'[s].client # requests[r].client
          BY <1>1, <3>1, <3>2, <3>3, <3>6, NullsAreNoValues DEF Fresh, Continues
        <4> QED BY <4>1, <4>2, <4>3
      <3> QED BY <3>1, <3>4, <3>5, <3>6 DEF Fresh
    <2> QED BY <2>1, <2>2
  <1> QED BY <1>3, <1>4, <1>5 DEF Ids

\* A request that begins on rows that are there.
LEMMA IdsBegun ==
  ASSUME Shape, Ids, NEW r \in Requests, NEW next, Begin(r, next), UNCHANGED drawn,
         next.op # "createApp",
         next.client \in Clients, clients[next.client] # NoClient,
         \/ next.app = NoApp /\ next.op \notin AppOps
         \/ next.app \in Apps /\ apps[next.app] # NoApp /\ next.client = apps[next.app].client
  PROVE  Ids'
  <1> USE DEF Unborn
  <1>1. requests'[r] = next /\ \A s \in Requests \ {r} : requests'[s] = requests[s]
    BY DEF Begin, Shape, TypeOK
  <1>2. UNCHANGED <<clients, apps, given, drawn>>
    BY DEF Begin, tables, history
  <1>3. ASSUME NEW a \in Apps, NEW c \in Clients, Tied(a, c)' PROVE Tied(a, c)
    BY <1>1, <1>2, <1>3, NullsAreNoValues DEF Tied
  <1>4. Paired'
    BY <1>3 DEF Ids, Paired
  <1>5. Drawn' /\ Referred'
    BY <1>1, <1>2 DEF Ids, Drawn, Referred
  <1>6. ASSUME NEW s \in Requests PROVE Fresh(s)'
    <2>1. CASE s = r
      BY <1>1, <2>1 DEF Fresh
    <2>2. CASE s # r
      <3>1. requests'[s] = requests[s] /\ Fresh(s)
        BY <1>1, <2>2 DEF Ids
      <3>2. requests[s].op = "createApp" => requests[s].app \in Apps
        BY DEF Shape, LocalOK, AppOps
      <3> QED BY <1>1, <1>2, <3>1, <3>2, NullsAreNoValues DEF Fresh
    <2> QED BY <2>1, <2>2
  <1> QED BY <1>4, <1>5, <1>6 DEF Ids

LEMMA BeginCreateAppIds ==
  ASSUME Shape, Ids, NEW r \in Requests, NEW a \in Apps, NEW c \in Clients, NEW n \in Names,
         NEW u \in Urls, BeginCreateApp(r, a, c, n, u)
  PROVE  Ids'
  <1> USE DEF Unborn
  <1>1. /\ requests'[r].op = "createApp" /\ requests'[r].app = a /\ requests'[r].client = c
        /\ \A s \in Requests \ {r} : requests'[s] = requests[s]
    BY DEF BeginCreateApp, Begin, Idle, Shape, TypeOK
  <1>2. /\ UNCHANGED <<clients, apps, given>> /\ drawn' = drawn \cup {a, c}
        /\ a \notin drawn /\ c \notin drawn
    BY DEF BeginCreateApp, Begin, tables, history
  <1>3. ASSUME NEW b \in Apps, NEW d \in Clients, Tied(b, d)
        PROVE  b \in drawn /\ d \in drawn
    BY <1>3, NullsAreNoValues DEF Tied, Ids, Drawn
  <1>4. ASSUME NEW b \in Apps, NEW d \in Clients, Tied(b, d)'
        PROVE  Tied(b, d) \/ (b = a /\ d = c)
    BY <1>1, <1>2, <1>4 DEF Tied
  <1>5. Paired'
    BY <1>2, <1>3, <1>4 DEF Ids, Paired
  <1>6. Drawn' /\ Referred'
    BY <1>1, <1>2 DEF Ids, Drawn, Referred
  <1>7. \A s \in Requests \ {r} : requests[s].app # a /\ requests[s].client # c
    BY <1>2, NullsAreNoValues DEF Ids, Drawn
  <1>8. ASSUME NEW s \in Requests PROVE Fresh(s)'
    <2>1. CASE s = r
      <3>1. apps[a] = NoApp /\ clients[c] = NoClient /\ \A x \in Secrets : given[x].client # c
        BY <1>2, NullsAreNoValues DEF Ids, Drawn
      <3> QED BY <1>1, <1>2, <1>7, <2>1, <3>1 DEF Fresh
    <2>2. CASE s # r
      <3>1. requests'[s] = requests[s] /\ Fresh(s)
        BY <1>1, <2>2 DEF Ids
      <3> QED BY <1>1, <1>2, <1>7, <2>2, <3>1 DEF Fresh
    <2> QED BY <2>1, <2>2
  <1> QED BY <1>5, <1>6, <1>8 DEF Ids

LEMMA CreateClientIds ==
  ASSUME Shape, Ids, NEW r \in Requests, NEW c \in Clients, NEW s \in Secrets, NEW u \in Urls,
         CreateClient(r, c, s, u)
  PROVE  Ids'
  <1> USE DEF Unborn
  <1>1. /\ UNCHANGED <<apps, requests>> /\ drawn' = drawn \cup {c, s} /\ c \notin drawn
        /\ \A d \in Clients \ {c} : clients'[d] = clients[d]
        /\ clients'[c] # NoClient
    <2>1. [secrets |-> [NoSecrets EXCEPT ![s] = Open], public |-> FALSE,
           uris |-> {u}, name |-> NoName, alias |-> NoName] \in Row
      BY SecretTypes DEF Row
    <2> QED BY <2>1, NoClientIsNoRow DEF CreateClient, Shape, TypeOK
  <1>2. \A x \in Secrets : given'[x].client \in {given[x].client, c}
    BY DEF CreateClient, Given
  <1>3. Paired' /\ Referred'
    BY <1>1 DEF Ids, Paired, Tied, Referred, Shape, TypeOK, AppRow
  <1>4. Drawn'
    BY <1>1, <1>2 DEF Ids, Drawn
  <1>5. ASSUME NEW q \in Requests PROVE Fresh(q)'
    <2>1. Fresh(q) /\ (requests[q].op = "createApp" => requests[q].client # c)
      BY <1>1, NullsAreNoValues DEF Ids, Drawn, Shape, LocalOK, AppOps
    <2>2. Unborn(requests[q]) => requests[q].client \in Clients
      BY DEF Shape, LocalOK, AppOps
    <2> QED BY <1>1, <1>2, <2>1, <2>2 DEF Fresh
  <1> QED BY <1>3, <1>4, <1>5 DEF Ids

-----------------------------------------------------------------------------
(* What the statements do to the tables.                                   *)

LEMMA Answered ==
  ASSUME Shape, NEW r \in Requests, Answer(r)
  PROVE  requests'[r] = Idle /\ \A q \in Requests \ {r} : requests'[q] = requests[q]
  BY DEF Answer, Shape, TypeOK

LEMMA Moved ==
  ASSUME Shape, NEW r \in Requests, NEW pc, To(r, pc)
  PROVE  /\ requests'[r] = [requests[r] EXCEPT !.pc = pc]
         /\ \A q \in Requests \ {r} : requests'[q] = requests[q]
         /\ \A q \in Requests : /\ requests'[q].op = requests[q].op
                                /\ requests'[q].client = requests[q].client
                                /\ requests'[q].app = requests[q].app
  <1>1. requests'[r] = [requests[r] EXCEPT !.pc = pc]
    BY DEF To, Shape, TypeOK
  <1>2. \A q \in Requests \ {r} : requests'[q] = requests[q]
    BY DEF To, Shape, TypeOK
  <1>3. requests[r] \in Request
    BY DEF Shape, TypeOK
  <1> QED BY <1>1, <1>2, <1>3 DEF Request

LEMMA Started ==
  ASSUME Shape, NEW r \in Requests, NEW next, Begin(r, next)
  PROVE  /\ requests'[r] = next /\ \A q \in Requests \ {r} : requests'[q] = requests[q]
         /\ requests[r].op = "none" /\ UNCHANGED <<clients, apps, given>>
         /\ UNCHANGED <<overrun, unsettled, abandoned>>
  BY DEF Begin, tables, history, Shape, TypeOK, LocalOK

\* A save of a whole row.
LEMMA Saves ==
  ASSUME Shape, NEW r \in Requests, Update(r) \/ \E s \in Secrets : Rotate(r, s)
  PROVE  /\ requests[r].client \in Clients /\ requests[r].row \in Row
         /\ clients'[requests[r].client] \in Row
         /\ clients'[requests[r].client].alias = requests[r].row.alias
         /\ clients'[requests[r].client].name = requests[r].row.name
         /\ \A c \in Clients \ {requests[r].client} : clients'[c] = clients[c]
         /\ clients[requests[r].client] # requests[r].row => requests[r].client \in overrun'
         /\ overrun \subseteq overrun' /\ unsettled \subseteq unsettled' /\ UNCHANGED abandoned
         /\ UNCHANGED apps /\ requests'[r] = Idle /\ requests[r].op \in {"rotate", "update"}
         /\ \A q \in Requests \ {r} : requests'[q] = requests[q]
  <1> DEFINE c == requests[r].client
             old == requests[r].row
  <1>1. Answer(r)
    BY DEF Update, Rotate
  <1>2. CASE Update(r)
    <2>1. c \in Clients /\ old \in Row /\ requests[r].uris \in SUBSET Urls
      BY <1>2 DEF Update, Is, Shape, LocalOK, TypeOK, Request
    <2>2. PICK new : new = [old EXCEPT !.uris = requests[r].uris]
      OBVIOUS
    <2>3. new \in Row /\ new.alias = old.alias /\ new.name = old.name
      BY <2>1, <2>2, RowTypes DEF Row
    <2>4. SaveClient(c, old, new)
      BY <1>2, <2>2 DEF Update
    <2>5. clients'[c] = new /\ \A d \in Clients \ {c} : clients'[d] = clients[d]
      BY <2>1, <2>4 DEF SaveClient, Shape, TypeOK
    <2> QED BY <1>1, <1>2, <2>1, <2>3, <2>4, <2>5, Answered DEF Update, Is, SaveClient
  <1>3. ASSUME NEW s \in Secrets, Rotate(r, s)
        PROVE  /\ c \in Clients /\ old \in Row /\ clients'[c] \in Row
               /\ clients'[c].alias = old.alias /\ clients'[c].name = old.name
               /\ \A d \in Clients \ {c} : clients'[d] = clients[d]
               /\ clients[c] # old => c \in overrun'
               /\ overrun \subseteq overrun' /\ UNCHANGED <<unsettled, abandoned>>
               /\ UNCHANGED apps /\ requests[r].op = "rotate"
    <2>1. c \in Clients /\ old \in Row
      BY <1>3 DEF Rotate, Is, Shape, LocalOK
    <2>2. PICK new : new = [old EXCEPT !.public = FALSE,
                                       !.secrets = WithSecret(old.secrets, s)]
      OBVIOUS
    <2>3. old.secrets \in [Secrets -> Expiry]
      BY <2>1 DEF Row
    <2>4. new \in Row /\ new.alias = old.alias /\ new.name = old.name
      BY <2>1, <2>2, <2>3, SecretTypes, RowTypes DEF Row
    <2>5. SaveClient(c, old, new)
      BY <1>3, <2>2 DEF Rotate
    <2>6. clients'[c] = new /\ \A d \in Clients \ {c} : clients'[d] = clients[d]
      BY <2>1, <2>5 DEF SaveClient, Shape, TypeOK
    <2> QED BY <1>3, <2>1, <2>4, <2>5, <2>6 DEF Rotate, Is, SaveClient
  <1>4. requests'[r] = Idle /\ \A q \in Requests \ {r} : requests'[q] = requests[q]
    BY <1>1, Answered
  <1> QED BY <1>2, <1>3, <1>4

LEMMA Removes ==
  ASSUME Shape, NEW c, Removed(c), NEW d \in Clients
  PROVE  \/ clients'[d] = clients[d]
         \/ clients'[d] = NoClient /\ d = c /\ AppsOf(d) = {}
  BY DEF Removed, Shape, TypeOK

\* The client of an application is stored with the name as its alias.
LEMMA Stores ==
  ASSUME Shape, NEW r \in Requests, CreateAppClient(r)
  PROVE  /\ Unborn(requests[r]) /\ requests[r].client \in Clients
         /\ UNCHANGED <<apps, drawn>> /\ UNCHANGED history
         /\ \A q \in Requests \ {r} : requests'[q] = requests[q]
         /\ \A c \in Clients \ {requests[r].client} : clients'[c] = clients[c]
         /\ \/ requests'[r] = Idle /\ UNCHANGED clients
            \/ /\ clients'[requests[r].client] \in Row
               /\ requests[r].url \in clients'[requests[r].client].uris
               /\ clients'[requests[r].client].name = requests[r].name
               /\ requests'[r] = [requests[r] EXCEPT !.pc = "app"]
  <1> DEFINE q == requests[r]
  <1>1. /\ q.client \in Clients /\ q.name \in Names /\ q.url \in Urls
    BY DEF CreateAppClient, Is, Shape, LocalOK, AppOps
  <1>2. CASE Aliased(q.name) # {}
    BY <1>1, <1>2, Answered DEF CreateAppClient, Is, Unborn
  <1>3. CASE Aliased(q.name) = {}
    <2>1. PICK new : new = [secrets |-> NoSecrets, public |-> TRUE, uris |-> {q.url},
                            name |-> q.name, alias |-> q.name]
      OBVIOUS
    <2>2. new \in Row /\ q.url \in new.uris /\ new.name = q.name
      <3>1. NoSecrets \in [Secrets -> Expiry]
        BY OverlapIsTime DEF NoSecrets, Expiry, Open
      <3> QED BY <1>1, <2>1, <3>1 DEF Row
    <2>3. clients' = [clients EXCEPT ![q.client] = new] /\ To(r, "app")
      BY <1>3, <2>1 DEF CreateAppClient
    <2>4. clients'[q.client] = new /\ \A c \in Clients \ {q.client} : clients'[c] = clients[c]
      BY <1>1, <2>3 DEF Shape, TypeOK
    <2> QED BY <1>1, <2>2, <2>3, <2>4, Moved DEF CreateAppClient, Is, Unborn
  <1> QED BY <1>2, <1>3

\* A column of the client of an application is written.
LEMMA Writes ==
  ASSUME Shape, NEW r \in Requests, Rename(r) \/ WriteUris(r)
  PROVE  /\ requests[r].op = "updateApp" /\ requests[r].client \in Clients
         /\ UNCHANGED <<apps, drawn>> /\ UNCHANGED history
         /\ \A c \in Clients \ {requests[r].client} : clients'[c] = clients[c]
         /\ \A q \in Requests \ {r} : requests'[q] = requests[q]
         /\ \/ clients[requests[r].client] = NoClient /\ UNCHANGED clients
            \/ /\ clients[requests[r].client] \in Row /\ clients'[requests[r].client] \in Row
               /\ clients'[requests[r].client].alias = clients[requests[r].client].alias
               /\ clients'[requests[r].client].secrets = clients[requests[r].client].secrets
               /\ clients'[requests[r].client].public = clients[requests[r].client].public
               /\ Rename(r) => /\ clients'[requests[r].client].name = requests[r].name
                               /\ clients'[requests[r].client].uris
                                     = clients[requests[r].client].uris
               /\ WriteUris(r) => /\ clients'[requests[r].client].uris = requests[r].uris
                                  /\ clients'[requests[r].client].name
                                        = clients[requests[r].client].name
  <1> DEFINE q == requests[r]
  <1>1. /\ q.client \in Clients /\ q.name \in Names /\ q.uris \in SUBSET Urls
        /\ q.op = "updateApp"
    BY DEF Rename, WriteUris, Is, Shape, LocalOK, AppOps, TypeOK, Request
  <1>2. \A s \in Requests \ {r} : requests'[s] = requests[s]
    BY Moved DEF Rename, WriteUris
  <1>3. UNCHANGED <<apps, drawn>> /\ UNCHANGED history
    BY DEF Rename, WriteUris
  <1>4. CASE clients[q.client] = NoClient
    BY <1>1, <1>2, <1>3, <1>4 DEF Rename, WriteUris
  <1>5. CASE clients[q.client] # NoClient
    <2>1. clients[q.client] \in Row
      BY <1>1, <1>5 DEF Shape, TypeOK
    <2>2. \A c \in Clients \ {q.client} : clients'[c] = clients[c]
      BY <1>5 DEF Rename, WriteUris, Shape, TypeOK
    <2>3. Rename(r) => clients'[q.client] = [clients[q.client] EXCEPT !.name = q.name]
      BY <1>1, <1>5 DEF Rename, Shape, TypeOK
    <2>4. WriteUris(r) => clients'[q.client] = [clients[q.client] EXCEPT !.uris = q.uris]
      BY <1>1, <1>5 DEF WriteUris, Shape, TypeOK
    <2>5. CASE Rename(r)
      <3>1. ~WriteUris(r)
        BY <2>5 DEF Rename, WriteUris, Is
      <3>2. clients'[q.client] \in Row
        BY <1>1, <2>1, <2>3, <2>5, RowTypes
      <3> QED BY <1>1, <1>2, <1>3, <2>1, <2>2, <2>3, <2>5, <3>1, <3>2 DEF Row
    <2>6. CASE WriteUris(r)
      <3>1. ~Rename(r)
        BY <2>6 DEF Rename, WriteUris, Is
      <3>2. clients'[q.client] \in Row
        BY <1>1, <2>1, <2>4, <2>6, RowTypes
      <3> QED BY <1>1, <1>2, <1>3, <2>1, <2>2, <2>4, <2>6, <3>1, <3>2 DEF Row
    <2> QED BY <2>5, <2>6
  <1> QED BY <1>4, <1>5

\* Time leaves everything but expiries as it is.
LEMMA Ages ==
  ASSUME Shape, Tick
  PROVE  /\ \A c \in Clients :
               \/ clients[c] = NoClient /\ clients'[c] = NoClient
               \/ /\ clients[c] \in Row /\ clients'[c] \in Row
                  /\ clients'[c].uris = clients[c].uris /\ clients'[c].name = clients[c].name
                  /\ clients'[c].alias = clients[c].alias
                  /\ clients'[c].public = clients[c].public
                  /\ \A s \in Secrets : clients'[c].secrets[s] = Aged(clients[c].secrets[s])
         /\ \A r \in Requests : requests'[r] = [requests[r] EXCEPT !.row = AgedRow(@)]
         /\ \A s \in Secrets : /\ given'[s].client = given[s].client
                               /\ given'[s].left = Aged(given[s].left)
         /\ UNCHANGED <<apps, begun, drawn, overrun, unsettled, abandoned>>
  <1>1. ASSUME NEW c \in Clients
        PROVE  \/ clients[c] = NoClient /\ clients'[c] = NoClient
               \/ /\ clients[c] \in Row /\ clients'[c] \in Row
                  /\ clients'[c].uris = clients[c].uris /\ clients'[c].name = clients[c].name
                  /\ clients'[c].alias = clients[c].alias
                  /\ clients'[c].public = clients[c].public
                  /\ \A s \in Secrets : clients'[c].secrets[s] = Aged(clients[c].secrets[s])
    <2>1. clients'[c] = AgedRow(clients[c]) /\ clients[c] \in Row \cup {NoClient}
      BY DEF Tick, Shape, TypeOK
    <2>2. CASE clients[c] = NoClient
      BY <2>1, <2>2 DEF AgedRow
    <2>3. CASE clients[c] \in Row
      BY <2>1, <2>3, AgedTypes
    <2> QED BY <2>1, <2>2, <2>3
  <1>2. \A r \in Requests : requests'[r] = [requests[r] EXCEPT !.row = AgedRow(@)]
    BY DEF Tick
  <1>3. \A s \in Secrets : given'[s].client = given[s].client /\ given'[s].left = Aged(given[s].left)
    BY DEF Tick, Shape, TypeOK
  <1> QED BY <1>1, <1>2, <1>3 DEF Tick

-----------------------------------------------------------------------------
(* Every step keeps an application and its client together.                *)

LEMMA ClientsIds ==
  ASSUME Shape, Shape', Ids, NEW r \in Requests,
         Update(r) \/ Delete(r) \/ \E s \in Secrets : Rotate(r, s)
  PROVE  Ids'
  <1>1. CASE Update(r) \/ \E s \in Secrets : Rotate(r, s)
    <2>1. Continues
      BY <1>1, Saves DEF Continues
    <2>2. \A s \in Secrets : \/ given'[s].client = given[s].client
                             \/ /\ requests[r].op = "rotate"
                                /\ requests[r].client = given'[s].client
      <3>1. CASE Update(r)
        BY <3>1 DEF Update
      <3>2. ASSUME NEW s \in Secrets, Rotate(r, s), NEW x \in Secrets
            PROVE  \/ given'[x].client = given[x].client
                   \/ requests[r].op = "rotate" /\ requests[r].client = given'[x].client
        BY <3>2 DEF Rotate, Is, Given
      <3> QED BY <1>1, <3>1, <3>2
    <2>3. RowsFromRequests
      <3>1. ~Unborn(requests'[r])
        BY <1>1, Saves DEF Unborn, Idle
      <3>2. \A c \in Clients : clients'[c] # NoClient =>
               clients[c] # NoClient \/ (requests[r].client = c /\ ~Unborn(requests'[r]))
        BY <1>1, <3>1, Saves
      <3>3. UNCHANGED apps
        BY <1>1, Saves
      <3> QED BY <2>2, <3>2, <3>3 DEF RowsFromRequests
    <2>4. Referred'
      BY <1>1, Saves, NoClientIsNoRow DEF Ids, Referred, Shape, TypeOK, AppRow
    <2>5. drawn \subseteq drawn'
      BY <1>1 DEF Update, Rotate
    <2> QED BY <2>1, <2>3, <2>4, <2>5, IdsKept
  <1>2. CASE Delete(r)
    <2>1. /\ UNCHANGED <<apps, drawn, given>> /\ Removed(requests[r].client)
          /\ requests'[r] = Idle /\ \A q \in Requests \ {r} : requests'[q] = requests[q]
      BY <1>2, Answered DEF Delete, history
    <2>2. Continues
      BY <2>1 DEF Continues
    <2>3. RowsFromRequests
      BY <2>1, Removes DEF RowsFromRequests
    <2>4. Referred'
      BY <2>1, Removes DEF Ids, Referred, AppsOf, Shape, TypeOK, AppRow
    <2> QED BY <2>1, <2>2, <2>3, <2>4, IdsKept
  <1> QED BY <1>1, <1>2

\* One step of a request that stores or deletes an application.
LEMMA AppsIds ==
  ASSUME Shape, Shape', Ids, NEW r \in Requests,
         \/ CreateAppClient(r) \/ CreateApp(r) \/ Undo(r)
         \/ Rename(r) \/ FindUris(r) \/ WriteUris(r) \/ SaveApp(r)
         \/ RemoveApp(r) \/ RemoveAppClient(r)
  PROVE  Ids'
  <1> DEFINE q == requests[r]
  <1>1. CASE CreateAppClient(r)
    <2>1. Continues
      <3>1. requests[r] \in Request
        BY DEF Shape, TypeOK
      <3>2. \A x \in Requests \ {r} : requests'[x] = requests[x]
        BY <1>1, Stores
      <3>3. requests'[r] = Idle \/ requests'[r] = [requests[r] EXCEPT !.pc = "app"]
        BY <1>1, Stores
      <3> QED BY <3>1, <3>2, <3>3 DEF Continues, Unborn, Request
    <2>2. \A c \in Clients : clients'[c] # NoClient =>
             clients[c] # NoClient \/ (q.client = c /\ ~Unborn(requests'[r]))
      <3>1. CASE requests'[r] = [q EXCEPT !.pc = "app"]
        <4>1. ~Unborn(requests'[r])
          BY <3>1 DEF Unborn, Shape, TypeOK, Request
        <4> QED BY <1>1, <4>1, Stores
      <3> QED BY <1>1, <3>1, Stores
    <2>3. UNCHANGED <<apps, drawn, given>>
      BY <1>1, Stores DEF history
    <2>4. RowsFromRequests
      BY <2>2, <2>3 DEF RowsFromRequests
    <2>5. Referred'
      BY <1>1, Stores, NoClientIsNoRow DEF Ids, Referred, Shape, TypeOK, AppRow
    <2> QED BY <2>1, <2>3, <2>4, <2>5, IdsKept
  <1>2. CASE CreateApp(r)
    <2>1. /\ UNCHANGED <<clients, drawn, given>> /\ q.op = "createApp" /\ q.pc = "app"
          /\ q.app \in Apps /\ q.client \in Clients
      BY <1>2 DEF CreateApp, Is, history, Shape, LocalOK, AppOps
    <2>2. CASE UNCHANGED apps /\ To(r, "undo")
      <3>1. Continues
        BY <2>1, <2>2, Moved DEF Continues, Unborn, Shape, TypeOK, Request
      <3>2. RowsFromRequests /\ Referred'
        BY <2>1, <2>2 DEF RowsFromRequests, Ids, Referred
      <3> QED BY <2>1, <3>1, <3>2, IdsKept
    <2>3. CASE /\ Storable(q.app, [name |-> q.name, url |-> q.url, client |-> q.client])
               /\ apps' = [apps EXCEPT ![q.app]
                             = [name |-> q.name, url |-> q.url, client |-> q.client]]
               /\ Answer(r)
      <3>1. /\ apps'[q.app].client = q.client /\ clients[q.client] # NoClient
            /\ \A a \in Apps \ {q.app} : apps'[a] = apps[a]
        BY <2>1, <2>3 DEF Storable, Shape, TypeOK
      <3>2. Continues /\ requests'[r] = Idle
        BY <2>3, Answered DEF Continues
      <3>3. RowsFromRequests
        BY <2>1, <3>1, <3>2 DEF RowsFromRequests, AppOps
      <3>4. Referred'
        BY <2>1, <3>1 DEF Ids, Referred
      <3> QED BY <2>1, <3>2, <3>3, <3>4, IdsKept
    <2> QED BY <1>2, <2>2, <2>3 DEF CreateApp
  <1>3. CASE Undo(r) \/ RemoveAppClient(r)
    <2>1. /\ UNCHANGED <<apps, drawn, given>> /\ Removed(q.client)
          /\ requests'[r] = Idle /\ \A x \in Requests \ {r} : requests'[x] = requests[x]
      BY <1>3, Answered DEF Undo, RemoveAppClient, history
    <2>2. Continues
      BY <2>1 DEF Continues
    <2>3. RowsFromRequests
      BY <2>1, Removes DEF RowsFromRequests
    <2>4. Referred'
      BY <2>1, Removes DEF Ids, Referred, AppsOf, Shape, TypeOK, AppRow
    <2> QED BY <2>1, <2>2, <2>3, <2>4, IdsKept
  <1>4. CASE Rename(r) \/ WriteUris(r)
    <2>1. UNCHANGED <<apps, drawn, given>> /\ q.op = "updateApp"
      BY <1>4, Writes DEF history
    <2>2. Continues
      <3>1. To(r, "find") \/ To(r, "save")
        BY <1>4 DEF Rename, WriteUris
      <3> QED BY <2>1, <3>1, Moved DEF Continues, Unborn, Shape, TypeOK, Request
    <2>3. RowsFromRequests
      <3>1. \A c \in Clients : clients'[c] # NoClient => clients[c] # NoClient
        BY <1>4, Writes, NoClientIsNoRow
      <3> QED BY <2>1, <3>1 DEF RowsFromRequests
    <2>4. Referred'
      BY <1>4, <2>1, Writes, NoClientIsNoRow DEF Ids, Referred, Shape, TypeOK, AppRow
    <2> QED BY <2>1, <2>2, <2>3, <2>4, IdsKept
  <1>5. CASE FindUris(r)
    <2>1. UNCHANGED <<clients, apps, drawn, given>> /\ q.op = "updateApp"
      BY <1>5 DEF FindUris, Is, tables, history
    <2>2. Continues
      BY <1>5, <2>1, Answered DEF FindUris, Continues, Unborn, Shape, TypeOK, Request
    <2>3. RowsFromRequests /\ Referred'
      BY <2>1 DEF RowsFromRequests, Ids, Referred
    <2> QED BY <2>1, <2>2, <2>3, IdsKept
  <1>6. CASE SaveApp(r)
    <2>1. /\ UNCHANGED <<clients, drawn, given>> /\ q.op = "updateApp" /\ q.app \in Apps
          /\ q.client = q.appRow.client /\ q.appRow \in AppRow
      BY <1>6 DEF SaveApp, Is, Shape, LocalOK, AppOps
    <2>2. PICK row : row = [q.appRow EXCEPT !.name = q.name, !.url = q.url]
      OBVIOUS
    <2>3. row.client = q.client
      BY <2>1, <2>2 DEF AppRow
    <2>4. apps' = IF Storable(q.app, row) THEN [apps EXCEPT ![q.app] = row] ELSE apps
      BY <1>6, <2>2 DEF SaveApp
    <2>5. Continues /\ requests'[r] = Idle
      BY <1>6, Answered DEF SaveApp, Continues
    <2>6. \/ UNCHANGED apps
          \/ /\ apps'[q.app].client = q.client /\ clients[q.client] # NoClient
             /\ \A a \in Apps \ {q.app} : apps'[a] = apps[a]
      BY <2>1, <2>3, <2>4 DEF Storable, Shape, TypeOK
    <2>7. RowsFromRequests
      BY <2>1, <2>5, <2>6 DEF RowsFromRequests, AppOps
    <2>8. Referred'
      BY <2>1, <2>6 DEF Ids, Referred
    <2> QED BY <2>1, <2>5, <2>7, <2>8, IdsKept
  <1>7. CASE RemoveApp(r)
    <2>1. /\ UNCHANGED <<clients, drawn, given>> /\ q.op = "deleteApp"
          /\ \A a \in Apps : apps'[a] # NoApp => apps'[a] = apps[a]
      BY <1>7 DEF RemoveApp, Is, history, Shape, TypeOK
    <2>2. Continues
      BY <1>7, <2>1, Moved DEF RemoveApp, Continues, Unborn, Shape, TypeOK, Request
    <2>3. RowsFromRequests /\ Referred'
      BY <2>1 DEF RowsFromRequests, Ids, Referred
    <2> QED BY <2>1, <2>2, <2>3, IdsKept
  <1> QED BY <1>1, <1>2, <1>3, <1>4, <1>5, <1>6, <1>7

LEMMA NextIds ==
  ASSUME Shape, Ids, [Next]_vars
  PROVE  Ids'
  <1>1. Shape'
    BY NextShape
  <1>2. ASSUME NEW r \in Requests, OnClients(r) PROVE Ids'
    <2>1. ASSUME NEW c \in Clients, NEW op \in {"rotate", "delete", "update"}, NEW uris,
                 Read(r, op, c, uris)
          PROVE  Ids'
      <3>1. PICK next :
               next = [Idle EXCEPT !.op = op, !.client = c, !.row = clients[c], !.uris = uris,
                                   !.pc = IF op = "delete" THEN "remove" ELSE "save"]
        OBVIOUS
      <3>2. /\ next.op = op /\ next.client = c /\ next.app = NoApp
            /\ op # "createApp" /\ op \notin AppOps
        BY <3>1 DEF Idle, AppOps
      <3>3. Begin(r, next) /\ UNCHANGED drawn /\ clients[c] # NoClient
        BY <2>1, <3>1 DEF Read
      <3> QED BY <3>2, <3>3, IdsBegun
    <2> QED BY <1>1, <1>2, <2>1, CreateClientIds, ClientsIds DEF OnClients
  <1>3. ASSUME NEW r \in Requests, OnApps(r) PROVE Ids'
    <2>1. ASSUME NEW a \in Apps, NEW n \in Names, NEW u \in Urls, BeginUpdateApp(r, a, n, u)
          PROVE  Ids'
      <3>1. PICK next : next = [Idle EXCEPT !.op = "updateApp", !.app = a, !.appRow = apps[a],
                                            !.client = apps[a].client, !.name = n, !.url = u,
                                            !.pc = First(apps[a], n, u)]
        OBVIOUS
      <3>2. next.op = "updateApp" /\ next.client = apps[a].client /\ next.app = a
        BY <3>1 DEF Idle
      <3>3. Begin(r, next) /\ UNCHANGED drawn /\ apps[a] # NoApp
        BY <2>1, <3>1 DEF BeginUpdateApp
      <3>4. apps[a].client \in Clients /\ clients[apps[a].client] # NoClient
        BY <3>3 DEF Ids, Referred, Shape, TypeOK, AppRow
      <3> QED BY <3>2, <3>3, <3>4, IdsBegun
    <2>2. ASSUME NEW a \in Apps, BeginDeleteApp(r, a) PROVE Ids'
      <3>1. PICK next : next = [Idle EXCEPT !.op = "deleteApp", !.pc = "app", !.app = a,
                                            !.client = apps[a].client]
        OBVIOUS
      <3>2. next.op = "deleteApp" /\ next.client = apps[a].client /\ next.app = a
        BY <3>1 DEF Idle
      <3>3. Begin(r, next) /\ UNCHANGED drawn /\ apps[a] # NoApp
        BY <2>2, <3>1 DEF BeginDeleteApp
      <3>4. apps[a].client \in Clients /\ clients[apps[a].client] # NoClient
        BY <3>3 DEF Ids, Referred, Shape, TypeOK, AppRow
      <3> QED BY <3>2, <3>3, <3>4, IdsBegun
    <2> QED BY <1>1, <1>3, <2>1, <2>2, BeginCreateAppIds, AppsIds DEF OnApps
  <1>4. CASE Tick
    <2>1. Continues
      <3>1. \A r \in Requests : /\ requests[r] \in Request
                                /\ requests'[r] = [requests[r] EXCEPT !.row = AgedRow(@)]
        BY <1>4, Ages DEF Shape, TypeOK
      <3> QED BY <3>1 DEF Continues, Unborn, Request
    <2>2. RowsFromRequests
      <3>1. \A c \in Clients : clients'[c] # NoClient => clients[c] # NoClient
        BY <1>4, Ages, NoClientIsNoRow
      <3>2. UNCHANGED apps /\ \A s \in Secrets : given'[s].client = given[s].client
        BY <1>4, Ages
      <3> QED BY <3>1, <3>2 DEF RowsFromRequests
    <2>3. Referred'
      BY <1>4, Ages, NoClientIsNoRow DEF Ids, Referred, Shape, TypeOK, AppRow
    <2>4. UNCHANGED drawn
      BY <1>4, Ages
    <2> QED BY <1>1, <2>1, <2>2, <2>3, <2>4, IdsKept
  <1>5. CASE Crash \/ UNCHANGED vars
    <2>1. UNCHANGED <<clients, apps, drawn, given>>
      BY <1>5 DEF Crash, vars, tables, history
    <2>2. Continues
      BY <1>5 DEF Crash, Continues, vars, Unborn
    <2>3. RowsFromRequests /\ Referred'
      BY <2>1 DEF RowsFromRequests, Ids, Referred
    <2> QED BY <1>1, <2>1, <2>2, <2>3, IdsKept
  <1> QED BY <1>2, <1>3, <1>4, <1>5 DEF Next

LEMMA InitIds == Init => Ids
  BY DEF Init, Ids, Paired, Tied, Drawn, Referred, Fresh, Unborn, Idle, AppOps

LEMMA IdsHold == Spec => [](Shape /\ Ids)
  BY InitShape, NextShape, InitIds, NextIds, PTL DEF Spec

-----------------------------------------------------------------------------
(* No stray clients.                                                       *)

Owned(c) ==
    \/ AppsOf(c) # {}
    \/ \E r \in Working({"createApp", "deleteApp"}) : requests[r].client = c
    \/ c \in overrun \cup abandoned

HasAlias(c) == clients[c] # NoClient /\ clients[c].alias # NoName

Holding(c) == HasAlias(c) => Owned(c)

\* No owner is lost.
LEMMA OwnedKept ==
  ASSUME Shape, NEW c \in Clients, Owned(c), UNCHANGED apps,
         overrun \subseteq overrun', abandoned \subseteq abandoned',
         \A r \in Requests :
            requests[r].op \in {"createApp", "deleteApp"} /\ requests[r].client = c =>
               \/ requests'[r].op = requests[r].op /\ requests'[r].client = c
               \/ c \in abandoned'
  PROVE  Owned(c)'
  BY DEF Owned, AppsOf, Working

LEMMA HoldingByClients ==
  ASSUME Shape, Ids, NEW r \in Requests, OnClients(r), NEW c \in Clients, Holding(c)
  PROVE  Holding(c)'
  <1>1. ASSUME NEW d \in Clients, NEW op \in {"rotate", "delete", "update"}, NEW uris,
               Read(r, op, d, uris)
        PROVE  Holding(c)'
    <2>1. PICK next :
             next = [Idle EXCEPT !.op = op, !.client = d, !.row = clients[d], !.uris = uris,
                                 !.pc = IF op = "delete" THEN "remove" ELSE "save"]
      OBVIOUS
    <2>2. Begin(r, next)
      BY <1>1, <2>1 DEF Read
    <2>3. /\ UNCHANGED <<clients, apps, overrun, abandoned>> /\ requests[r].op = "none"
          /\ \A q \in Requests \ {r} : requests'[q] = requests[q]
      BY <2>2, Started
    <2>4. Owned(c) => Owned(c)'
      BY <2>3, OwnedKept
    <2> QED BY <2>3, <2>4 DEF Holding, HasAlias
  <1>2. ASSUME NEW d \in Clients, NEW s \in Secrets, NEW u \in Urls, CreateClient(r, d, s, u)
        PROVE  Holding(c)'
    <2>1. UNCHANGED <<apps, requests, overrun, abandoned>>
      BY <1>2 DEF CreateClient
    <2>2. HasAlias(c)' => HasAlias(c)
      BY <1>2 DEF CreateClient, HasAlias, Shape, TypeOK
    <2>3. Owned(c) => Owned(c)'
      BY <2>1, OwnedKept
    <2> QED BY <2>2, <2>3 DEF Holding
  <1>3. CASE Update(r) \/ \E s \in Secrets : Rotate(r, s)
    <2>1. /\ UNCHANGED <<apps, abandoned>> /\ overrun \subseteq overrun'
          /\ requests[r].op \in {"rotate", "update"}
          /\ \A q \in Requests \ {r} : requests'[q] = requests[q]
      BY <1>3, Saves
    <2>2. Owned(c) => Owned(c)'
      BY <2>1, OwnedKept
    <2>3. CASE c = requests[r].client /\ clients[c] # requests[r].row
      BY <1>3, <2>3, Saves DEF Holding, Owned
    <2>4. CASE c = requests[r].client /\ clients[c] = requests[r].row
      <3>1. HasAlias(c)' => HasAlias(c)
        BY <1>3, <2>4, Saves, NoClientIsNoRow DEF HasAlias
      <3> QED BY <2>2, <3>1 DEF Holding
    <2>5. CASE c # requests[r].client
      <3>1. HasAlias(c)' => HasAlias(c)
        BY <1>3, <2>5, Saves DEF HasAlias
      <3> QED BY <2>2, <3>1 DEF Holding
    <2> QED BY <2>3, <2>4, <2>5
  <1>4. CASE Delete(r)
    <2>1. /\ UNCHANGED <<apps, overrun, abandoned>> /\ requests[r].op = "delete"
          /\ \A q \in Requests \ {r} : requests'[q] = requests[q]
      BY <1>4, Answered DEF Delete, Is, history
    <2>2. HasAlias(c)' => HasAlias(c)
      BY <1>4, Removes DEF Delete, HasAlias
    <2>3. Owned(c) => Owned(c)'
      BY <2>1, OwnedKept
    <2> QED BY <2>2, <2>3 DEF Holding
  <1> QED BY <1>1, <1>2, <1>3, <1>4 DEF OnClients

LEMMA HoldingByBeginnings ==
  ASSUME Shape, NEW r \in Requests, NEW c \in Clients, Holding(c),
         \/ \E a \in Apps, d \in Clients, n \in Names, u \in Urls : BeginCreateApp(r, a, d, n, u)
         \/ \E a \in Apps, n \in Names, u \in Urls : BeginUpdateApp(r, a, n, u)
         \/ \E a \in Apps : BeginDeleteApp(r, a)
  PROVE  Holding(c)'
  <1>1. \E next : Begin(r, next)
    BY DEF BeginCreateApp, BeginUpdateApp, BeginDeleteApp
  <1>2. /\ UNCHANGED <<clients, apps, overrun, abandoned>> /\ requests[r].op = "none"
        /\ \A q \in Requests \ {r} : requests'[q] = requests[q]
    BY <1>1, Started
  <1>3. Owned(c) => Owned(c)'
    BY <1>2, OwnedKept
  <1> QED BY <1>2, <1>3 DEF Holding, HasAlias

LEMMA HoldingByApps ==
  ASSUME Shape, Ids, NEW r \in Requests, NEW c \in Clients, Holding(c),
         \/ CreateAppClient(r) \/ CreateApp(r) \/ Undo(r)
         \/ Rename(r) \/ FindUris(r) \/ WriteUris(r) \/ SaveApp(r)
         \/ RemoveApp(r) \/ RemoveAppClient(r)
  PROVE  Holding(c)'
  <1> DEFINE q == requests[r]
  <1>1. CASE CreateAppClient(r)
    <2>1. /\ UNCHANGED <<apps, overrun, abandoned>> /\ Fresh(r)
          /\ q.op = "createApp" /\ clients[q.client] = NoClient
          /\ \A x \in Requests \ {r} : requests'[x] = requests[x]
      BY <1>1, Stores DEF history, Ids, Fresh, Unborn
    <2>2. CASE c # q.client
      <3>1. HasAlias(c)' => HasAlias(c)
        BY <1>1, <2>2, Stores DEF HasAlias
      <3>2. Owned(c) => Owned(c)'
        BY <2>1, <2>2, OwnedKept
      <3> QED BY <3>1, <3>2 DEF Holding
    <2>3. CASE c = q.client /\ requests'[r] = [q EXCEPT !.pc = "app"]
      <3>1. requests'[r].op = "createApp" /\ requests'[r].client = c
        BY <2>1, <2>3 DEF Shape, TypeOK, Request
      <3> QED BY <3>1 DEF Holding, Owned, Working
    <2>4. CASE c = q.client /\ UNCHANGED clients
      BY <2>1, <2>4 DEF Holding, HasAlias
    <2> QED BY <1>1, <2>2, <2>3, <2>4, Stores
  <1>2. CASE CreateApp(r)
    <2>1. /\ UNCHANGED <<clients, overrun, abandoned>> /\ q.op = "createApp"
          /\ q.app \in Apps /\ q.client \in Clients /\ apps[q.app] = NoApp
      BY <1>2 DEF CreateApp, Is, history, Shape, LocalOK, AppOps, Ids, Fresh
    <2>2. CASE UNCHANGED apps /\ To(r, "undo")
      <3>1. \A x \in Requests : requests'[x].op = requests[x].op
                                /\ requests'[x].client = requests[x].client
        BY <2>2, Moved
      <3>2. Owned(c) => Owned(c)'
        BY <2>1, <2>2, <3>1, OwnedKept
      <3> QED BY <2>1, <3>2 DEF Holding, HasAlias
    <2>3. CASE /\ apps' = [apps EXCEPT ![q.app]
                             = [name |-> q.name, url |-> q.url, client |-> q.client]]
               /\ Answer(r)
      <3>1. /\ apps'[q.app].client = q.client /\ apps'[q.app] \in AppRow
            /\ \A a \in Apps \ {q.app} : apps'[a] = apps[a]
        <4>1. q.name \in Names /\ q.url \in Urls
          BY <2>1 DEF Shape, LocalOK
        <4> QED BY <2>1, <2>3, <4>1 DEF Shape, TypeOK, AppRow
      <3>2. \A x \in Requests \ {r} : requests'[x] = requests[x]
        BY <2>3, Answered
      <3>3. Owned(c) => Owned(c)'
        BY <2>1, <3>1, <3>2, NoAppIsNoRow DEF Owned, AppsOf, Working
      <3> QED BY <2>1, <3>3 DEF Holding, HasAlias
    <2> QED BY <1>2, <2>2, <2>3 DEF CreateApp
  <1>3. CASE Undo(r) \/ RemoveAppClient(r)
    <2>1. /\ UNCHANGED <<apps, overrun, abandoned>> /\ Removed(q.client)
          /\ \A x \in Requests \ {r} : requests'[x] = requests[x]
      BY <1>3, Answered DEF Undo, RemoveAppClient, history
    <2>2. HasAlias(c)' => HasAlias(c)
      BY <2>1, Removes DEF HasAlias
    <2>3. CASE c # q.client
      <3>1. Owned(c) => Owned(c)'
        BY <2>1, <2>3, OwnedKept
      <3> QED BY <2>2, <3>1 DEF Holding
    <2>4. CASE c = q.client
      <3>1. HasAlias(c)' => AppsOf(c) # {}
        BY <2>1, <2>4 DEF Removed, HasAlias, Shape, TypeOK
      <3> QED BY <2>1, <3>1 DEF Holding, Owned, AppsOf
    <2> QED BY <2>3, <2>4
  <1>4. CASE Rename(r) \/ WriteUris(r)
    <2>1. /\ UNCHANGED <<apps, overrun, abandoned>> /\ q.op = "updateApp"
          /\ \A x \in Requests \ {r} : requests'[x] = requests[x]
      BY <1>4, Writes DEF history
    <2>2. HasAlias(c)' => HasAlias(c)
      BY <1>4, Writes, NoClientIsNoRow DEF HasAlias
    <2>3. Owned(c) => Owned(c)'
      BY <2>1, OwnedKept
    <2> QED BY <2>2, <2>3 DEF Holding
  <1>5. CASE FindUris(r)
    <2>1. UNCHANGED <<clients, apps, overrun, abandoned>> /\ q.op = "updateApp"
      BY <1>5 DEF FindUris, Is, tables, history
    <2>2. \A x \in Requests \ {r} : requests'[x] = requests[x]
      BY <1>5, Answered DEF FindUris, Shape, TypeOK
    <2>3. Owned(c) => Owned(c)'
      BY <2>1, <2>2, OwnedKept
    <2> QED BY <2>1, <2>3 DEF Holding, HasAlias
  <1>6. CASE SaveApp(r)
    <2>1. /\ UNCHANGED <<clients, overrun, abandoned>> /\ q.op = "updateApp" /\ q.app \in Apps
          /\ q.client = q.appRow.client /\ q.appRow \in AppRow
          /\ q.name \in Names /\ q.url \in Urls /\ q.client \in Clients
      BY <1>6 DEF SaveApp, Is, Shape, LocalOK, AppOps
    <2>2. PICK row : row = [q.appRow EXCEPT !.name = q.name, !.url = q.url]
      OBVIOUS
    <2>3. row.client = q.client /\ row \in AppRow
      BY <2>1, <2>2 DEF AppRow
    <2>4. apps' = IF Storable(q.app, row) THEN [apps EXCEPT ![q.app] = row] ELSE apps
      BY <1>6, <2>2 DEF SaveApp
    <2>5. \A x \in Requests \ {r} : requests'[x] = requests[x]
      BY <1>6, Answered DEF SaveApp
    <2>6. apps[q.app] # NoApp => apps[q.app].client = q.client
      <3>1. apps[q.app] # NoApp => apps[q.app].client \in Clients
        BY <2>1 DEF Shape, TypeOK, AppRow
      <3> QED BY <2>1, <3>1 DEF Ids, Paired, Tied, AppOps
    <2>7. AppsOf(c) \subseteq AppsOf(c)'
      BY <2>1, <2>3, <2>4, <2>6, NoAppIsNoRow DEF AppsOf, Shape, TypeOK
    <2>8. Owned(c) => Owned(c)'
      BY <2>1, <2>5, <2>7 DEF Owned, Working
    <2> QED BY <2>1, <2>8 DEF Holding, HasAlias
  <1>7. CASE RemoveApp(r)
    <2>1. /\ UNCHANGED <<clients, overrun, abandoned>> /\ q.op = "deleteApp" /\ q.app \in Apps
          /\ \A a \in Apps \ {q.app} : apps'[a] = apps[a]
          /\ q.client \in Clients
      BY <1>7 DEF RemoveApp, Is, history, Shape, TypeOK, LocalOK, AppOps
    <2>2. apps[q.app] # NoApp => apps[q.app].client = q.client
      <3>1. apps[q.app] # NoApp => apps[q.app].client \in Clients
        BY <2>1 DEF Shape, TypeOK, AppRow
      <3> QED BY <2>1, <3>1 DEF Ids, Paired, Tied, AppOps
    <2>3. \A x \in Requests : requests'[x].op = requests[x].op
                              /\ requests'[x].client = requests[x].client
      BY <1>7, Moved DEF RemoveApp
    <2>4. Owned(c) => Owned(c)'
      <3>1. CASE c = q.client
        BY <2>1, <2>3, <3>1 DEF Owned, Working
      <3>2. CASE c # q.client
        <4>1. AppsOf(c) \subseteq AppsOf(c)'
          BY <2>1, <2>2, <3>2 DEF AppsOf
        <4> QED BY <2>1, <2>3, <4>1 DEF Owned, Working
      <3> QED BY <3>1, <3>2
    <2> QED BY <2>1, <2>4 DEF Holding, HasAlias
  <1> QED BY <1>1, <1>2, <1>3, <1>4, <1>5, <1>6, <1>7

LEMMA NextHolding ==
  ASSUME Shape, Ids, [Next]_vars, NEW c \in Clients, Holding(c)
  PROVE  Holding(c)'
  <1>1. CASE Tick
    <2>1. UNCHANGED <<apps, overrun, abandoned>>
      BY <1>1, Ages
    <2>2. HasAlias(c)' => HasAlias(c)
      BY <1>1, Ages, NoClientIsNoRow DEF HasAlias
    <2>3. \A x \in Requests : requests'[x].op = requests[x].op
                              /\ requests'[x].client = requests[x].client
      <3>1. TAKE x \in Requests
      <3>2. PICK q \in Request : q = requests[x] /\ requests'[x] = [q EXCEPT !.row = AgedRow(@)]
        BY <1>1, Ages DEF Shape, TypeOK
      <3> QED BY ONLY <3>2 DEF Request
    <2>4. Owned(c) => Owned(c)'
      BY <2>1, <2>3, OwnedKept
    <2> QED BY <2>2, <2>4 DEF Holding
  <1>2. CASE Crash
    <2>1. UNCHANGED <<clients, apps, overrun>> /\ abandoned \subseteq abandoned'
      BY <1>2 DEF Crash, tables
    <2>2. \A x \in Requests : requests[x].op \in {"createApp", "deleteApp"} =>
             requests[x].client \in abandoned'
      BY <1>2 DEF Crash, Working
    <2>3. Owned(c) => Owned(c)'
      BY <2>1, <2>2, OwnedKept
    <2> QED BY <2>1, <2>3 DEF Holding, HasAlias
  <1>3. CASE UNCHANGED vars
    BY <1>3 DEF vars, tables, history, Holding, HasAlias, Owned, AppsOf, Working
  <1> QED BY <1>1, <1>2, <1>3, HoldingByClients, HoldingByBeginnings, HoldingByApps
          DEF Next, OnApps

\* A client that was created for an application is beside it, or beside the
\* request that creates or deletes it; or the server stopped in that, or a save
\* brought the client back.
THEOREM NoneAstray == Spec => []NoStrayClients
  <1> DEFINE Inv == \A c \in Clients : Holding(c)
  <1>1. Init => Inv
    BY DEF Init, Holding, HasAlias
  <1>2. Shape /\ Ids /\ Inv /\ [Next]_vars => Inv'
    BY NextHolding
  <1>3. Inv => NoStrayClients
    BY DEF Holding, HasAlias, Owned, NoStrayClients
  <1> HIDE DEF Inv
  <1> QED BY <1>1, <1>2, <1>3, IdsHold, PTL DEF Spec

-----------------------------------------------------------------------------
(* Secrets as they were handed out.                                        *)

\* The client has the secret for the time that was promised.
Keeping(c) ==
    clients[c] # NoClient /\ c \notin overrun =>
        \A s \in Secrets : given[s].client = c =>
            ~clients[c].public /\ clients[c].secrets[s] = given[s].left

LEMMA KeepingKept ==
  ASSUME NEW c \in Clients, Keeping(c), overrun \subseteq overrun',
         \A s \in Secrets : given'[s].client = c => given'[s] = given[s],
         \/ clients'[c] = NoClient
         \/ c \in overrun'
         \/ /\ clients[c] # NoClient
            /\ clients'[c].public = clients[c].public
            /\ clients'[c].secrets = clients[c].secrets
  PROVE  Keeping(c)'
  BY DEF Keeping

LEMMA CreateClientKeeping ==
  ASSUME Shape, Ids, NEW r \in Requests, NEW d \in Clients, NEW s \in Secrets, NEW u \in Urls,
         CreateClient(r, d, s, u), NEW c \in Clients, Keeping(c)
  PROVE  Keeping(c)'
  <1>1. d \notin drawn /\ UNCHANGED overrun /\ given' = Given(d, s)
    BY DEF CreateClient
  <1>2. \A x \in Secrets : given[x].client # d
    BY <1>1, NullsAreNoValues DEF Ids, Drawn
  <1>3. /\ given'[s] = [client |-> d, left |-> Open]
        /\ \A x \in Secrets \ {s} : given'[x] = given[x]
    <2>1. \A x \in Secrets \ {s} : given[x] # [client |-> d, left |-> Open]
      BY <1>2
    <2> QED BY <1>1, <2>1 DEF Given
  <1>4. CASE c = d
    <2>1. PICK new : new = [secrets |-> [NoSecrets EXCEPT ![s] = Open], public |-> FALSE,
                            uris |-> {u}, name |-> NoName, alias |-> NoName]
      OBVIOUS
    <2>2. clients'[c] = new
      BY <1>4, <2>1 DEF CreateClient, Shape, TypeOK
    <2>3. new.public = FALSE /\ new.secrets[s] = Open
      BY <2>1 DEF NoSecrets
    <2> QED BY <1>2, <1>3, <1>4, <2>2, <2>3 DEF Keeping
  <1>5. CASE c # d
    <2>1. clients'[c] = clients[c]
      BY <1>5 DEF CreateClient, Shape, TypeOK
    <2>2. \A x \in Secrets : given'[x].client = c => given'[x] = given[x]
      BY <1>3, <1>5
    <2> QED BY <1>1, <2>1, <2>2, KeepingKept
  <1> QED BY <1>4, <1>5

LEMMA RotateKeeping ==
  ASSUME Shape, Ids, NEW r \in Requests, NEW s \in Secrets, Rotate(r, s),
         NEW c \in Clients, Keeping(c)
  PROVE  Keeping(c)'
  <1> DEFINE d == requests[r].client
             old == requests[r].row
  <1>1. /\ d \in Clients /\ old \in Row /\ given' = Given(d, s)
        /\ \A x \in Clients \ {d} : clients'[x] = clients[x]
        /\ clients[d] # old => d \in overrun'
        /\ overrun \subseteq overrun'
    BY Saves DEF Rotate
  <1>2. given'[s] = [client |-> d, left |-> Open]
    BY <1>1 DEF Given
  <1>3. CASE c # d
    <2>1. \A x \in Secrets : given'[x].client = c => given'[x] = given[x]
      BY <1>1, <1>3 DEF Given
    <2> QED BY <1>1, <1>3, <2>1, KeepingKept
  <1>4. CASE c = d /\ clients[c] # old
    BY <1>1, <1>4 DEF Keeping
  <1>5. CASE c = d /\ clients[c] = old
    <2>1. old.secrets \in [Secrets -> Expiry] /\ old # NoClient
      BY <1>1, NoClientIsNoRow DEF Row
    <2>2. PICK new : new = [old EXCEPT !.public = FALSE,
                                       !.secrets = WithSecret(old.secrets, s)]
      OBVIOUS
    <2>3. new.public = FALSE /\ new.secrets = WithSecret(old.secrets, s)
      BY <1>1, <2>2 DEF Row
    <2>4. clients'[c] = new
      BY <1>1, <1>5, <2>2 DEF Rotate, SaveClient, Shape, TypeOK
    <2>5. ASSUME NEW x \in Secrets, given'[x].client = c, c \notin overrun
          PROVE  new.secrets[x] = given'[x].left
      <3>1. CASE x = s
        BY <1>2, <2>3, <3>1 DEF WithSecret
      <3>2. CASE x # s
        <4>1. given[x] \in [client : Clients \cup {NoClient}, left : Expiry]
          BY DEF Shape, TypeOK
        <4>2. CASE given[x].client = c /\ given[x].left = Open
          <5>1. given[x] = [client |-> d, left |-> Open]
            BY <1>5, <4>1, <4>2
          <5>2. given'[x].left = Overlap
            BY <1>1, <3>2, <5>1 DEF Given
          <5>3. old.secrets[x] = Open
            BY <1>5, <2>1, <2>5, <4>2 DEF Keeping
          <5> QED BY <2>3, <3>2, <5>2, <5>3 DEF WithSecret
        <4>3. CASE ~(given[x].client = c /\ given[x].left = Open)
          <5>1. given[x] # [client |-> d, left |-> Open]
            BY <1>5, <4>3
          <5>2. given'[x] = given[x]
            BY <1>1, <3>2, <5>1 DEF Given
          <5>3. old.secrets[x] = given[x].left /\ given[x].left # Open
            BY <1>5, <2>1, <2>5, <4>3, <5>2 DEF Keeping
          <5> QED BY <2>3, <3>2, <5>2, <5>3 DEF WithSecret
        <4> QED BY <4>2, <4>3
      <3> QED BY <3>1, <3>2
    <2> QED BY <1>1, <2>3, <2>4, <2>5 DEF Keeping
  <1> QED BY <1>3, <1>4, <1>5

LEMMA UpdateKeeping ==
  ASSUME Shape, NEW r \in Requests, Update(r), NEW c \in Clients, Keeping(c)
  PROVE  Keeping(c)'
  <1> DEFINE d == requests[r].client
             old == requests[r].row
  <1>1. /\ d \in Clients /\ old \in Row /\ UNCHANGED given
        /\ \A x \in Clients \ {d} : clients'[x] = clients[x]
        /\ clients[d] # old => d \in overrun'
        /\ overrun \subseteq overrun'
    BY Saves DEF Update
  <1>2. CASE c # d \/ clients[c] # old
    BY <1>1, <1>2, KeepingKept
  <1>3. CASE c = d /\ clients[c] = old
    <2>1. PICK new : new = [old EXCEPT !.uris = requests[r].uris]
      OBVIOUS
    <2>2. new.public = old.public /\ new.secrets = old.secrets /\ old # NoClient
      BY <1>1, <2>1, NoClientIsNoRow DEF Row
    <2>3. clients'[c] = new
      BY <1>1, <1>3, <2>1 DEF Update, SaveClient, Shape, TypeOK
    <2> QED BY <1>1, <1>3, <2>2, <2>3, KeepingKept
  <1> QED BY <1>2, <1>3

LEMMA TickKeeping ==
  ASSUME Shape, Tick, NEW c \in Clients, Keeping(c)
  PROVE  Keeping(c)'
  <1>1. UNCHANGED overrun /\ \A s \in Secrets : /\ given'[s].client = given[s].client
                                                /\ given'[s].left = Aged(given[s].left)
    BY Ages
  <1>2. CASE clients'[c] = NoClient
    BY <1>2 DEF Keeping
  <1>3. CASE /\ clients[c] \in Row
             /\ clients'[c].public = clients[c].public
             /\ \A s \in Secrets : clients'[c].secrets[s] = Aged(clients[c].secrets[s])
    BY <1>1, <1>3, NoClientIsNoRow DEF Keeping
  <1> QED BY <1>2, <1>3, Ages

LEMMA NextKeeping ==
  ASSUME Shape, Ids, [Next]_vars, NEW c \in Clients, Keeping(c)
  PROVE  Keeping(c)'
  <1>1. ASSUME NEW r \in Requests, OnClients(r) PROVE Keeping(c)'
    <2>1. ASSUME NEW d \in Clients, NEW op, NEW uris, Read(r, op, d, uris) PROVE Keeping(c)'
      <3>1. \E next : Begin(r, next)
        BY <2>1 DEF Read
      <3>2. UNCHANGED <<clients, given, overrun>>
        BY <3>1, Started
      <3> QED BY <3>2 DEF Keeping
    <2>2. CASE Delete(r)
      <3>1. UNCHANGED <<given, overrun>> /\ Removed(requests[r].client)
        BY <2>2 DEF Delete, history
      <3> QED BY <3>1, Removes, KeepingKept
    <2> QED BY <1>1, <2>1, <2>2, CreateClientKeeping, RotateKeeping, UpdateKeeping
            DEF OnClients
  <1>2. ASSUME NEW r \in Requests, OnApps(r) PROVE Keeping(c)'
    <2>1. CASE \/ \E a \in Apps, d \in Clients, n \in Names, u \in Urls :
                     BeginCreateApp(r, a, d, n, u)
               \/ \E a \in Apps, n \in Names, u \in Urls : BeginUpdateApp(r, a, n, u)
               \/ \E a \in Apps : BeginDeleteApp(r, a)
      <3>1. \E next : Begin(r, next)
        BY <2>1 DEF BeginCreateApp, BeginUpdateApp, BeginDeleteApp
      <3>2. UNCHANGED <<clients, given, overrun>>
        BY <3>1, Started
      <3> QED BY <3>2 DEF Keeping
    <2>2. CASE CreateAppClient(r)
      <3>1. UNCHANGED <<given, overrun>> /\ Unborn(requests[r]) /\ Fresh(r)
        BY <2>2, Stores DEF history, Ids
      <3>2. CASE c = requests[r].client
        BY <3>1, <3>2 DEF Fresh, Keeping
      <3>3. CASE c # requests[r].client
        <4>1. clients'[c] = clients[c]
          BY <2>2, <3>3, Stores
        <4> QED BY <3>1, <4>1 DEF Keeping
      <3> QED BY <3>2, <3>3
    <2>3. CASE Rename(r) \/ WriteUris(r)
      <3>1. UNCHANGED <<given, overrun>>
        BY <2>3, Writes DEF history
      <3>2. CASE c # requests[r].client \/ UNCHANGED clients
        <4>1. clients'[c] = clients[c]
          BY <2>3, <3>2, Writes
        <4> QED BY <3>1, <4>1 DEF Keeping
      <3>3. CASE c = requests[r].client /\ ~UNCHANGED clients
        <4>1. /\ clients[c] # NoClient /\ clients'[c].public = clients[c].public
              /\ clients'[c].secrets = clients[c].secrets
          BY <2>3, <3>3, Writes, NoClientIsNoRow
        <4> QED BY <3>1, <4>1, KeepingKept
      <3> QED BY <3>2, <3>3
    <2>4. CASE Undo(r) \/ RemoveAppClient(r)
      <3>1. UNCHANGED <<given, overrun>> /\ Removed(requests[r].client)
        BY <2>4 DEF Undo, RemoveAppClient, history
      <3> QED BY <3>1, Removes, KeepingKept
    <2>5. CASE CreateApp(r) \/ FindUris(r) \/ SaveApp(r) \/ RemoveApp(r)
      <3>1. UNCHANGED <<clients, given, overrun>>
        BY <2>5 DEF CreateApp, FindUris, SaveApp, RemoveApp, tables, history
      <3> QED BY <3>1 DEF Keeping
    <2> QED BY <1>2, <2>1, <2>2, <2>3, <2>4, <2>5 DEF OnApps
  <1>3. CASE Crash \/ UNCHANGED vars
    <2>1. UNCHANGED <<clients, given, overrun>>
      BY <1>3 DEF Crash, vars, tables, history
    <2> QED BY <2>1 DEF Keeping
  <1> QED BY <1>1, <1>2, <1>3, TickKeeping DEF Next

\* A secret that was handed out is accepted for the time that was promised, and
\* no longer, while no save writes the client over a later row.
THEOREM SecretsHold == Spec => []SecretsAsHandedOut
  <1> DEFINE Inv == \A c \in Clients : Keeping(c)
  <1>1. Init => Inv
    BY DEF Init, Keeping
  <1>2. Shape /\ Ids /\ Inv /\ [Next]_vars => Inv'
    BY NextKeeping
  <1>3. Inv => SecretsAsHandedOut
    BY DEF Keeping, Accepts, SecretsAsHandedOut
  <1> HIDE DEF Inv
  <1> QED BY <1>1, <1>2, <1>3, IdsHold, PTL DEF Spec

-----------------------------------------------------------------------------
(* Applications can sign in.                                               *)

Marked == unsettled \cup overrun

Updates(r, a) == requests[r].op = "updateApp" /\ requests[r].app = a

\* How far an update that nobody disturbs has brought the client.
Underway(q, client) ==
    /\ q.pc = "name" => q.appRow.url \in client.uris /\ client.name = q.appRow.name
    /\ q.pc = "find" => q.appRow.url \in client.uris /\ client.name = q.name
    /\ q.pc = "uris" => q.url \in q.uris /\ client.name = q.name
    /\ q.pc = "save" => q.url \in client.uris /\ client.name = q.name

Matches(row, client) == row.url \in client.uris /\ client.name = row.name

Signing(a) ==
    apps[a] # NoApp /\ apps[a].client \notin Marked =>
        /\ (\A r \in Requests : ~Updates(r, a)) => Matches(apps[a], clients[apps[a].client])
        /\ \A r \in Requests :
              Updates(r, a) /\ (\A s \in Requests \ {r} : ~Updates(s, a)) =>
                 /\ requests[r].appRow = apps[a]
                 /\ Underway(requests[r], clients[apps[a].client])

\* The client of an application that is about to be stored.
Coming(r) ==
    requests[r].op = "createApp" /\ requests[r].pc = "app"
    /\ requests[r].client \notin Marked /\ clients[requests[r].client] # NoClient =>
        Matches(requests[r], clients[requests[r].client])

SignIn == (\A a \in Apps : Signing(a)) /\ \A r \in Requests : Coming(r)

\* The client is as it was, or marked.
Stays(c) ==
    /\ Marked \subseteq Marked'
    /\ \/ clients'[c].uris = clients[c].uris /\ clients'[c].name = clients[c].name
          /\ (clients'[c] # NoClient => clients[c] # NoClient)
       \/ c \in Marked'

\* The updates of the application are as they were.
SameUpdates(a) ==
    \A r \in Requests :
        \/ ~Updates(r, a) /\ ~Updates(r, a)'
        \/ /\ Updates(r, a) /\ Updates(r, a)'
           /\ requests'[r].appRow = requests[r].appRow /\ requests'[r].pc = requests[r].pc
           /\ requests'[r].name = requests[r].name /\ requests'[r].url = requests[r].url
           /\ requests'[r].uris = requests[r].uris

LEMMA SigningKept ==
  ASSUME NEW a \in Apps, Signing(a), apps'[a] = apps[a],
         apps[a] # NoApp => Stays(apps[a].client), SameUpdates(a)
  PROVE  Signing(a)'
  <1>1. SUFFICES ASSUME apps[a] # NoApp, apps[a].client \notin Marked' PROVE Signing(a)'
    BY DEF Signing
  <1>2. /\ apps[a].client \notin Marked
        /\ clients'[apps[a].client].uris = clients[apps[a].client].uris
        /\ clients'[apps[a].client].name = clients[apps[a].client].name
    BY <1>1 DEF Stays
  <1>3. (\A r \in Requests : ~Updates(r, a)') =>
           Matches(apps[a], clients[apps[a].client])'
    BY <1>1, <1>2 DEF Signing, SameUpdates, Matches
  <1>4. ASSUME NEW r \in Requests, Updates(r, a)', \A s \in Requests \ {r} : ~Updates(s, a)'
        PROVE  requests'[r].appRow = apps[a]
               /\ Underway(requests[r], clients[apps[a].client])'
    <2>1. Updates(r, a) /\ \A s \in Requests \ {r} : ~Updates(s, a)
      BY <1>4 DEF SameUpdates
    <2>2. /\ requests'[r].appRow = requests[r].appRow /\ requests'[r].pc = requests[r].pc
          /\ requests'[r].name = requests[r].name /\ requests'[r].url = requests[r].url
          /\ requests'[r].uris = requests[r].uris
      BY <1>4 DEF SameUpdates
    <2>3. requests[r].appRow = apps[a] /\ Underway(requests[r], clients[apps[a].client])
      BY <1>1, <1>2, <2>1 DEF Signing
    <2> QED BY <1>2, <2>2, <2>3 DEF Underway
  <1> QED BY <1>3, <1>4 DEF Signing

LEMMA ComingKept ==
  ASSUME NEW r \in Requests, Coming(r),
         Stays(requests[r].client) \/ clients'[requests[r].client] = NoClient,
         \/ requests'[r].op # "createApp" \/ requests'[r].pc # "app"
         \/ /\ requests'[r].op = requests[r].op /\ requests'[r].pc = requests[r].pc
            /\ requests'[r].client = requests[r].client
            /\ requests'[r].name = requests[r].name /\ requests'[r].url = requests[r].url
  PROVE  Coming(r)'
  BY DEF Coming, Stays, Matches

\* Clients and applications that stay, and no update that moves.
LEMMA SignInKept ==
  ASSUME Shape, SignIn, UNCHANGED apps,
         \A a \in Apps : apps[a] # NoApp => Stays(apps[a].client),
         \A a \in Apps : SameUpdates(a),
         \A r \in Requests :
            \/ requests'[r].op # "createApp" \/ requests'[r].pc # "app"
            \/ /\ Stays(requests[r].client) \/ clients'[requests[r].client] = NoClient
               /\ requests'[r].op = requests[r].op /\ requests'[r].pc = requests[r].pc
               /\ requests'[r].client = requests[r].client
               /\ requests'[r].name = requests[r].name /\ requests'[r].url = requests[r].url
  PROVE  SignIn'
  <1>1. \A a \in Apps : Signing(a)'
    BY SigningKept DEF SignIn
  <1>2. ASSUME NEW r \in Requests PROVE Coming(r)'
    <2>1. CASE requests'[r].op # "createApp" \/ requests'[r].pc # "app"
      BY <2>1 DEF Coming
    <2>2. CASE ~(requests'[r].op # "createApp" \/ requests'[r].pc # "app")
      BY <2>2, ComingKept DEF SignIn
    <2> QED BY <2>1, <2>2
  <1> QED BY <1>1, <1>2 DEF SignIn

\* Only r changes, and it is no update, before or after.
LEMMA SameUpdatesBut ==
  ASSUME NEW r \in Requests, \A q \in Requests \ {r} : requests'[q] = requests[q],
         requests[r].op # "updateApp", requests'[r].op # "updateApp", NEW a \in Apps
  PROVE  SameUpdates(a)
  BY DEF SameUpdates, Updates

\* The client of an application that is stored, or about to be, is not the one
\* of another request.
LEMMA TiedClient ==
  ASSUME Shape, Ids, NEW r \in Requests, requests[r].op \in AppOps, NEW a \in Apps,
         apps[a] # NoApp
  PROVE  a = requests[r].app <=> apps[a].client = requests[r].client
  <1>1. requests[r].app \in Apps /\ requests[r].client \in Clients /\ apps[a].client \in Clients
    BY DEF Shape, TypeOK, LocalOK, AppRow
  <1> QED BY <1>1 DEF Ids, Paired, Tied

LEMMA TiedRequest ==
  ASSUME Shape, Ids, NEW r \in Requests, requests[r].op \in AppOps, NEW s \in Requests,
         s # r, requests[s].op = "createApp"
  PROVE  requests[r].client # requests[s].client
  <1>1. /\ requests[r].app \in Apps /\ requests[r].client \in Clients
        /\ requests[s].app \in Apps /\ requests[s].client \in Clients
    BY DEF Shape, LocalOK, AppOps
  <1>2. requests[r].app # requests[s].app
    BY DEF Ids, Fresh
  <1>3. Tied(requests[r].app, requests[r].client) /\ Tied(requests[s].app, requests[s].client)
    BY DEF Tied, AppOps
  <1> QED BY <1>1, <1>2, <1>3 DEF Ids, Paired

LEMMA SavesStay ==
  ASSUME Shape, NEW r \in Requests, Update(r) \/ \E s \in Secrets : Rotate(r, s),
         NEW c \in Clients
  PROVE  Stays(c)
  <1> DEFINE d == requests[r].client
             old == requests[r].row
  <1>1. /\ d \in Clients /\ old \in Row /\ Marked \subseteq Marked'
        /\ \A x \in Clients \ {d} : clients'[x] = clients[x]
        /\ clients[d] # old => d \in Marked'
    BY Saves DEF Marked
  <1>2. CASE c # d \/ clients[c] # old
    BY <1>1, <1>2 DEF Stays
  <1>3. CASE Update(r)
    <2>1. d \in Marked'
      BY <1>3 DEF Update, Marked
    <2> QED BY <1>1, <1>2, <2>1 DEF Stays
  <1>4. ASSUME NEW s \in Secrets, Rotate(r, s), c = d, clients[c] = old PROVE Stays(c)
    <2>1. PICK new : new = [old EXCEPT !.public = FALSE,
                                       !.secrets = WithSecret(old.secrets, s)]
      OBVIOUS
    <2>2. new.uris = old.uris /\ new.name = old.name /\ old # NoClient
      BY <1>1, <2>1, NoClientIsNoRow DEF Row
    <2>3. clients'[c] = new
      BY <1>4, <2>1 DEF Rotate, SaveClient, Shape, TypeOK
    <2> QED BY <1>1, <1>4, <2>2, <2>3 DEF Stays
  <1> QED BY <1>2, <1>3, <1>4

LEMMA ClientsSignIn ==
  ASSUME Shape, Ids, SignIn, NEW r \in Requests, OnClients(r)
  PROVE  SignIn'
  <1>1. \A a \in Apps : apps[a] # NoApp => apps[a].client \in Clients
    BY DEF Shape, TypeOK, AppRow
  <1>2. \A q \in Requests : requests[q].op = "createApp" => requests[q].client \in Clients
    BY DEF Shape, LocalOK, AppOps
  <1>3. ASSUME NEW c \in Clients, NEW op \in {"rotate", "delete", "update"}, NEW uris,
               Read(r, op, c, uris)
        PROVE  SignIn'
    <2>1. PICK next :
             next = [Idle EXCEPT !.op = op, !.client = c, !.row = clients[c], !.uris = uris,
                                 !.pc = IF op = "delete" THEN "remove" ELSE "save"]
      OBVIOUS
    <2>2. next.op \notin {"updateApp", "createApp"}
      BY <2>1 DEF Idle
    <2>3. Begin(r, next)
      BY <1>3, <2>1 DEF Read
    <2>4. /\ UNCHANGED <<clients, apps, overrun, unsettled>> /\ requests[r].op = "none"
          /\ requests'[r] = next /\ \A q \in Requests \ {r} : requests'[q] = requests[q]
      BY <2>3, Started
    <2>5. \A d : Stays(d)
      BY <2>4 DEF Stays, Marked
    <2>6. \A a \in Apps : SameUpdates(a)
      BY <2>2, <2>4, SameUpdatesBut
    <2> QED BY <2>2, <2>4, <2>5, <2>6, SignInKept
  <1>4. ASSUME NEW c \in Clients, NEW s \in Secrets, NEW u \in Urls, CreateClient(r, c, s, u)
        PROVE  SignIn'
    <2>1. /\ UNCHANGED <<apps, requests, overrun, unsettled>> /\ c \notin drawn
          /\ \A d \in Clients \ {c} : clients'[d] = clients[d]
      BY <1>4 DEF CreateClient, Shape, TypeOK
    <2>2. \A d \in Clients : d # c => Stays(d)
      BY <2>1 DEF Stays, Marked
    <2>3. /\ \A a \in Apps : apps[a] # NoApp => apps[a].client # c
          /\ \A q \in Requests : requests[q].op = "createApp" => requests[q].client # c
      BY <1>2, <2>1, NullsAreNoValues DEF Ids, Drawn
    <2>4. \A a \in Apps : SameUpdates(a)
      BY <2>1 DEF SameUpdates, Updates
    <2> QED BY <1>1, <1>2, <2>1, <2>2, <2>3, <2>4, SignInKept
  <1>5. CASE Update(r) \/ \E s \in Secrets : Rotate(r, s)
    <2>1. /\ UNCHANGED apps /\ requests'[r] = Idle /\ requests[r].op \in {"rotate", "update"}
          /\ \A q \in Requests \ {r} : requests'[q] = requests[q]
      BY <1>5, Saves
    <2>2. \A c \in Clients : Stays(c)
      BY <1>5, SavesStay
    <2>3. \A a \in Apps : SameUpdates(a)
      BY <2>1, IdleShape, SameUpdatesBut
    <2> QED BY <1>1, <1>2, <2>1, <2>2, <2>3, IdleShape, SignInKept
  <1>6. CASE Delete(r)
    <2>1. /\ UNCHANGED <<apps, overrun, unsettled>> /\ Removed(requests[r].client)
          /\ requests[r].op = "delete" /\ requests'[r] = Idle
          /\ \A q \in Requests \ {r} : requests'[q] = requests[q]
      BY <1>6, Answered DEF Delete, Is, history
    <2>2. \A c \in Clients : \/ Stays(c)
                             \/ clients'[c] = NoClient /\ AppsOf(c) = {}
      BY <2>1, Removes DEF Stays, Marked
    <2>3. \A a \in Apps : apps[a] # NoApp => Stays(apps[a].client)
      BY <1>1, <2>2 DEF AppsOf
    <2>4. \A a \in Apps : SameUpdates(a)
      BY <2>1, IdleShape, SameUpdatesBut
    <2> QED BY <1>2, <2>1, <2>2, <2>3, <2>4, IdleShape, SignInKept
  <1> QED BY <1>3, <1>4, <1>5, <1>6 DEF OnClients

LEMMA BeginningsSignIn ==
  ASSUME Shape, Ids, SignIn, NEW r \in Requests,
         \/ \E a \in Apps, c \in Clients, n \in Names, u \in Urls : BeginCreateApp(r, a, c, n, u)
         \/ \E a \in Apps, n \in Names, u \in Urls : BeginUpdateApp(r, a, n, u)
         \/ \E a \in Apps : BeginDeleteApp(r, a)
  PROVE  SignIn'
  <1>1. \E next : Begin(r, next)
    BY DEF BeginCreateApp, BeginUpdateApp, BeginDeleteApp
  <1>2. /\ UNCHANGED <<clients, apps, overrun, unsettled>> /\ requests[r].op = "none"
        /\ \A q \in Requests \ {r} : requests'[q] = requests[q]
    BY <1>1, Started
  <1>3. \A d : Stays(d)
    BY <1>2 DEF Stays, Marked
  <1>4. CASE /\ requests'[r].op # "updateApp"
             /\ requests'[r].op # "createApp" \/ requests'[r].pc # "app"
    <2>1. \A a \in Apps : SameUpdates(a)
      BY <1>2, <1>4, SameUpdatesBut
    <2> QED BY <1>2, <1>3, <1>4, <2>1, SignInKept
  <1>5. ASSUME NEW a \in Apps, NEW c \in Clients, NEW n \in Names, NEW u \in Urls,
               BeginCreateApp(r, a, c, n, u)
        PROVE  SignIn'
    <2>1. requests'[r].op = "createApp" /\ requests'[r].pc = "client"
      BY <1>5 DEF BeginCreateApp, Begin, Idle, Shape, TypeOK
    <2> QED BY <1>4, <2>1
  <1>6. ASSUME NEW a \in Apps, BeginDeleteApp(r, a) PROVE SignIn'
    <2>1. requests'[r].op = "deleteApp"
      BY <1>6 DEF BeginDeleteApp, Begin, Idle, Shape, TypeOK
    <2> QED BY <1>4, <2>1
  <1>7. ASSUME NEW a \in Apps, NEW n \in Names, NEW u \in Urls, BeginUpdateApp(r, a, n, u)
        PROVE  SignIn'
    <2>1. /\ requests'[r].op = "updateApp" /\ requests'[r].app = a
          /\ requests'[r].appRow = apps[a] /\ requests'[r].pc = First(apps[a], n, u)
          /\ requests'[r].name = n /\ requests'[r].url = u
      BY <1>7 DEF BeginUpdateApp, Begin, Idle, Shape, TypeOK
    <2>2. \A q \in Requests : Coming(q)'
      <3>1. ASSUME NEW q \in Requests PROVE Coming(q)'
        <4>1. CASE q = r
          BY <2>1, <4>1 DEF Coming
        <4>2. CASE q # r
          BY <1>2, <1>3, <4>2, ComingKept DEF SignIn
        <4> QED BY <4>1, <4>2
      <3> QED BY <3>1
    <2>3. \A b \in Apps \ {a} : Signing(b)'
      <3>1. ASSUME NEW b \in Apps \ {a} PROVE Signing(b)'
        <4>1. SameUpdates(b)
          BY <1>2, <2>1 DEF SameUpdates, Updates
        <4> QED BY <1>2, <1>3, <4>1, SigningKept DEF SignIn
      <3> QED BY <3>1
    <2>4. Signing(a)'
      <3>1. Updates(r, a)' /\ \A s \in Requests \ {r} : Updates(s, a)' <=> Updates(s, a)
        BY <1>2, <2>1 DEF Updates
      <3>2. CASE \E s \in Requests : Updates(s, a)
        <4>1. \E s \in Requests \ {r} : Updates(s, a)'
          BY <1>2, <3>1, <3>2 DEF Updates
        <4> QED BY <3>1, <4>1 DEF Signing
      <3>3. CASE \A s \in Requests : ~Updates(s, a)
        <4>1. ASSUME apps[a].client \notin Marked', apps[a] # NoApp
              PROVE  Underway(requests[r], clients[apps[a].client])'
          <5>1. Matches(apps[a], clients[apps[a].client])
            BY <1>2, <3>3, <4>1 DEF SignIn, Signing, Marked
          <5> QED BY <1>2, <2>1, <5>1 DEF Underway, Matches, First
        <4> QED BY <1>2, <2>1, <3>1, <3>3, <4>1 DEF Signing
      <3> QED BY <3>2, <3>3
    <2> QED BY <2>2, <2>3, <2>4 DEF SignIn
  <1> QED BY <1>5, <1>6, <1>7

LEMMA CreationsSignIn ==
  ASSUME Shape, Ids, SignIn, NEW r \in Requests,
         CreateAppClient(r) \/ CreateApp(r) \/ Undo(r) \/ RemoveApp(r) \/ RemoveAppClient(r)
  PROVE  SignIn'
  <1> DEFINE q == requests[r]
  <1>1. \A a \in Apps : apps[a] # NoApp => apps[a].client \in Clients
    BY DEF Shape, TypeOK, AppRow
  <1>2. \A x \in Requests : requests[x].op = "createApp" => requests[x].client \in Clients
    BY DEF Shape, LocalOK, AppOps
  <1>3. /\ UNCHANGED <<overrun, unsettled>> /\ q.op \in {"createApp", "deleteApp"}
        /\ q.app \in Apps /\ q.client \in Clients
        /\ \A x \in Requests \ {r} : requests'[x] = requests[x]
        /\ requests'[r].op # "updateApp"
    <2>1. UNCHANGED <<overrun, unsettled>> /\ q.op \in {"createApp", "deleteApp"}
      BY DEF CreateAppClient, CreateApp, Undo, RemoveApp, RemoveAppClient, Is, history
    <2>2. Answer(r) \/ \E pc : To(r, pc)
      BY DEF CreateAppClient, CreateApp, Undo, RemoveApp, RemoveAppClient
    <2>3. q.app \in Apps /\ q.client \in Clients
      BY <2>1 DEF Shape, LocalOK, AppOps
    <2> QED BY <2>1, <2>2, <2>3, Answered, Moved, IdleShape
  <1>4. \A a \in Apps : SameUpdates(a)
    BY <1>3, SameUpdatesBut
  <1>5. CASE CreateAppClient(r)
    <2>1. UNCHANGED apps /\ Unborn(q) /\ Fresh(r) /\ clients[q.client] = NoClient
      BY <1>5, Stores DEF Ids, Fresh
    <2>2. \A c \in Clients \ {q.client} : Stays(c)
      BY <1>3, <1>5, Stores DEF Stays, Marked
    <2>3. \A a \in Apps : Signing(a)'
      BY <1>1, <1>4, <2>1, <2>2, SigningKept DEF SignIn, Ids, Referred
    <2>4. ASSUME NEW x \in Requests \ {r} PROVE Coming(x)'
      <3>1. CASE requests[x].op # "createApp"
        BY <1>3, <3>1 DEF Coming
      <3>2. CASE requests[x].op = "createApp"
        <4>1. Stays(requests[x].client)
          BY <1>2, <2>1, <2>2, <3>2 DEF Fresh
        <4> QED BY <1>3, <4>1, ComingKept DEF SignIn
      <3> QED BY <3>1, <3>2
    <2>5. Coming(r)'
      <3>1. CASE requests'[r] = Idle
        BY <3>1, IdleShape DEF Coming
      <3>2. CASE /\ requests'[r] = [q EXCEPT !.pc = "app"]
                 /\ q.url \in clients'[q.client].uris
                 /\ clients'[q.client].name = q.name
        <4>1. /\ requests'[r].client = q.client /\ requests'[r].url = q.url
              /\ requests'[r].name = q.name
          BY <3>2 DEF Shape, TypeOK, Request
        <4> QED BY <3>2, <4>1 DEF Coming, Matches
      <3> QED BY <1>5, <3>1, <3>2, Stores
    <2> QED BY <2>3, <2>4, <2>5 DEF SignIn
  <1>6. CASE CreateApp(r)
    <2>1. /\ UNCHANGED clients /\ q.op = "createApp" /\ q.pc = "app" /\ Fresh(r)
          /\ q.name \in Names /\ q.url \in Urls
      BY <1>6 DEF CreateApp, Is, Ids, Shape, LocalOK
    <2>2. \A d : Stays(d)
      BY <1>3, <2>1 DEF Stays, Marked
    <2>3. \A x \in Requests : Coming(x)'
      <3>1. requests'[r].op # "createApp" \/ requests'[r].pc # "app"
        <4>1. CASE Answer(r)
          BY <4>1, Answered, IdleShape
        <4>2. CASE To(r, "undo")
          <5>1. requests'[r] = [q EXCEPT !.pc = "undo"] /\ q \in Request
            BY <4>2, Moved DEF Shape, TypeOK
          <5> QED BY <5>1 DEF Request
        <4> QED BY <1>6, <4>1, <4>2 DEF CreateApp
      <3>2. Coming(r)'
        BY <3>1 DEF Coming
      <3>3. \A x \in Requests \ {r} : Coming(x)'
        BY <1>3, <2>2, ComingKept DEF SignIn
      <3> QED BY <3>2, <3>3
    <2>4. CASE UNCHANGED apps
      BY <1>4, <2>2, <2>3, <2>4, SigningKept DEF SignIn
    <2>5. CASE /\ Storable(q.app, [name |-> q.name, url |-> q.url, client |-> q.client])
               /\ apps' = [apps EXCEPT ![q.app]
                             = [name |-> q.name, url |-> q.url, client |-> q.client]]
      <3>1. /\ clients[q.client] # NoClient
            /\ apps'[q.app] = [name |-> q.name, url |-> q.url, client |-> q.client]
            /\ \A a \in Apps \ {q.app} : apps'[a] = apps[a]
        BY <1>3, <2>5 DEF Storable, Shape, TypeOK
      <3>0. PICK b \in Apps : b = q.app
        BY <1>3
      <3>2. \A a \in Apps \ {b} : Signing(a)'
        BY <1>4, <2>2, <3>1, <3>0, SigningKept DEF SignIn
      <3>3. \A x \in Requests : ~Updates(x, b)'
        BY <1>3, <2>1, <3>0 DEF Updates, Fresh
      <3>4. Signing(b)'
        <4>1. Coming(r)
          BY DEF SignIn
        <4> QED BY <1>3, <2>1, <3>1, <3>0, <3>3, <4>1 DEF Signing, Coming, Matches, Marked
      <3> QED BY <2>3, <3>2, <3>4, <3>0, <1>3 DEF SignIn
    <2> QED BY <1>6, <2>4, <2>5 DEF CreateApp
  <1>7. CASE Undo(r) \/ RemoveAppClient(r)
    <2>1. UNCHANGED apps /\ Removed(q.client) /\ requests'[r] = Idle
      BY <1>7, Answered DEF Undo, RemoveAppClient
    <2>2. \A c \in Clients : \/ Stays(c)
                             \/ clients'[c] = NoClient /\ AppsOf(c) = {}
      BY <1>3, <2>1, Removes DEF Stays, Marked
    <2>3. \A a \in Apps : apps[a] # NoApp => Stays(apps[a].client)
      BY <1>1, <2>2 DEF AppsOf
    <2> QED BY <1>2, <1>3, <1>4, <2>1, <2>2, <2>3, IdleShape, SignInKept
  <1>8. CASE RemoveApp(r)
    <2>1. /\ UNCHANGED clients /\ q.op = "deleteApp" /\ apps'[q.app] = NoApp
          /\ \A a \in Apps \ {q.app} : apps'[a] = apps[a]
      BY <1>3, <1>8 DEF RemoveApp, Is, Shape, TypeOK
    <2>2. \A d : Stays(d)
      BY <1>3, <2>1 DEF Stays, Marked
    <2>3. \A a \in Apps : Signing(a)'
      <3>1. \A a \in Apps : a = q.app => Signing(a)'
        BY <2>1 DEF Signing
      <3>2. \A a \in Apps \ {q.app} : Signing(a)'
        BY <1>4, <2>1, <2>2, SigningKept DEF SignIn
      <3> QED BY <3>1, <3>2
    <2>4. \A x \in Requests : Coming(x)'
      <3>1. requests'[r].op = "deleteApp"
        BY <1>8, <2>1, Moved DEF RemoveApp
      <3>2. Coming(r)'
        BY <3>1 DEF Coming
      <3>3. \A x \in Requests \ {r} : Coming(x)'
        BY <1>3, <2>2, ComingKept DEF SignIn
      <3> QED BY <3>2, <3>3
    <2> QED BY <2>3, <2>4 DEF SignIn
  <1> QED BY <1>5, <1>6, <1>7, <1>8

\* A statement of an update that changes only its own client.
LEMMA UpdateElsewhere ==
  ASSUME Shape, Ids, SignIn, NEW r \in Requests, requests[r].op = "updateApp",
         NEW b, b = requests[r].app, Marked \subseteq Marked', requests'[r].op # "createApp",
         \A a \in Apps \ {b} : apps'[a] = apps[a],
         \A c \in Clients \ {requests[r].client} : clients'[c] = clients[c],
         \A x \in Requests \ {r} : requests'[x] = requests[x],
         requests'[r].op = "updateApp" => requests'[r].app = b,
         Signing(b)'
  PROVE  SignIn'
  <1>1. b \in Apps /\ requests[r].op \in AppOps
    BY DEF Shape, LocalOK, AppOps
  <1>2. \A c \in Clients \ {requests[r].client} : Stays(c)
    BY DEF Stays
  <1>3. ASSUME NEW a \in Apps \ {b} PROVE Signing(a)'
    <2>1. SameUpdates(a)
      BY <1>3 DEF SameUpdates, Updates
    <2>2. apps[a] # NoApp => Stays(apps[a].client)
      <3>1. apps[a] # NoApp => apps[a].client \in Clients
        BY DEF Shape, TypeOK, AppRow
      <3>2. apps[a] # NoApp => apps[a].client # requests[r].client
        BY <1>1, TiedClient
      <3> QED BY <1>2, <3>1, <3>2
    <2> QED BY <2>1, <2>2, SigningKept DEF SignIn
  <1>4. ASSUME NEW x \in Requests \ {r} PROVE Coming(x)'
    <2>1. CASE requests[x].op # "createApp"
      BY <2>1 DEF Coming
    <2>2. CASE requests[x].op = "createApp"
      <3>1. requests[x].client \in Clients
        BY <2>2 DEF Shape, LocalOK, AppOps
      <3>2. requests[x].client # requests[r].client
        BY <1>1, <2>2, TiedRequest
      <3> QED BY <1>2, <3>1, <3>2, ComingKept DEF SignIn
    <2> QED BY <2>1, <2>2
  <1>5. Coming(r)'
    BY DEF Coming
  <1> QED BY <1>3, <1>4, <1>5 DEF SignIn

\* One update of the application alone: it moved on, and so did the client.
LEMMA UpdateMoves ==
  ASSUME Shape, Ids, SignIn, NEW r \in Requests, requests[r].op = "updateApp",
         NEW b, b = requests[r].app, UNCHANGED <<apps, overrun, unsettled>>,
         \A x \in Requests \ {r} : requests'[x] = requests[x],
         requests'[r].op = "updateApp", requests'[r].app = b,
         requests'[r].appRow = requests[r].appRow,
         NEW c, c = requests[r].client,
         clients[c] # NoClient /\ Underway(requests[r], clients[c]) =>
            Underway(requests[r], clients[c])'
  PROVE  Signing(b)'
  <1>1. b \in Apps /\ requests[r].op \in AppOps /\ requests[r].client = requests[r].appRow.client
    BY DEF Shape, LocalOK, AppOps
  <1>2. apps[b] # NoApp => apps[b].client = requests[r].client
    BY <1>1, TiedClient
  <1> QED BY <1>1, <1>2 DEF SignIn, Signing, Updates, Marked, Ids, Referred

LEMMA UpdatesSignIn ==
  ASSUME Shape, Ids, SignIn, NEW r \in Requests,
         Rename(r) \/ FindUris(r) \/ WriteUris(r) \/ SaveApp(r)
  PROVE  SignIn'
  <1> DEFINE q == requests[r]
  <1>1. /\ q \in Request /\ q.op = "updateApp" /\ q.app \in Apps /\ q.client \in Clients
        /\ q.appRow \in AppRow /\ q.client = q.appRow.client
        /\ q.name \in Names /\ q.url \in Urls
    BY DEF Rename, FindUris, WriteUris, SaveApp, Is, Shape, TypeOK, LocalOK, AppOps
  <1>2. PICK b \in Apps, c \in Clients : b = q.app /\ c = q.client
    BY <1>1
  <1>3. apps[b] # NoApp => apps[b].client = c
    BY <1>1, <1>2, TiedClient DEF AppOps
  <1>4. CASE Rename(r) \/ WriteUris(r)
    <2>1. /\ UNCHANGED <<apps, overrun, unsettled>>
          /\ \A d \in Clients \ {c} : clients'[d] = clients[d]
          /\ \A x \in Requests \ {r} : requests'[x] = requests[x]
      BY <1>2, <1>4, Writes DEF history
    <2>2. PICK pc \in {"find", "save"} :
             /\ requests'[r] = [q EXCEPT !.pc = pc]
             /\ Rename(r) => pc = IF q.url # q.appRow.url THEN "find" ELSE "save"
             /\ WriteUris(r) => pc = "save"
      <3>1. CASE Rename(r)
        <4>1. To(r, IF q.url # q.appRow.url THEN "find" ELSE "save") /\ ~WriteUris(r)
          BY <3>1 DEF Rename, WriteUris, Is
        <4> QED BY <4>1, Moved
      <3>2. CASE WriteUris(r)
        <4>1. To(r, "save") /\ ~Rename(r)
          BY <3>2 DEF Rename, WriteUris, Is
        <4> QED BY <4>1, Moved
      <3> QED BY <1>4, <3>1, <3>2
    <2>3. /\ requests'[r].op = "updateApp" /\ requests'[r].app = b
          /\ requests'[r].appRow = q.appRow /\ requests'[r].pc = pc
          /\ requests'[r].name = q.name /\ requests'[r].url = q.url
      BY <1>1, <1>2, <2>2 DEF Request
    <2>4. clients[c] # NoClient /\ Underway(q, clients[c]) => Underway(requests[r], clients[c])'
      <3>1. CASE Rename(r) /\ clients[c] # NoClient
        <4>1. q.pc = "name" /\ clients'[c].name = q.name /\ clients'[c].uris = clients[c].uris
          BY <1>2, <3>1, Writes DEF Rename, Is
        <4> QED BY <2>2, <2>3, <3>1, <4>1 DEF Underway
      <3>2. CASE WriteUris(r) /\ clients[c] # NoClient
        <4>1. q.pc = "uris" /\ clients'[c].uris = q.uris /\ clients'[c].name = clients[c].name
          BY <1>2, <3>2, Writes DEF WriteUris, Is
        <4> QED BY <2>2, <2>3, <3>2, <4>1 DEF Underway
      <3> QED BY <1>4, <3>1, <3>2
    <2>5. Signing(b)'
      BY <1>1, <1>2, <2>1, <2>3, <2>4, UpdateMoves
    <2> QED BY <1>1, <1>2, <2>1, <2>3, <2>5, UpdateElsewhere DEF Marked
  <1>5. CASE FindUris(r)
    <2>1. /\ UNCHANGED <<clients, apps, overrun, unsettled>> /\ q.pc = "find"
          /\ \A x \in Requests \ {r} : requests'[x] = requests[x]
      BY <1>5, Answered DEF FindUris, Is, tables, history, Shape, TypeOK
    <2>2. CASE clients[c] = NoClient
      <3>1. requests'[r] = Idle
        BY <1>2, <1>5, <2>2, Answered DEF FindUris
      <3>2. Signing(b)'
        BY <1>3, <2>1, <2>2 DEF Signing, Ids, Referred
      <3> QED BY <1>1, <1>2, <2>1, <3>1, <3>2, IdleShape, UpdateElsewhere DEF Marked
    <2>3. CASE clients[c] # NoClient
      <3>1. requests'[r] = [q EXCEPT !.pc = "uris",
                              !.uris = (clients[c].uris \ {q.appRow.url}) \cup {q.url}]
        BY <1>2, <1>5, <2>3 DEF FindUris, Shape, TypeOK
      <3>2. /\ requests'[r].op = "updateApp" /\ requests'[r].app = b
            /\ requests'[r].appRow = q.appRow /\ requests'[r].pc = "uris"
            /\ requests'[r].name = q.name /\ requests'[r].url = q.url
            /\ requests'[r].uris = (clients[c].uris \ {q.appRow.url}) \cup {q.url}
        BY <1>1, <1>2, <3>1 DEF Request
      <3>3. Underway(q, clients[c]) => Underway(requests[r], clients[c])'
        BY <2>1, <3>2 DEF Underway
      <3>4. Signing(b)'
        BY <1>1, <1>2, <2>1, <3>2, <3>3, UpdateMoves
      <3> QED BY <1>1, <1>2, <2>1, <3>2, <3>4, UpdateElsewhere DEF Marked
    <2> QED BY <2>2, <2>3
  <1>6. CASE SaveApp(r)
    <2>1. PICK row : row = [q.appRow EXCEPT !.name = q.name, !.url = q.url]
      OBVIOUS
    <2>2. /\ row \in AppRow /\ row.client = c /\ row.name = q.name /\ row.url = q.url
      BY <1>1, <1>2, <2>1 DEF AppRow
    <2>3. /\ UNCHANGED <<clients, overrun>> /\ q.pc = "save"
          /\ apps' = IF Storable(b, row) THEN [apps EXCEPT ![b] = row] ELSE apps
          /\ unsettled' = IF /\ Storable(b, row)
                             /\ apps[b] = q.appRow
                             /\ {x \in Working({"updateApp"}) : requests[x].app = b} = {r}
                          THEN unsettled ELSE unsettled \cup {c}
      BY <1>2, <1>6, <2>1 DEF SaveApp, Is
    <2>4. requests'[r] = Idle /\ \A x \in Requests \ {r} : requests'[x] = requests[x]
      BY <1>6, Answered DEF SaveApp
    <2>5. ASSUME Storable(b, row), apps[b] = q.appRow,
                 {x \in Working({"updateApp"}) : requests[x].app = b} = {r}
          PROVE  Signing(b)'
      <3>1. apps'[b] = row /\ UNCHANGED unsettled
        BY <2>3, <2>5 DEF Shape, TypeOK
      <3>2. Updates(r, b) /\ \A x \in Requests \ {r} : ~Updates(x, b)
        BY <1>1, <1>2, <2>5 DEF Updates, Working
      <3>3. \A x \in Requests : ~Updates(x, b)'
        BY <2>4, <3>2, IdleShape DEF Updates
      <3>4. apps[b] # NoApp /\ apps[b].client = c
        BY <1>1, <1>2, <2>5, NoAppIsNoRow
      <3>5. c \notin Marked => Matches(row, clients[c])
        BY <2>2, <2>3, <3>2, <3>4 DEF SignIn, Signing, Underway, Matches
      <3> QED BY <2>2, <2>3, <3>1, <3>3, <3>5 DEF Signing, Marked
    <2>6. ASSUME ~(/\ Storable(b, row) /\ apps[b] = q.appRow
                   /\ {x \in Working({"updateApp"}) : requests[x].app = b} = {r})
          PROVE  Signing(b)'
      <3>1. c \in Marked'
        BY <2>3, <2>6 DEF Marked
      <3>2. apps'[b] # NoApp => apps'[b].client = c
        BY <1>3, <2>2, <2>3 DEF Shape, TypeOK
      <3> QED BY <3>1, <3>2 DEF Signing
    <2>7. Signing(b)'
      BY <2>5, <2>6
    <2>8. Marked \subseteq Marked' /\ \A a \in Apps \ {b} : apps'[a] = apps[a]
      BY <2>3 DEF Marked, Shape, TypeOK
    <2> QED BY <1>1, <1>2, <2>3, <2>4, <2>7, <2>8, IdleShape, UpdateElsewhere
  <1> QED BY <1>4, <1>5, <1>6

LEMMA NextSignIn ==
  ASSUME Shape, Ids, SignIn, [Next]_vars
  PROVE  SignIn'
  <1>1. CASE Tick
    <2>1. UNCHANGED <<apps, overrun, unsettled>>
      BY <1>1, Ages
    <2>2. \A c \in Clients : Stays(c)
      BY <1>1, <2>1, Ages, NoClientIsNoRow DEF Stays, Marked
    <2>3. \A x \in Requests :
             /\ requests'[x].op = requests[x].op /\ requests'[x].pc = requests[x].pc
             /\ requests'[x].client = requests[x].client /\ requests'[x].app = requests[x].app
             /\ requests'[x].appRow = requests[x].appRow /\ requests'[x].name = requests[x].name
             /\ requests'[x].url = requests[x].url /\ requests'[x].uris = requests[x].uris
      <3>1. \A x \in Requests : /\ requests[x] \in Request
                                /\ requests'[x] = [requests[x] EXCEPT !.row = AgedRow(@)]
        BY <1>1, Ages DEF Shape, TypeOK
      <3>2. TAKE x \in Requests
      <3>3. PICK q \in Request : q = requests[x] /\ requests'[x] = [q EXCEPT !.row = AgedRow(@)]
        BY <3>1
      <3> QED BY ONLY <3>3 DEF Request
    <2>4. \A a \in Apps : SameUpdates(a)
      BY <2>3 DEF SameUpdates, Updates
    <2>5. \A a \in Apps : apps[a] # NoApp => Stays(apps[a].client)
      BY <2>2 DEF Shape, TypeOK, AppRow
    <2>6. \A x \in Requests : requests[x].op = "createApp" => Stays(requests[x].client)
      BY <2>2 DEF Shape, LocalOK, AppOps
    <2> QED BY <2>1, <2>3, <2>4, <2>5, <2>6, SignInKept
  <1>2. CASE Crash
    <2>1. /\ UNCHANGED <<clients, apps, overrun>> /\ \A x \in Requests : requests'[x] = Idle
          /\ unsettled' = unsettled
                \cup {requests[r].client : r \in Working({"updateApp"})}
      BY <1>2 DEF Crash, tables
    <2>2. \A x \in Requests : Coming(x)'
      BY <2>1, IdleShape DEF Coming
    <2>3. ASSUME NEW a \in Apps PROVE Signing(a)'
      <3>1. CASE \A x \in Requests : ~Updates(x, a)
        BY <2>1, <3>1, IdleShape DEF SignIn, Signing, Updates, Marked
      <3>2. ASSUME NEW x \in Requests, Updates(x, a), apps[a] # NoApp PROVE Signing(a)'
        <4>1. apps[a].client = requests[x].client
          BY <3>2, TiedClient DEF Updates, AppOps
        <4>2. requests[x].client \in unsettled'
          BY <2>1, <3>2 DEF Working, Updates
        <4> QED BY <2>1, <4>1, <4>2 DEF Signing, Marked
      <3>3. CASE apps[a] = NoApp
        BY <2>1, <3>3 DEF Signing
      <3> QED BY <3>1, <3>2, <3>3
    <2> QED BY <2>2, <2>3 DEF SignIn
  <1>3. CASE UNCHANGED vars
    <2>1. UNCHANGED <<clients, apps, requests, overrun, unsettled>>
      BY <1>3 DEF vars, tables, history
    <2> QED BY <2>1 DEF SignIn, Signing, Coming, Updates, Marked, Matches, Underway
  <1> QED BY <1>1, <1>2, <1>3, ClientsSignIn, BeginningsSignIn, CreationsSignIn, UpdatesSignIn
          DEF Next, OnApps

\* An application whose updates ended well, one at a time, has its URL among
\* those of its client, and its name, unless the client was edited by hand or
\* written over.
THEOREM AppsCanSignIn == Spec => []AppCanSignIn
  <1>1. Init => SignIn
    BY DEF Init, SignIn, Signing, Coming, Idle
  <1>2. Shape /\ Ids /\ SignIn /\ [Next]_vars => SignIn'
    BY NextSignIn
  <1>3. Shape /\ Ids /\ SignIn => AppCanSignIn
    BY DEF Ids, Referred, SignIn, Signing, Matches, Marked, Updates, AppCanSignIn, Settled
  <1> QED BY <1>1, <1>2, <1>3, IdsHold, PTL DEF Spec
=============================================================================
