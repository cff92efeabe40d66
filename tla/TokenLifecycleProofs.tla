------------------------- MODULE TokenLifecycleProofs -------------------------
(***************************************************************************)
(* Proofs about TokenLifecycle, for every number of tokens, sessions,      *)
(* clients and concurrent requests and for every duration.                 *)
(*                                                                         *)
(* IInv is the inductive invariant.  The table alone (RowsOK, OneLeaf)     *)
(* does not say enough: a request about to write must still hold what it   *)
(* read (LocalsOK), although others have written since.  It does, because  *)
(* a step never takes back what it relies on (Grows): rows keep their      *)
(* identity, used and revoked tokens and invalidated sessions stay so.     *)
(* The last section maps each step to one of TokenFamilies, or to none.    *)
(***************************************************************************)
EXTENDS TokenLifecycle, TLAPS

RefreshSteps == {"consume", "confirm", "insert", "replay", "check"}

Refreshing(q) == q.pc \in RefreshSteps \/ (q.pc = "done" /\ q.presented # NoToken)

Answering(q) == q.pc = "check" \/ (q.pc = "done" /\ q.presented # NoToken)

\* What a request may rely on between two awaits.
LocalsOK(q) ==
    /\ q.pc \in {"validate", "create"} =>
          q.client \in Clients /\ q.sid \in DOMAIN sessions /\ q.presented = NoToken
    /\ q.pc = "validate" /\ q.sessionDead => sessions[q.sid].invalidated
    /\ q.pc \in {"create", "done"} => ~q.sessionDead
    /\ Refreshing(q) =>
          /\ q.presented \in Stored
          /\ q.client = rows[q.presented].client
          /\ q.at <= rows[q.presented].absoluteExpiresAt
          /\ q.sessionDead => sessions[rows[q.presented].sid].invalidated
    /\ q.pc = "insert" =>
          /\ rows[q.presented].usedAt # NotYet
          /\ q.scope \subseteq rows[q.presented].scope
    /\ Answering(q) => q.record \in Stored /\ rows[q.record].parent = q.presented

\* A token belongs to its family's grant, and to its parent's past.
RowOK(t) ==
    LET row == rows[t]
        root == rows[row.family]
    IN /\ row.sid \in DOMAIN sessions
       /\ row.family \in Stored
       /\ root.family = row.family
       /\ root.client = row.client
       /\ root.sid = row.sid
       /\ row.scope \subseteq root.scope
       /\ root.absoluteExpiresAt = row.absoluteExpiresAt
       /\ row.parent # NoToken =>
             /\ row.parent \in Stored
             /\ rows[row.parent].family = row.family
             /\ rows[row.parent].usedAt # NotYet
             /\ row.revoked => rows[row.parent].revoked

RowsOK == \A t \in Stored : RowOK(t)

\* A family is a chain: only one of its tokens has not been succeeded.
OneLeaf ==
    \A t, u \in Stored :
        rows[t].family = rows[u].family /\ ~HasChild(t) /\ ~HasChild(u) => t = u

IInv == TypeOK /\ RowsOK /\ OneLeaf /\ \A r \in Requests : LocalsOK(requests[r])

\* A step changes no row's identity and takes back no use, revocation or logout.
Grows ==
    /\ Stored \subseteq DOMAIN rows'
    /\ \A t \in Stored :
          /\ rows'[t].family = rows[t].family
          /\ rows'[t].parent = rows[t].parent
          /\ rows'[t].client = rows[t].client
          /\ rows'[t].scope = rows[t].scope
          /\ rows'[t].sid = rows[t].sid
          /\ rows'[t].absoluteExpiresAt = rows[t].absoluteExpiresAt
          /\ rows[t].usedAt # NotYet => rows'[t].usedAt # NotYet
          /\ rows[t].revoked => rows'[t].revoked
    /\ DOMAIN sessions \subseteq DOMAIN sessions'
    /\ \A s \in DOMAIN sessions : sessions[s].invalidated => sessions'[s].invalidated

-----------------------------------------------------------------------------
(* Lemmas on the operators the actions are built from.                     *)

LEMMA IdleOK == Idle \in Request /\ LocalsOK(Idle)
  BY DEF Idle, Request, Steps, LocalsOK, Refreshing, Answering, RefreshSteps

LEMMA RootRowType ==
  ASSUME TypeOK, NEW t \in Tokens, NEW c \in Clients, NEW sc \in SUBSET Scopes, NEW s \in Sessions
  PROVE  RootRow(t, c, sc, s) \in Row
  BY DurationsAreNat DEF TypeOK, RootRow, Row, ClampExpiry, Earlier

LEMMA ChildRowType ==
  ASSUME TypeOK, NEW t \in Stored, NEW sc \in SUBSET Scopes
  PROVE  ChildRow(t, sc) \in Row
  BY DurationsAreNat DEF TypeOK, ChildRow, Row, ClampExpiry, Earlier, Stored

LEMMA StoreType ==
  ASSUME TypeOK, NEW t \in Tokens, NEW row \in Row, Store(t, row)
  PROVE  /\ DOMAIN rows' = Stored \cup {t}
         /\ DOMAIN rows' \subseteq Tokens
         /\ rows' \in [DOMAIN rows' -> Row]
         /\ rows'[t] = row
         /\ \A u \in Stored : u # t => rows'[u] = rows[u]
  BY DEF TypeOK, Store, Stored

LEMMA RevokeType ==
  ASSUME TypeOK, NEW S, RevokeRows(S)
  PROVE  /\ DOMAIN rows' = Stored
         /\ rows' \in [DOMAIN rows' -> Row]
         /\ \A t \in Stored : rows'[t] = IF t \in S THEN [rows[t] EXCEPT !.revoked = TRUE] ELSE rows[t]
  <1>1. /\ DOMAIN rows' = Stored
        /\ \A t \in Stored : rows'[t] = IF t \in S THEN [rows[t] EXCEPT !.revoked = TRUE] ELSE rows[t]
    BY DEF RevokeRows
  <1>2. ASSUME NEW t \in Stored PROVE rows'[t] \in Row
    BY <1>1 DEF TypeOK, Row, Stored
  <1> QED BY <1>1, <1>2 DEF RevokeRows

LEMMA OpenSessionType ==
  ASSUME TypeOK, NEW s \in Sessions, s \notin DOMAIN sessions, OpenSession(s)
  PROVE  /\ DOMAIN sessions' = DOMAIN sessions \cup {s}
         /\ DOMAIN sessions' \subseteq Sessions
         /\ sessions' \in [DOMAIN sessions' -> Session]
         /\ \A u \in DOMAIN sessions : sessions'[u] = sessions[u]
  BY DurationsAreNat DEF TypeOK, OpenSession, NewSession, Session

LEMMA GotoType ==
  ASSUME TypeOK, NEW r \in Requests, NEW step \in Steps, Goto(r, step)
  PROVE  \E q \in Request :
            /\ q = [requests[r] EXCEPT !.pc = step]
            /\ requests' = [requests EXCEPT ![r] = q]
  <1>1. [requests[r] EXCEPT !.pc = step] \in Request
    BY DEF TypeOK, Request
  <1>2. requests' = [requests EXCEPT ![r] = [requests[r] EXCEPT !.pc = step]]
    BY DEF Goto
  <1> QED BY <1>1, <1>2

\* What a request relies on survives the steps of all the others.
LEMMA LocalsSurvive ==
  ASSUME RowsOK, Grows, NEW q \in Request, LocalsOK(q)
  PROVE  LocalsOK(q)'
  <1> USE DEF Grows, LocalsOK, Stored
  <1>1. ASSUME q.pc \in {"validate", "create"}
        PROVE  q.client \in Clients /\ q.sid \in DOMAIN sessions' /\ q.presented = NoToken
    BY <1>1
  <1>2. ASSUME q.pc = "validate", q.sessionDead PROVE sessions'[q.sid].invalidated
    BY <1>2
  <1>3. ASSUME Refreshing(q)
        PROVE  /\ q.presented \in DOMAIN rows'
               /\ q.client = rows'[q.presented].client
               /\ q.at <= rows'[q.presented].absoluteExpiresAt
               /\ q.sessionDead => sessions'[rows'[q.presented].sid].invalidated
    <2>1. q.presented \in Stored /\ rows[q.presented].sid \in DOMAIN sessions
      BY <1>3, RowsOK DEF RowsOK, RowOK
    <2> QED BY <1>3, <2>1
  <1>4. ASSUME q.pc = "insert"
        PROVE  rows'[q.presented].usedAt # NotYet /\ q.scope \subseteq rows'[q.presented].scope
    <2>1. q.presented \in Stored
      BY <1>4 DEF Refreshing, RefreshSteps
    <2> QED BY <1>4, <2>1
  <1>5. ASSUME Answering(q)
        PROVE  q.record \in DOMAIN rows' /\ rows'[q.record].parent = q.presented
    BY <1>5
  <1> QED BY <1>1, <1>2, <1>3, <1>4, <1>5 DEF Refreshing, Answering

\* The part of a step that is the same for all: one request moves on.
LEMMA OneRequestMoves ==
  ASSUME TypeOK, RowsOK, \A p \in Requests : LocalsOK(requests[p]), Grows,
         NEW r \in Requests, NEW q \in Request,
         requests' = [requests EXCEPT ![r] = q], LocalsOK(q)'
  PROVE  /\ requests' \in [Requests -> Request]
         /\ (\A p \in Requests : LocalsOK(requests[p]))'
  <1>1. requests' \in [Requests -> Request]
    BY DEF TypeOK
  <1>2. ASSUME NEW p \in Requests PROVE LocalsOK(requests[p])'
    <2>1. CASE p = r
      <3>1. requests'[p] = q
        BY <2>1 DEF TypeOK
      <3> QED BY <3>1 DEF LocalsOK, Refreshing, Answering
    <2>2. CASE p # r
      <3>1. PICK o \in Request : o = requests[p]
        BY DEF TypeOK
      <3>2. LocalsOK(o)
        BY <3>1
      <3>3. LocalsOK(o)'
        BY <3>2, LocalsSurvive
      <3>4. requests'[p] = o
        BY <2>2, <3>1 DEF TypeOK
      <3> QED BY <3>3, <3>4 DEF LocalsOK, Refreshing, Answering
    <2> QED BY <2>1, <2>2
  <1> QED BY <1>1, <1>2

LEMMA TableUnchanged ==
  ASSUME RowsOK, OneLeaf, UNCHANGED rows, DOMAIN sessions \subseteq DOMAIN sessions'
  PROVE  RowsOK' /\ OneLeaf'
  BY DEF RowsOK, RowOK, OneLeaf, HasChild, Stored

\* A step that writes nothing but one request's locals.
LEMMA OnlyARequestMoves ==
  ASSUME IInv, NEW r \in Requests, NEW q \in Request,
         requests' = [requests EXCEPT ![r] = q], LocalsOK(q), UNCHANGED <<now, rows, sessions>>
  PROVE  IInv'
  <1>1. Grows
    BY DEF Grows, Stored
  <1>2. LocalsOK(q)'
    BY <1>1, LocalsSurvive DEF IInv
  <1>3. requests' \in [Requests -> Request] /\ (\A p \in Requests : LocalsOK(requests[p]))'
    BY <1>1, <1>2, OneRequestMoves DEF IInv
  <1>4. RowsOK' /\ OneLeaf'
    BY TableUnchanged DEF IInv
  <1>5. TypeOK'
    BY <1>3 DEF IInv, TypeOK
  <1> QED BY <1>3, <1>4, <1>5 DEF IInv

\* A revocation of whole ancestries leaves the table in order.
LEMMA RevocationKeeps ==
  ASSUME IInv, NEW S, RevokeRows(S), UNCHANGED sessions,
         \A t \in Stored : t \in S /\ rows[t].parent # NoToken => rows[t].parent \in S
  PROVE  Grows /\ RowsOK' /\ OneLeaf'
  <1>1. /\ DOMAIN rows' = Stored
        /\ \A t \in Stored : rows'[t] = IF t \in S THEN [rows[t] EXCEPT !.revoked = TRUE] ELSE rows[t]
    BY RevokeType DEF IInv
  <1>2. ASSUME NEW t \in Stored
        PROVE  /\ rows'[t].family = rows[t].family
               /\ rows'[t].parent = rows[t].parent
               /\ rows'[t].client = rows[t].client
               /\ rows'[t].scope = rows[t].scope
               /\ rows'[t].sid = rows[t].sid
               /\ rows'[t].absoluteExpiresAt = rows[t].absoluteExpiresAt
               /\ rows'[t].usedAt = rows[t].usedAt
               /\ rows[t].revoked => rows'[t].revoked
               /\ t \in S => rows'[t].revoked
               /\ t \notin S => rows'[t] = rows[t]
    BY <1>1 DEF IInv, TypeOK, Row, Stored
  <1>3. Grows
    BY <1>1, <1>2 DEF Grows
  <1>4. RowsOK'
    <2>1. SUFFICES ASSUME NEW t \in Stored PROVE RowOK(t)'
      BY <1>1 DEF RowsOK, Stored
    <2>2. RowOK(t)
      BY DEF IInv, RowsOK
    <2>3. ASSUME rows[t].parent # NoToken, rows'[t].revoked PROVE rows'[rows[t].parent].revoked
      BY <1>2, <2>2, <2>3 DEF RowOK
    <2> QED BY <1>1, <1>2, <2>2, <2>3 DEF RowOK, Stored
  <1>5. OneLeaf'
    BY <1>1, <1>2 DEF IInv, OneLeaf, HasChild, Stored
  <1> QED BY <1>3, <1>4, <1>5

-----------------------------------------------------------------------------
(* The invariant is inductive.                                             *)

LEMMA InitIInv == Init => IInv
  <1> SUFFICES ASSUME Init PROVE IInv
    OBVIOUS
  <1>1. DOMAIN rows = {} /\ DOMAIN sessions = {}
    BY DEF Init
  <1>2. \A r \in Requests : requests[r] \in Request /\ LocalsOK(requests[r])
    BY IdleOK DEF Init
  <1>3. TypeOK
    BY <1>1, <1>2 DEF Init, TypeOK
  <1>4. RowsOK /\ OneLeaf
    BY <1>1 DEF RowsOK, OneLeaf, Stored
  <1> QED BY <1>2, <1>3, <1>4 DEF IInv

\* The requests that drop out of their flow.
LEMMA EndKeeps ==
  ASSUME IInv, NEW r \in Requests, End(r), UNCHANGED <<now, rows, sessions>>
  PROVE  IInv'
  BY IdleOK, OnlyARequestMoves DEF End

LEMMA LoginKeeps ==
  ASSUME IInv, NEW s \in Sessions, s \notin DOMAIN sessions, OpenSession(s), UNCHANGED <<now, rows>>
  PROVE  /\ Grows /\ RowsOK' /\ OneLeaf'
         /\ s \in DOMAIN sessions'
         /\ DOMAIN sessions' \subseteq Sessions
         /\ sessions' \in [DOMAIN sessions' -> Session]
  <1>1. /\ DOMAIN sessions' = DOMAIN sessions \cup {s}
        /\ DOMAIN sessions' \subseteq Sessions
        /\ sessions' \in [DOMAIN sessions' -> Session]
        /\ \A u \in DOMAIN sessions : sessions'[u] = sessions[u]
    BY OpenSessionType DEF IInv
  <1>2. Grows
    BY <1>1 DEF Grows, Stored
  <1>3. RowsOK' /\ OneLeaf'
    BY <1>1, TableUnchanged DEF IInv
  <1> QED BY <1>1, <1>2, <1>3

LEMMA CreateKeeps ==
  ASSUME IInv, NEW r \in Requests, NEW t \in Tokens, CreateToken(r, t)
  PROVE  IInv'
  <1> DEFINE row == RootRow(t, requests[r].client, requests[r].scope, requests[r].sid)
  <1>1. PICK o \in Request : o = requests[r]
    BY DEF IInv, TypeOK
  <1>2. /\ o.pc = "create" /\ o.presented = NoToken /\ ~o.sessionDead
        /\ o.client \in Clients /\ o.sid \in DOMAIN sessions
    BY <1>1 DEF CreateToken, At, IInv, LocalsOK
  <1>3. row \in Row /\ Store(t, row) /\ t \notin Stored
    BY <1>1, <1>2, RootRowType DEF CreateToken, IInv, TypeOK, Request
  <1>4. /\ DOMAIN rows' = Stored \cup {t}
        /\ DOMAIN rows' \subseteq Tokens
        /\ rows' \in [DOMAIN rows' -> Row]
        /\ rows'[t] = row
        /\ \A u \in Stored : rows'[u] = rows[u]
    BY <1>3, StoreType DEF IInv
  <1>5. /\ row.family = t /\ row.parent = NoToken /\ row.sid = o.sid
        /\ row.client = o.client /\ row.scope = o.scope
    BY <1>1 DEF RootRow
  <1>6. Grows
    BY <1>4 DEF Grows, CreateToken
  <1>7. RowsOK'
    <2>1. ASSUME NEW u \in Stored PROVE RowOK(u)'
      BY <1>4 DEF IInv, RowsOK, RowOK, Stored, CreateToken
    <2>2. RowOK(t)'
      BY <1>2, <1>4, <1>5 DEF RowOK, Stored, CreateToken
    <2> QED BY <1>4, <2>1, <2>2 DEF RowsOK, Stored
  <1>8. OneLeaf'
    <2>1. \A u \in Stored : rows[u].family # t /\ rows[u].parent # t
      BY <1>3, NullsAreNoValues DEF IInv, RowsOK, RowOK
    <2>2. SUFFICES ASSUME NEW u \in Stored \cup {t}, NEW v \in Stored \cup {t},
                          rows'[u].family = rows'[v].family, ~HasChild(u)', ~HasChild(v)'
                   PROVE  u = v
      BY <1>4 DEF OneLeaf, Stored
    <2>3. CASE u \in Stored /\ v \in Stored
      <3>1. ~HasChild(u) /\ ~HasChild(v)
        BY <1>4, <2>2, <2>3 DEF HasChild, Stored
      <3> QED BY <1>4, <2>2, <2>3, <3>1 DEF IInv, OneLeaf
    <2>4. CASE u = t \/ v = t
      BY <1>4, <1>5, <2>1, <2>2, <2>4
    <2> QED BY <2>3, <2>4
  <1>9. PICK q \in Request : /\ q = [o EXCEPT !.pc = "done", !.record = t, !.reply = t]
                             /\ requests' = [requests EXCEPT ![r] = q]
    <2>1. [o EXCEPT !.pc = "done", !.record = t, !.reply = t] \in Request
      BY DEF Request, Steps
    <2>2. requests' = [requests EXCEPT ![r] = [o EXCEPT !.pc = "done", !.record = t, !.reply = t]]
      BY <1>1 DEF CreateToken
    <2> QED BY <2>1, <2>2
  <1>10. LocalsOK(q)'
    <2>1. q.pc = "done" /\ q.presented = NoToken /\ ~q.sessionDead
      BY <1>2, <1>9 DEF Request
    <2> QED BY <2>1 DEF LocalsOK, Refreshing, Answering, RefreshSteps
  <1>11. requests' \in [Requests -> Request] /\ (\A p \in Requests : LocalsOK(requests[p]))'
    BY <1>6, <1>9, <1>10, OneRequestMoves DEF IInv
  <1>12. TypeOK'
    BY <1>4, <1>11 DEF IInv, TypeOK, CreateToken
  <1> QED BY <1>7, <1>8, <1>11, <1>12 DEF IInv

LEMMA InsertKeeps ==
  ASSUME IInv, NEW r \in Requests, NEW c \in Tokens, InsertChild(r, c)
  PROVE  IInv'
  <1>1. PICK o \in Request : o = requests[r]
    BY DEF IInv, TypeOK
  <1> DEFINE t == o.presented
             row == ChildRow(t, o.scope)
  <1>2. /\ o.pc = "insert" /\ c \notin Stored
        /\ LocalsOK(o)
    BY <1>1 DEF InsertChild, At, IInv
  <1>3. /\ t \in Stored
        /\ rows[t].usedAt # NotYet
        /\ o.scope \subseteq rows[t].scope
        /\ o.client = rows[t].client
        /\ o.at <= rows[t].absoluteExpiresAt
        /\ o.sessionDead => sessions[rows[t].sid].invalidated
    BY <1>2 DEF LocalsOK, Refreshing, RefreshSteps
  <1>4. CASE HasChild(t)
    <2>1. End(r) /\ UNCHANGED <<now, rows, sessions>>
      BY <1>1, <1>4 DEF InsertChild
    <2> QED BY <2>1, EndKeeps
  <1>5. CASE ~HasChild(t)
    <2>1. row \in Row /\ Store(c, row)
      BY <1>1, <1>3, <1>5, ChildRowType DEF InsertChild, IInv, Request
    <2>2. /\ DOMAIN rows' = Stored \cup {c}
          /\ DOMAIN rows' \subseteq Tokens
          /\ rows' \in [DOMAIN rows' -> Row]
          /\ rows'[c] = row
          /\ \A u \in Stored : rows'[u] = rows[u]
      BY <1>2, <2>1, StoreType DEF IInv
    <2>3. /\ row.family = rows[t].family /\ row.parent = t /\ row.sid = rows[t].sid
          /\ row.client = rows[t].client /\ row.scope = o.scope
          /\ row.absoluteExpiresAt = rows[t].absoluteExpiresAt
          /\ row.revoked = FALSE
      BY DEF ChildRow
    <2>4. UNCHANGED <<now, sessions>>
      BY DEF InsertChild
    <2>5. Grows
      BY <2>2, <2>4 DEF Grows
    <2>6. RowsOK'
      <3>1. ASSUME NEW u \in Stored PROVE RowOK(u)'
        BY <2>2, <2>4 DEF IInv, RowsOK, RowOK, Stored
      <3>2. RowOK(t)
        BY <1>3 DEF IInv, RowsOK
      <3>3. RowOK(c)'
        BY <1>2, <1>3, <2>2, <2>3, <2>4, <3>2 DEF RowOK, Stored
      <3> QED BY <2>2, <3>1, <3>3 DEF RowsOK, Stored
    <2>7. OneLeaf'
      <3>1. \A u \in Stored : rows[u].parent # c
        BY <1>2, NullsAreNoValues DEF IInv, RowsOK, RowOK
      <3>2. SUFFICES ASSUME NEW u \in Stored \cup {c}, NEW v \in Stored \cup {c},
                            rows'[u].family = rows'[v].family, ~HasChild(u)', ~HasChild(v)'
                     PROVE  u = v
        BY <2>2 DEF OneLeaf, Stored
      <3>3. u # t /\ v # t
        BY <2>2, <2>3, <3>2 DEF HasChild, Stored
      <3>4. ASSUME NEW w \in Stored, ~HasChild(w)' PROVE ~HasChild(w)
        BY <2>2, <3>4 DEF HasChild, Stored
      <3>5. ASSUME NEW w \in Stored, ~HasChild(w)', rows[w].family = rows[t].family PROVE w = t
        BY <1>3, <1>5, <3>4, <3>5 DEF IInv, OneLeaf
      <3>6. CASE u \in Stored /\ v \in Stored
        BY <2>2, <3>2, <3>4, <3>6 DEF IInv, OneLeaf
      <3>7. CASE u = c \/ v = c
        BY <2>2, <2>3, <3>2, <3>3, <3>5, <3>7
      <3> QED BY <3>6, <3>7
    <2>8. PICK q \in Request : /\ q = [o EXCEPT !.pc = "check", !.record = c, !.reply = c]
                               /\ requests' = [requests EXCEPT ![r] = q]
      <3>1. [o EXCEPT !.pc = "check", !.record = c, !.reply = c] \in Request
        BY DEF Request, Steps
      <3>2. requests' = [requests EXCEPT ![r] = [o EXCEPT !.pc = "check", !.record = c, !.reply = c]]
        BY <1>1, <1>5 DEF InsertChild
      <3> QED BY <3>1, <3>2
    <2>9. LocalsOK(q)'
      <3>1. /\ q.pc = "check" /\ q.presented = t /\ q.record = c /\ q.client = o.client
            /\ q.at = o.at /\ q.sessionDead = o.sessionDead
        BY <2>8 DEF Request
      <3> QED BY <1>3, <2>2, <2>3, <2>4, <3>1 DEF LocalsOK, Refreshing, Answering, RefreshSteps, Stored
    <2>10. requests' \in [Requests -> Request] /\ (\A p \in Requests : LocalsOK(requests[p]))'
      BY <2>5, <2>8, <2>9, OneRequestMoves DEF IInv
    <2>11. TypeOK'
      BY <2>2, <2>4, <2>10 DEF IInv, TypeOK
    <2> QED BY <2>6, <2>7, <2>10, <2>11 DEF IInv
  <1> QED BY <1>4, <1>5

LEMMA ConsumeKeeps ==
  ASSUME IInv, NEW r \in Requests, Consume(r)
  PROVE  IInv'
  <1>1. PICK o \in Request : o = requests[r]
    BY DEF IInv, TypeOK
  <1> DEFINE t == o.presented
  <1>2. o.pc = "consume" /\ t \in Stored /\ LocalsOK(o)
    BY <1>1 DEF Consume, At, IInv, LocalsOK, Refreshing, RefreshSteps
  <1>3. ASSUME NEW q \in Request, q = [o EXCEPT !.pc = "confirm"]
                                  \/ q = [o EXCEPT !.pc = "confirm", !.lostUpdate = TRUE]
        PROVE  LocalsOK(q)
    <2>1. /\ q.pc = "confirm" /\ q.presented = o.presented /\ q.client = o.client
          /\ q.at = o.at /\ q.sessionDead = o.sessionDead
      BY <1>3 DEF Request
    <2> QED BY <1>2, <2>1 DEF LocalsOK, Refreshing, Answering, RefreshSteps
  <1>4. CASE rows[t].usedAt = NotYet
    <2>1. rows' = [rows EXCEPT ![t].usedAt = o.at] /\ Goto(r, "confirm") /\ UNCHANGED <<now, sessions>>
      BY <1>1, <1>4 DEF Consume
    <2>2. PICK q \in Request : /\ q = [o EXCEPT !.pc = "confirm"]
                               /\ requests' = [requests EXCEPT ![r] = q]
      BY <1>1, <2>1, GotoType DEF IInv, Steps
    <2>3. /\ DOMAIN rows' = Stored
          /\ rows' \in [DOMAIN rows' -> Row]
      BY <1>2, <2>1 DEF IInv, TypeOK, Row, Request, Stored
    <2>4. ASSUME NEW u \in Stored
          PROVE  /\ rows'[u].family = rows[u].family
                 /\ rows'[u].parent = rows[u].parent
                 /\ rows'[u].client = rows[u].client
                 /\ rows'[u].scope = rows[u].scope
                 /\ rows'[u].sid = rows[u].sid
                 /\ rows'[u].absoluteExpiresAt = rows[u].absoluteExpiresAt
                 /\ rows'[u].revoked = rows[u].revoked
                 /\ rows[u].usedAt # NotYet => rows'[u].usedAt # NotYet
      BY <1>2, <1>4, <2>1 DEF IInv, TypeOK, Row, Stored
    <2>5. Grows
      BY <2>1, <2>3, <2>4 DEF Grows
    <2>6. RowsOK'
      <3>1. SUFFICES ASSUME NEW u \in Stored PROVE RowOK(u)'
        BY <2>3 DEF RowsOK, Stored
      <3>2. RowOK(u)
        BY DEF IInv, RowsOK
      <3> QED BY <2>1, <2>3, <2>4, <3>2 DEF RowOK, Stored
    <2>7. OneLeaf'
      BY <2>3, <2>4 DEF IInv, OneLeaf, HasChild, Stored
    <2>8. LocalsOK(q)'
      BY <1>3, <2>2, <2>5, LocalsSurvive DEF IInv
    <2>9. requests' \in [Requests -> Request] /\ (\A p \in Requests : LocalsOK(requests[p]))'
      BY <2>2, <2>5, <2>8, OneRequestMoves DEF IInv
    <2>10. TypeOK'
      BY <2>1, <2>3, <2>9 DEF IInv, TypeOK, Stored
    <2> QED BY <2>6, <2>7, <2>9, <2>10 DEF IInv
  <1>5. CASE rows[t].usedAt # NotYet
    <2>1. PICK q \in Request : /\ q = [o EXCEPT !.pc = "confirm", !.lostUpdate = TRUE]
                               /\ requests' = [requests EXCEPT ![r] = q]
      <3>1. [o EXCEPT !.pc = "confirm", !.lostUpdate = TRUE] \in Request
        BY DEF Request, Steps
      <3>2. requests' = [requests EXCEPT ![r] = [o EXCEPT !.pc = "confirm", !.lostUpdate = TRUE]]
        BY <1>1, <1>5 DEF Consume
      <3> QED BY <3>1, <3>2
    <2>2. UNCHANGED <<now, rows, sessions>>
      BY <1>1, <1>5 DEF Consume
    <2> QED BY <1>3, <2>1, <2>2, OnlyARequestMoves
  <1> QED BY <1>4, <1>5

LEMMA PresentKeeps ==
  ASSUME IInv, NEW r \in Requests, NEW t \in Tokens, NEW c \in Clients, NEW sc \in SUBSET Scopes,
         Present(r, t, c, sc)
  PROVE  IInv'
  <1>1. /\ t \in Stored /\ now <= rows[t].absoluteExpiresAt /\ rows[t].client = c
        /\ UNCHANGED <<now, rows, sessions>>
    BY DEF Present, Presentable
  <1>2. /\ rows[t] \in Row /\ rows[rows[t].family] \in Row
        /\ rows[t].sid \in DOMAIN sessions /\ sessions[rows[t].sid] \in Session
    BY <1>1 DEF IInv, TypeOK, RowsOK, RowOK, Stored
  <1> DEFINE new == [Idle EXCEPT !.pc = IF rows[t].usedAt = NotYet THEN "consume" ELSE "replay",
                                 !.presented = t, !.client = c, !.scope = sc,
                                 !.sid = rows[t].sid, !.at = now,
                                 !.sessionDead = sessions[rows[t].sid].invalidated,
                                 !.familyDead = rows[rows[t].family].revoked]
  <1>3. new \in Request
    <2>1. now \in Nat /\ t \in Tokens
      BY <1>1 DEF IInv, TypeOK, Stored
    <2>2. rows[t].sid \in Sessions /\ rows[rows[t].family].revoked \in BOOLEAN
      BY <1>2 DEF Row
    <2>3. sessions[rows[t].sid].invalidated \in BOOLEAN
      BY <1>2 DEF Session
    <2> QED BY <2>1, <2>2, <2>3 DEF Idle, Request, Steps
  <1>4. PICK q \in Request : q = new /\ requests' = [requests EXCEPT ![r] = q]
    BY <1>3 DEF Present
  <1>5. /\ q.pc = "consume" \/ q.pc = "replay"
        /\ q.presented = t /\ q.client = c /\ q.at = now
        /\ q.sessionDead = sessions[rows[t].sid].invalidated
    BY <1>4 DEF Idle
  <1>6. LocalsOK(q)
    BY <1>1, <1>5 DEF LocalsOK, Refreshing, Answering, RefreshSteps
  <1> QED BY <1>1, <1>4, <1>6, OnlyARequestMoves

LEMMA ConfirmKeeps ==
  ASSUME IInv, NEW r \in Requests, Confirm(r)
  PROVE  IInv'
  <1>1. PICK o \in Request : o = requests[r]
    BY DEF IInv, TypeOK
  <1>2. o.pc = "confirm" /\ LocalsOK(o) /\ UNCHANGED <<now, rows, sessions>>
    BY <1>1 DEF Confirm, At, IInv
  <1>3. CASE End(r)
    BY <1>2, <1>3, EndKeeps
  <1>4. CASE Goto(r, "revokeFamily")
    <2>1. PICK q \in Request : q = [o EXCEPT !.pc = "revokeFamily"] /\ requests' = [requests EXCEPT ![r] = q]
      BY <1>1, <1>4, GotoType DEF IInv, Steps
    <2>2. q.pc = "revokeFamily"
      BY <2>1 DEF Request
    <2>3. LocalsOK(q)
      BY <2>2 DEF LocalsOK, Refreshing, Answering, RefreshSteps
    <2> QED BY <1>2, <2>1, <2>3, OnlyARequestMoves
  <1>5. CASE /\ Goto(r, "insert")
             /\ rows[o.presented].usedAt # NotYet
             /\ o.scope \subseteq rows[o.presented].scope
    <2>1. PICK q \in Request : q = [o EXCEPT !.pc = "insert"] /\ requests' = [requests EXCEPT ![r] = q]
      BY <1>1, <1>5, GotoType DEF IInv, Steps
    <2>2. /\ q.pc = "insert" /\ q.presented = o.presented /\ q.client = o.client
          /\ q.scope = o.scope /\ q.at = o.at /\ q.sessionDead = o.sessionDead
      BY <2>1 DEF Request
    <2>3. LocalsOK(q)
      BY <1>2, <1>5, <2>2 DEF LocalsOK, Refreshing, Answering, RefreshSteps
    <2> QED BY <1>2, <2>1, <2>3, OnlyARequestMoves
  <1> QED BY <1>1, <1>3, <1>4, <1>5 DEF Confirm, ValidateScopeSubset

LEMMA ReplayKeeps ==
  ASSUME IInv, NEW r \in Requests, Replay(r)
  PROVE  IInv'
  <1>1. PICK o \in Request : o = requests[r]
    BY DEF IInv, TypeOK
  <1>2. o.pc = "replay" /\ LocalsOK(o) /\ UNCHANGED <<now, rows, sessions>>
    BY <1>1 DEF Replay, At, IInv
  <1>3. CASE Goto(r, "revokeFamily")
    <2>1. PICK q \in Request : q = [o EXCEPT !.pc = "revokeFamily"] /\ requests' = [requests EXCEPT ![r] = q]
      BY <1>1, <1>3, GotoType DEF IInv, Steps
    <2>2. q.pc = "revokeFamily"
      BY <2>1 DEF Request
    <2>3. LocalsOK(q)
      BY <2>2 DEF LocalsOK, Refreshing, Answering, RefreshSteps
    <2> QED BY <1>2, <2>1, <2>3, OnlyARequestMoves
  <1>4. ASSUME NEW c \in Stored, rows[c].parent = o.presented,
               requests' = [requests EXCEPT ![r].pc = "check", ![r].record = c, ![r].reply = o.presented]
        PROVE  IInv'
    <2> DEFINE new == [o EXCEPT !.pc = "check", !.record = c, !.reply = o.presented]
    <2>1. o.presented \in Stored /\ c \in Tokens /\ o.presented \in Tokens
      BY <1>2 DEF IInv, TypeOK, LocalsOK, Refreshing, RefreshSteps, Stored
    <2>2. new \in Request
      BY <2>1 DEF Request, Steps
    <2>3. requests' = [requests EXCEPT ![r] = new]
      BY <1>1, <1>4
    <2>4. PICK q \in Request : q = new /\ requests' = [requests EXCEPT ![r] = q]
      BY <2>2, <2>3
    <2>5. /\ q.pc = "check" /\ q.presented = o.presented /\ q.record = c /\ q.client = o.client
          /\ q.at = o.at /\ q.sessionDead = o.sessionDead
      BY <2>4 DEF Request
    <2>6. LocalsOK(q)
      BY <1>2, <1>4, <2>5 DEF LocalsOK, Refreshing, Answering, RefreshSteps
    <2> QED BY <1>2, <2>4, <2>6, OnlyARequestMoves
  <1> QED BY <1>1, <1>3, <1>4 DEF Replay

LEMMA CheckKeeps ==
  ASSUME IInv, NEW r \in Requests, CheckSession(r)
  PROVE  IInv'
  <1>1. PICK o \in Request : o = requests[r]
    BY DEF IInv, TypeOK
  <1>2. o.pc = "check" /\ LocalsOK(o) /\ UNCHANGED <<now, rows, sessions>>
    BY <1>1 DEF CheckSession, At, IInv
  <1>3. CASE End(r)
    BY <1>2, <1>3, EndKeeps
  <1>4. CASE Goto(r, "done") /\ SessionValid(rows[o.record].sid)
    <2>1. PICK q \in Request : q = [o EXCEPT !.pc = "done"] /\ requests' = [requests EXCEPT ![r] = q]
      BY <1>1, <1>4, GotoType DEF IInv, Steps
    <2>2. /\ q.pc = "done" /\ q.presented = o.presented /\ q.record = o.record /\ q.client = o.client
          /\ q.at = o.at /\ q.sessionDead = o.sessionDead
      BY <2>1 DEF Request
    <2>3. /\ o.presented \in Stored /\ o.record \in Stored /\ rows[o.record].parent = o.presented
          /\ o.sessionDead => sessions[rows[o.presented].sid].invalidated
      BY <1>2 DEF LocalsOK, Refreshing, Answering, RefreshSteps
    <2>4. o.presented # NoToken
      BY <2>3, NullsAreNoValues DEF IInv, TypeOK, Stored
    <2>5. rows[o.record].sid = rows[o.presented].sid
      <3>1. RowOK(o.record) /\ RowOK(o.presented)
        BY <2>3 DEF IInv, RowsOK
      <3> QED BY <2>3, <2>4, <3>1 DEF RowOK
    <2>6. ~o.sessionDead
      BY <1>4, <2>3, <2>5 DEF SessionValid
    <2>7. LocalsOK(q)
      BY <1>2, <2>2, <2>3, <2>6 DEF LocalsOK, Refreshing, Answering, RefreshSteps
    <2> QED BY <1>2, <2>1, <2>7, OnlyARequestMoves
  <1> QED BY <1>1, <1>3, <1>4 DEF CheckSession

\* The requests whose locals no later step relies on.
LEMMA OtherRequestsKeep ==
  ASSUME IInv, NEW r \in Requests, UNCHANGED <<now, rows, sessions>>,
         \/ \E s \in Sessions, c \in Clients, sc \in SUBSET Scopes : CodeGrant(r, s, c, sc)
         \/ ValidateForIssue(r)
         \/ SkipToken(r)
         \/ \E t \in Tokens, n \in {TenantOf[c] : c \in Clients} : Revoke(r, t, n)
         \/ \E s \in Sessions, t \in Tokens \cup {NoToken}, c \in Clients \cup {NoClient} :
               Logout(r, s, t, c)
         \/ LookupForRevoke(r)
         \/ Deliver(r)
         \/ Abort(r)
  PROVE  IInv'
  <1> USE DEF LocalsOK, Refreshing, Answering, RefreshSteps
  <1>1. PICK o \in Request : o = requests[r] /\ LocalsOK(o)
    BY DEF IInv, TypeOK
  <1>2. CASE End(r)
    BY <1>2, EndKeeps
  <1>3. ASSUME NEW q \in Request, requests' = [requests EXCEPT ![r] = q], LocalsOK(q) PROVE IInv'
    BY <1>3, OnlyARequestMoves
  <1>4. ASSUME NEW step \in {"create", "done", "revokeFamily"}, Goto(r, step),
               step = "create" => o.pc = "validate" /\ ~o.sessionDead,
               step = "done" => o.pc = "create"
        PROVE  IInv'
    <2>1. PICK q \in Request : q = [o EXCEPT !.pc = step] /\ requests' = [requests EXCEPT ![r] = q]
      BY <1>1, <1>4, GotoType DEF IInv, Steps
    <2>2. /\ q.pc = step /\ q.presented = o.presented /\ q.client = o.client
          /\ q.sid = o.sid /\ q.sessionDead = o.sessionDead
      BY <2>1 DEF Request
    <2>3. LocalsOK(q)
      BY <1>1, <1>4, <2>2
    <2> QED BY <1>3, <2>1, <2>3
  <1>5. ASSUME NEW s \in Sessions, NEW c \in Clients, NEW sc \in SUBSET Scopes, CodeGrant(r, s, c, sc)
        PROVE  IInv'
    <2> DEFINE new == [Idle EXCEPT !.pc = "validate", !.client = c, !.scope = sc, !.sid = s,
                                   !.at = now, !.sessionDead = sessions[s].invalidated]
    <2>1. s \in DOMAIN sessions /\ sessions[s] \in Session
      BY <1>5 DEF CodeGrant, IInv, TypeOK
    <2>2. new \in Request
      BY <2>1 DEF Idle, Request, Steps, Session, IInv, TypeOK
    <2>3. PICK q \in Request : q = new /\ requests' = [requests EXCEPT ![r] = q]
      BY <1>5, <2>2 DEF CodeGrant
    <2>4. /\ q.pc = "validate" /\ q.client = c /\ q.sid = s /\ q.presented = NoToken
          /\ q.sessionDead = sessions[s].invalidated
      BY <2>3 DEF Idle
    <2>5. LocalsOK(q)
      BY <2>1, <2>4
    <2> QED BY <1>3, <2>3, <2>5
  <1>6. ASSUME ValidateForIssue(r) PROVE IInv'
    <2>1. CASE SessionValid(o.sid)
      <3>1. o.pc = "validate" /\ ~o.sessionDead /\ Goto(r, "create")
        BY <1>1, <1>6, <2>1 DEF ValidateForIssue, At, SessionValid
      <3> QED BY <1>4, <3>1
    <2>2. CASE ~SessionValid(o.sid)
      BY <1>1, <1>2, <1>6, <2>2 DEF ValidateForIssue
    <2> QED BY <2>1, <2>2
  <1>7. ASSUME SkipToken(r) PROVE IInv'
    BY <1>1, <1>4, <1>7 DEF SkipToken, At
  <1>8. ASSUME NEW t \in Tokens, NEW n, Revoke(r, t, n) PROVE IInv'
    <2> DEFINE new == [Idle EXCEPT !.pc = "revokeFamily", !.presented = t, !.at = now]
    <2>1. new \in Request
      BY DEF Idle, Request, Steps, IInv, TypeOK
    <2>2. PICK q \in Request : q = new /\ requests' = [requests EXCEPT ![r] = q]
      BY <1>8, <2>1 DEF Revoke
    <2>3. q.pc = "revokeFamily"
      BY <2>2 DEF Idle
    <2> QED BY <1>3, <2>2, <2>3
  <1>9. ASSUME NEW s \in Sessions, NEW t \in Tokens \cup {NoToken}, NEW c \in Clients \cup {NoClient},
               Logout(r, s, t, c)
        PROVE  IInv'
    <2> DEFINE new == [Idle EXCEPT !.pc = "invalidate", !.presented = t, !.client = c, !.sid = s, !.at = now]
    <2>1. new \in Request
      BY DEF Idle, Request, Steps, IInv, TypeOK
    <2>2. PICK q \in Request : q = new /\ requests' = [requests EXCEPT ![r] = q]
      BY <1>9, <2>1 DEF Logout
    <2>3. q.pc = "invalidate"
      BY <2>2 DEF Idle
    <2> QED BY <1>3, <2>2, <2>3
  <1>10. ASSUME LookupForRevoke(r) PROVE IInv'
    BY <1>2, <1>4, <1>10 DEF LookupForRevoke
  <1>11. ASSUME Deliver(r) \/ Abort(r) PROVE IInv'
    BY <1>2, <1>11 DEF Deliver, Abort
  <1> QED BY <1>5, <1>6, <1>7, <1>8, <1>9, <1>10, <1>11

LEMMA PasswordKeeps ==
  ASSUME IInv, NEW r \in Requests, NEW s \in Sessions, NEW c \in Clients, NEW sc \in SUBSET Scopes,
         PasswordGrant(r, s, c, sc)
  PROVE  IInv'
  <1> DEFINE new == [Idle EXCEPT !.pc = "create", !.client = c, !.scope = sc, !.sid = s, !.at = now]
  <1>1. /\ Grows /\ RowsOK' /\ OneLeaf'
        /\ s \in DOMAIN sessions'
        /\ DOMAIN sessions' \subseteq Sessions
        /\ sessions' \in [DOMAIN sessions' -> Session]
    BY LoginKeeps DEF PasswordGrant
  <1>2. new \in Request
    BY DEF Idle, Request, Steps, IInv, TypeOK
  <1>3. PICK q \in Request : q = new /\ requests' = [requests EXCEPT ![r] = q]
    BY <1>2 DEF PasswordGrant
  <1>4. q.pc = "create" /\ q.client = c /\ q.sid = s /\ q.presented = NoToken /\ ~q.sessionDead
    BY <1>3 DEF Idle
  <1>5. LocalsOK(q)'
    BY <1>1, <1>4 DEF LocalsOK, Refreshing, Answering, RefreshSteps
  <1>6. requests' \in [Requests -> Request] /\ (\A p \in Requests : LocalsOK(requests[p]))'
    BY <1>1, <1>3, <1>5, OneRequestMoves DEF IInv
  <1>7. TypeOK'
    BY <1>1, <1>6 DEF IInv, TypeOK, PasswordGrant
  <1> QED BY <1>1, <1>6, <1>7 DEF IInv

\* A request that sweeps the table and then ends or goes on to look a token up.
LEMMA SweepKeeps ==
  ASSUME IInv, NEW r \in Requests, NEW S, RevokeRows(S), UNCHANGED <<now, sessions>>,
         \A t \in Stored : t \in S /\ rows[t].parent # NoToken => rows[t].parent \in S,
         End(r) \/ Goto(r, "lookup")
  PROVE  IInv'
  <1>1. Grows /\ RowsOK' /\ OneLeaf'
    BY RevocationKeeps
  <1>2. DOMAIN rows' = Stored /\ rows' \in [DOMAIN rows' -> Row]
    BY RevokeType DEF IInv
  <1>3. PICK q \in Request : requests' = [requests EXCEPT ![r] = q] /\ LocalsOK(q)
    <2>1. CASE End(r)
      BY <2>1, IdleOK DEF End
    <2>2. CASE Goto(r, "lookup")
      <3>1. PICK o \in Request : o = requests[r]
        BY DEF IInv, TypeOK
      <3>2. PICK q \in Request : q = [o EXCEPT !.pc = "lookup"] /\ requests' = [requests EXCEPT ![r] = q]
        BY <2>2, <3>1, GotoType DEF IInv, Steps
      <3>3. q.pc = "lookup"
        BY <3>2 DEF Request
      <3>4. LocalsOK(q)
        BY <3>3 DEF LocalsOK, Refreshing, Answering, RefreshSteps
      <3> QED BY <3>2, <3>4
    <2> QED BY <2>1, <2>2
  <1>4. LocalsOK(q)'
    BY <1>1, <1>3, LocalsSurvive DEF IInv
  <1>5. requests' \in [Requests -> Request] /\ (\A p \in Requests : LocalsOK(requests[p]))'
    BY <1>1, <1>3, <1>4, OneRequestMoves DEF IInv
  <1>6. TypeOK'
    BY <1>2, <1>5 DEF IInv, TypeOK, Stored
  <1> QED BY <1>1, <1>5, <1>6 DEF IInv

LEMMA RevokeFamilyKeeps ==
  ASSUME IInv, NEW r \in Requests, RevokeFamily(r)
  PROVE  IInv'
  <1> DEFINE S == FamilyOf(requests[r].presented)
  <1>1. \A t \in Stored : t \in S /\ rows[t].parent # NoToken => rows[t].parent \in S
    BY DEF IInv, RowsOK, RowOK, FamilyOf
  <1> QED BY <1>1, SweepKeeps DEF RevokeFamily

LEMMA RevokeBySidKeeps ==
  ASSUME IInv, NEW r \in Requests, RevokeBySid(r)
  PROVE  IInv'
  <1> DEFINE S == TokensOf(requests[r].sid)
  <1>1. ASSUME NEW t \in Stored, t \in S, rows[t].parent # NoToken
        PROVE  rows[t].parent \in S
    <2>1. RowOK(t) /\ rows[t].parent \in Stored
      BY <1>1 DEF IInv, RowsOK, RowOK
    <2>2. RowOK(rows[t].parent)
      BY <2>1 DEF IInv, RowsOK
    <2> QED BY <1>1, <2>1, <2>2 DEF RowOK, TokensOf
  <1> QED BY <1>1, SweepKeeps DEF RevokeBySid

LEMMA InvalidateKeeps ==
  ASSUME IInv, NEW r \in Requests, InvalidateSession(r)
  PROVE  IInv'
  <1>1. PICK o \in Request : o = requests[r]
    BY DEF IInv, TypeOK
  <1>2. /\ DOMAIN sessions' = DOMAIN sessions
        /\ sessions' \in [DOMAIN sessions' -> Session]
        /\ \A s \in DOMAIN sessions : sessions[s].invalidated => sessions'[s].invalidated
    BY DEF InvalidateSession, IInv, TypeOK, Session
  <1>3. Grows
    BY <1>2 DEF Grows, InvalidateSession, Stored
  <1>4. RowsOK' /\ OneLeaf'
    BY <1>2, TableUnchanged DEF IInv, InvalidateSession
  <1>5. PICK q \in Request : q = [o EXCEPT !.pc = "revokeSid"] /\ requests' = [requests EXCEPT ![r] = q]
    BY <1>1, GotoType DEF IInv, Steps, InvalidateSession
  <1>6. q.pc = "revokeSid"
    BY <1>5 DEF Request
  <1>7. LocalsOK(q)'
    BY <1>6 DEF LocalsOK, Refreshing, Answering, RefreshSteps
  <1>8. requests' \in [Requests -> Request] /\ (\A p \in Requests : LocalsOK(requests[p]))'
    BY <1>3, <1>5, <1>7, OneRequestMoves DEF IInv
  <1>9. TypeOK'
    BY <1>2, <1>8 DEF IInv, TypeOK, InvalidateSession
  <1> QED BY <1>4, <1>8, <1>9 DEF IInv

\* Nobody's locals move: a login, the clock, a stuttering step.
LEMMA BackgroundKeeps ==
  ASSUME IInv, Tick \/ (\E s \in Sessions : Login(s)) \/ UNCHANGED vars
  PROVE  IInv'
  <1>1. /\ Grows /\ RowsOK' /\ OneLeaf' /\ now' \in Nat
        /\ DOMAIN sessions' \subseteq Sessions
        /\ sessions' \in [DOMAIN sessions' -> Session]
    <2>1. CASE Tick \/ UNCHANGED vars
      <3>1. UNCHANGED <<rows, sessions>> /\ now' \in Nat
        BY <2>1 DEF Tick, vars, IInv, TypeOK
      <3>2. Grows
        BY <3>1 DEF Grows, Stored
      <3> QED BY <3>1, <3>2, TableUnchanged DEF IInv, TypeOK
    <2>2. CASE \E s \in Sessions : Login(s)
      BY <2>2, LoginKeeps DEF Login, IInv, TypeOK
    <2> QED BY <2>1, <2>2
  <1>2. UNCHANGED requests /\ DOMAIN rows' \subseteq Tokens /\ rows' \in [DOMAIN rows' -> Row]
    BY DEF Tick, Login, vars, IInv, TypeOK
  <1>3. ASSUME NEW p \in Requests PROVE LocalsOK(requests[p])'
    <2>1. PICK o \in Request : o = requests[p] /\ LocalsOK(o)
      BY DEF IInv, TypeOK
    <2>2. LocalsOK(o)'
      BY <1>1, <2>1, LocalsSurvive DEF IInv
    <2> QED BY <1>2, <2>1, <2>2 DEF LocalsOK, Refreshing, Answering
  <1>4. TypeOK'
    BY <1>1, <1>2 DEF IInv, TypeOK
  <1> QED BY <1>1, <1>3, <1>4 DEF IInv

LEMMA NextIInv == IInv /\ [Next]_vars => IInv'
  <1> SUFFICES ASSUME IInv, [Next]_vars PROVE IInv'
    OBVIOUS
  <1>1. CASE Tick \/ (\E s \in Sessions : Login(s)) \/ UNCHANGED vars
    BY <1>1, BackgroundKeeps
  <1>2. ASSUME NEW r \in Requests, Grant(r) PROVE IInv'
    <2>1. CASE \E s \in Sessions, c \in Clients, sc \in SUBSET Scopes : PasswordGrant(r, s, c, sc)
      BY <2>1, PasswordKeeps
    <2>2. CASE \E s \in Sessions, c \in Clients, sc \in SUBSET Scopes : CodeGrant(r, s, c, sc)
      <3>1. UNCHANGED <<now, rows, sessions>>
        BY <2>2 DEF CodeGrant
      <3> QED BY <2>2, <3>1, OtherRequestsKeep
    <2>3. CASE ValidateForIssue(r) \/ SkipToken(r)
      <3>1. UNCHANGED <<now, rows, sessions>>
        BY <2>3 DEF ValidateForIssue, SkipToken
      <3> QED BY <2>3, <3>1, OtherRequestsKeep
    <2>4. CASE \E t \in Tokens : CreateToken(r, t)
      BY <2>4, CreateKeeps
    <2> QED BY <1>2, <2>1, <2>2, <2>3, <2>4 DEF Grant
  <1>3. ASSUME NEW r \in Requests, Refresh(r) PROVE IInv'
    <2>1. CASE \E t \in Tokens, c \in Clients, sc \in SUBSET Scopes : Present(r, t, c, sc)
      BY <2>1, PresentKeeps
    <2>2. CASE Consume(r)
      BY <2>2, ConsumeKeeps
    <2>3. CASE Confirm(r)
      BY <2>3, ConfirmKeeps
    <2>4. CASE \E c \in Tokens : InsertChild(r, c)
      BY <2>4, InsertKeeps
    <2>5. CASE Replay(r)
      BY <2>5, ReplayKeeps
    <2>6. CASE CheckSession(r)
      BY <2>6, CheckKeeps
    <2> QED BY <1>3, <2>1, <2>2, <2>3, <2>4, <2>5, <2>6 DEF Refresh
  <1>4. ASSUME NEW r \in Requests, Retire(r) PROVE IInv'
    <2>1. CASE \E t \in Tokens, c \in Clients : Revoke(r, t, TenantOf[c])
      <3>1. UNCHANGED <<now, rows, sessions>>
        BY <2>1 DEF Revoke
      <3> QED BY <2>1, <3>1, OtherRequestsKeep
    <2>2. CASE \E s \in Sessions, t \in Tokens \cup {NoToken}, c \in Clients \cup {NoClient} :
                  Logout(r, s, t, c)
      <3>1. UNCHANGED <<now, rows, sessions>>
        BY <2>2 DEF Logout
      <3> QED BY <2>2, <3>1, OtherRequestsKeep
    <2>3. CASE InvalidateSession(r)
      BY <2>3, InvalidateKeeps
    <2>4. CASE RevokeBySid(r)
      BY <2>4, RevokeBySidKeeps
    <2>5. CASE LookupForRevoke(r)
      <3>1. UNCHANGED <<now, rows, sessions>>
        BY <2>5 DEF LookupForRevoke
      <3> QED BY <2>5, <3>1, OtherRequestsKeep
    <2>6. CASE RevokeFamily(r)
      BY <2>6, RevokeFamilyKeeps
    <2> QED BY <1>4, <2>1, <2>2, <2>3, <2>4, <2>5, <2>6 DEF Retire
  <1>5. ASSUME NEW r \in Requests, Deliver(r) \/ Abort(r) PROVE IInv'
    <2>1. UNCHANGED <<now, rows, sessions>>
      BY <1>5 DEF Deliver, Abort
    <2> QED BY <1>5, <2>1, OtherRequestsKeep
  <1> QED BY <1>1, <1>2, <1>3, <1>4, <1>5 DEF Next

LEMMA Invariance == Spec => []IInv
  BY InitIInv, NextIInv, PTL DEF Spec

-----------------------------------------------------------------------------
(* The theorems.                                                           *)

\* Every row, session and request stays a value of its type, whatever requests
\* the server interleaves.
THEOREM TypeCorrect == Spec => []TypeOK
  <1>1. IInv => TypeOK
    BY DEF IInv
  <1> QED BY <1>1, Invariance, PTL

\* Rotation never forks a family: of all its tokens at most one can be
\* exchanged, because a token with a successor is a used one and only the last
\* token of the chain has none.
THEOREM NoForkedFamily == Spec => []OneLiveToken
  <1>1. IInv => OneLiveToken
    <2> SUFFICES ASSUME IInv, NEW t \in Stored, NEW u \in Stored,
                        rows[t].family = rows[u].family, Live(t), Live(u)
                 PROVE  t = u
      BY DEF OneLiveToken
    <2>1. ASSUME NEW v \in Stored, Live(v) PROVE ~HasChild(v)
      <3>1. v # NoToken
        BY NullsAreNoValues DEF IInv, TypeOK, Stored
      <3> QED BY <2>1, <3>1 DEF IInv, RowsOK, RowOK, HasChild, Live
    <2> QED BY <2>1 DEF IInv, OneLeaf
  <1> QED BY <1>1, Invariance, PTL

\* A request that reads its token, or its session, after logout invalidated the
\* session is not answered: it may slip through every check on the token, but
\* the session is the last thing that is looked at.
THEOREM LogoutIsFinal == Spec => []NoAnswerAfterLogout
  <1>1. IInv => NoAnswerAfterLogout
    BY DEF IInv, LocalsOK, NoAnswerAfterLogout, At
  <1> QED BY <1>1, Invariance, PTL

\* No chain of rotations outlives the deadline that create gave the family.
THEOREM DeadlineIsHard == Spec => []HardLifetime
  <1>1. IInv => HardLifetime
    <2> SUFFICES ASSUME IInv, NEW r \in Requests, RefreshAnswered(r)
                 PROVE  requests[r].at <= rows[rows[requests[r].presented].family].absoluteExpiresAt
      BY DEF HardLifetime
    <2>1. /\ requests[r].presented \in Stored
          /\ requests[r].at <= rows[requests[r].presented].absoluteExpiresAt
      BY DEF IInv, LocalsOK, Refreshing, RefreshAnswered, At
    <2> QED BY <2>1 DEF IInv, RowsOK, RowOK
  <1> QED BY <1>1, Invariance, PTL

\* Every answered refresh stays within the client, session and scopes of the
\* family's first token.
THEOREM GrantIsKept == Spec => []StaysInGrant
  <1>1. IInv => StaysInGrant
    <2> SUFFICES ASSUME IInv, NEW r \in Requests, RefreshAnswered(r)
                 PROVE  LET root == rows[rows[requests[r].presented].family]
                            answer == rows[requests[r].record]
                        IN /\ answer.client = root.client /\ requests[r].client = root.client
                           /\ answer.sid = root.sid
                           /\ answer.scope \subseteq root.scope
      BY DEF StaysInGrant
    <2> DEFINE t == requests[r].presented
               a == requests[r].record
    <2>1. /\ t \in Stored /\ requests[r].client = rows[t].client
          /\ a \in Stored /\ rows[a].parent = t
      BY DEF IInv, LocalsOK, Refreshing, Answering, RefreshAnswered, At
    <2>2. t # NoToken
      BY DEF RefreshAnswered
    <2>3. RowOK(t) /\ RowOK(a)
      BY <2>1 DEF IInv, RowsOK
    <2>4. rows[a].family = rows[t].family
      BY <2>1, <2>2, <2>3 DEF RowOK
    <2> QED BY <2>1, <2>3, <2>4 DEF RowOK
  <1> QED BY <1>1, Invariance, PTL

\* No revocation, of a family or of a session, and no insertion that races with
\* it leaves a token unrevoked above a revoked one.
THEOREM RevocationReachesTheRoot == Spec => []RevokedUpToRoot
  <1>1. IInv => RevokedUpToRoot
    BY DEF IInv, RowsOK, RowOK, RevokedUpToRoot
  <1> QED BY <1>1, Invariance, PTL

-----------------------------------------------------------------------------
(* The refinement.                                                         *)

FamilySeen(t) == IF t \in Stored THEN rows[t].family ELSE NoToken
ParentSeen(t) == IF t \in Stored THEN rows[t].parent ELSE NoToken

\* A step of the table that TokenFamilies does not see.
Unseen ==
    \A t \in Tokens : /\ StatusOf(t)' = StatusOf(t)
                      /\ FamilySeen(t)' = FamilySeen(t)
                      /\ ParentSeen(t)' = ParentSeen(t)

LEMMA UnseenStutters ==
  ASSUME Unseen
  PROVE  UNCHANGED Families!vars
  BY DEF Unseen, FamilySeen, ParentSeen, Families!vars

LEMMA SameTable ==
  ASSUME UNCHANGED rows
  PROVE  UNCHANGED Families!vars
  <1>1. Unseen
    BY DEF Unseen, StatusOf, FamilySeen, ParentSeen, Stored
  <1> QED BY <1>1, UnseenStutters

\* create stores the first token of a family.
LEMMA CreateMints ==
  ASSUME IInv, NEW r \in Requests, NEW t \in Tokens, CreateToken(r, t)
  PROVE  Families!Next
  <1>1. PICK row : row = RootRow(t, requests[r].client, requests[r].scope, requests[r].sid)
    OBVIOUS
  <1>2. /\ row.family = t /\ row.parent = NoToken /\ row.revoked = FALSE /\ row.usedAt = NotYet
    BY <1>1 DEF RootRow
  <1>3. t \notin Stored /\ Store(t, row)
    BY <1>1 DEF CreateToken
  <1>4. /\ Stored' = Stored \cup {t} /\ rows'[t] = row
        /\ \A u \in Stored : u # t => rows'[u] = rows[u]
    BY <1>3 DEF Store, Stored
  <1>5. ASSUME NEW u \in Tokens
        PROVE  /\ StatusOf(u)' = IF u = t THEN "live" ELSE StatusOf(u)
               /\ FamilySeen(u)' = IF u = t THEN t ELSE FamilySeen(u)
               /\ ParentSeen(u)' = ParentSeen(u)
    BY <1>2, <1>3, <1>4 DEF StatusOf, FamilySeen, ParentSeen
  <1>6. StatusOf(t) = "unborn"
    BY <1>3 DEF StatusOf
  <1>7. Families!Mint(t)
    BY <1>5, <1>6 DEF Families!Mint, FamilySeen, ParentSeen
  <1> QED BY <1>7 DEF Families!Next

\* The conditional UPDATE of consumeAndRotate; that of a token revoked since it
\* was read is not seen.
LEMMA ConsumeSpends ==
  ASSUME IInv, NEW r \in Requests, Consume(r)
  PROVE  Families!Next \/ UNCHANGED Families!vars
  <1> DEFINE t == requests[r].presented
  <1>1. t \in Stored /\ t \in Tokens /\ requests[r].at \in Nat
    BY DEF Consume, At, IInv, LocalsOK, Refreshing, RefreshSteps, TypeOK, Request, Stored
  <1>2. CASE rows[t].usedAt # NotYet
    BY <1>2, SameTable DEF Consume
  <1>3. CASE rows[t].usedAt = NotYet
    <2>1. PICK row : row = [rows[t] EXCEPT !.usedAt = requests[r].at]
      OBVIOUS
    <2>2. rows[t] \in Row
      BY <1>1 DEF IInv, TypeOK, Stored
    <2>3. /\ row.family = rows[t].family /\ row.parent = rows[t].parent
          /\ row.revoked = rows[t].revoked /\ row.usedAt # NotYet
      BY <1>1, <2>1, <2>2, NullsAreNoValues DEF Row
    <2>4. /\ Stored' = Stored /\ rows'[t] = row
          /\ \A u \in Stored : u # t => rows'[u] = rows[u]
      BY <1>1, <1>3, <2>1 DEF Consume, IInv, TypeOK, Stored
    <2>5. CASE rows[t].revoked
      <3>1. Unseen
        BY <1>1, <2>3, <2>4, <2>5 DEF Unseen, StatusOf, FamilySeen, ParentSeen
      <3> QED BY <3>1, UnseenStutters
    <2>6. CASE ~rows[t].revoked
      <3>1. ASSUME NEW u \in Tokens
            PROVE  /\ StatusOf(u)' = IF u = t THEN "spent" ELSE StatusOf(u)
                   /\ FamilySeen(u)' = FamilySeen(u) /\ ParentSeen(u)' = ParentSeen(u)
        BY <1>1, <2>3, <2>4, <2>6 DEF StatusOf, FamilySeen, ParentSeen
      <3>2. StatusOf(t) = "live"
        BY <1>1, <1>3, <2>6 DEF StatusOf
      <3>3. PICK u \in Tokens : u = t
        BY <1>1
      <3>4. Families!Spend(u)
        BY <3>1, <3>2, <3>3 DEF Families!Spend, FamilySeen, ParentSeen
      <3> QED BY <3>4 DEF Families!Next
    <2> QED BY <2>5, <2>6
  <1> QED BY <1>2, <1>3

\* The successor, whose parent may have been revoked by then.
LEMMA InsertSucceeds ==
  ASSUME IInv, NEW r \in Requests, NEW c \in Tokens, InsertChild(r, c)
  PROVE  Families!Next \/ UNCHANGED Families!vars
  <1>1. PICK p : p = requests[r].presented
    OBVIOUS
  <1>2. p \in Stored /\ p \in Tokens /\ rows[p].usedAt # NotYet
    BY <1>1 DEF InsertChild, At, IInv, LocalsOK, Refreshing, RefreshSteps, TypeOK, Request, Stored
  <1>3. CASE HasChild(p)
    BY <1>1, <1>3, SameTable DEF InsertChild
  <1>4. CASE ~HasChild(p)
    <2>1. PICK row : row = ChildRow(p, requests[r].scope)
      OBVIOUS
    <2>2. /\ row.family = rows[p].family /\ row.parent = p /\ row.revoked = FALSE
          /\ row.usedAt = NotYet
      BY <2>1 DEF ChildRow
    <2>3. c \notin Stored /\ Store(c, row)
      BY <1>1, <1>4, <2>1 DEF InsertChild
    <2>4. /\ Stored' = Stored \cup {c} /\ rows'[c] = row
          /\ \A u \in Stored : u # c => rows'[u] = rows[u]
      BY <2>3 DEF Store, Stored
    <2>5. ASSUME NEW u \in Tokens
          PROVE  /\ StatusOf(u)' = IF u = c THEN "live" ELSE StatusOf(u)
                 /\ FamilySeen(u)' = IF u = c THEN FamilySeen(p) ELSE FamilySeen(u)
                 /\ ParentSeen(u)' = IF u = c THEN p ELSE ParentSeen(u)
      BY <1>2, <2>2, <2>3, <2>4 DEF StatusOf, FamilySeen, ParentSeen
    <2>6. StatusOf(p) \in {"spent", "dead"} /\ StatusOf(c) = "unborn"
      BY <1>2, <2>3 DEF StatusOf
    <2>7. \A u \in Tokens : ParentSeen(u) # p
      BY <1>2, <1>4, NullsAreNoValues DEF ParentSeen, HasChild
    <2>8. Families!Succeed(p, c)
      BY <1>2, <2>5, <2>6, <2>7 DEF Families!Succeed, FamilySeen, ParentSeen
    <2> QED BY <1>2, <2>8 DEF Families!Next
  <1> QED BY <1>3, <1>4

\* One UPDATE that revokes whole families.
LEMMA RevocationKills ==
  ASSUME IInv, NEW S \in SUBSET Stored, RevokeRows(S),
         \A t \in S, u \in Stored : rows[u].family = rows[t].family => u \in S
  PROVE  Families!Next
  <1>1. /\ DOMAIN rows' = Stored
        /\ \A t \in Stored : rows'[t] = IF t \in S THEN [rows[t] EXCEPT !.revoked = TRUE]
                                                   ELSE rows[t]
    BY RevokeType DEF IInv
  <1>2. \A t \in Stored : t \in Tokens /\ rows[t] \in Row /\ rows[t].family \in Tokens
    BY DEF IInv, TypeOK, Stored, Row
  <1>3. PICK F \in SUBSET Tokens : F = {rows[t].family : t \in S}
    BY <1>2
  <1>4. ASSUME NEW u \in Tokens
        PROVE  /\ StatusOf(u)' = IF FamilySeen(u) \in F THEN "dead" ELSE StatusOf(u)
               /\ FamilySeen(u)' = FamilySeen(u) /\ ParentSeen(u)' = ParentSeen(u)
    <2>1. CASE u \notin Stored
      <3>1. FamilySeen(u) \notin F
        BY <1>3, <2>1, NullsAreNoValues DEF FamilySeen
      <3> QED BY <1>1, <2>1, <3>1 DEF StatusOf, FamilySeen, ParentSeen, Stored
    <2>2. CASE u \in S
      <3>1. rows'[u] = [rows[u] EXCEPT !.revoked = TRUE] /\ rows[u] \in Row
        BY <1>1, <1>2, <2>2
      <3>2. /\ rows'[u].family = rows[u].family /\ rows'[u].parent = rows[u].parent
            /\ rows'[u].revoked
        BY <3>1 DEF Row
      <3>3. FamilySeen(u) \in F
        BY <1>3, <2>2 DEF FamilySeen
      <3> QED BY <1>1, <2>2, <3>2, <3>3 DEF StatusOf, FamilySeen, ParentSeen, Stored
    <2>3. CASE u \in Stored \ S
      <3>1. FamilySeen(u) \notin F
        BY <1>3, <2>3 DEF FamilySeen
      <3> QED BY <1>1, <2>3, <3>1 DEF StatusOf, FamilySeen, ParentSeen, Stored
    <2> QED BY <2>1, <2>2, <2>3
  <1>5. Families!Kill(F)
    BY <1>4 DEF Families!Kill, FamilySeen, ParentSeen
  <1> QED BY <1>3, <1>5 DEF Families!Next

LEMMA StepRefines ==
  ASSUME IInv, [Next]_vars
  PROVE  [Families!Next]_Families!vars
  <1> SUFFICES Families!Next \/ UNCHANGED Families!vars
    OBVIOUS
  <1>1. ASSUME NEW r \in Requests, RevokeFamily(r) PROVE Families!Next
    <2>1. PICK S : S = FamilyOf(requests[r].presented)
      OBVIOUS
    <2>2. RevokeRows(S) /\ S \in SUBSET Stored
      BY <1>1, <2>1 DEF RevokeFamily, FamilyOf
    <2>3. \A t \in S, u \in Stored : rows[u].family = rows[t].family => u \in S
      BY <2>1 DEF FamilyOf
    <2> QED BY <2>2, <2>3, RevocationKills
  <1>2. ASSUME NEW r \in Requests, RevokeBySid(r) PROVE Families!Next
    <2>1. PICK S : S = TokensOf(requests[r].sid)
      OBVIOUS
    <2>2. RevokeRows(S) /\ S \in SUBSET Stored
      BY <1>2, <2>1 DEF RevokeBySid, TokensOf
    <2>3. \A t \in S, u \in Stored : rows[u].family = rows[t].family => u \in S
      BY <2>1 DEF TokensOf, IInv, RowsOK, RowOK
    <2> QED BY <2>2, <2>3, RevocationKills
  <1>3. ASSUME NEW r \in Requests, Grant(r) PROVE Families!Next \/ UNCHANGED Families!vars
    <2>1. UNCHANGED rows \/ \E t \in Tokens : CreateToken(r, t)
      BY <1>3 DEF Grant, PasswordGrant, CodeGrant, ValidateForIssue, SkipToken
    <2> QED BY <2>1, SameTable, CreateMints
  <1>4. ASSUME NEW r \in Requests, Refresh(r) PROVE Families!Next \/ UNCHANGED Families!vars
    <2>1. UNCHANGED rows \/ Consume(r) \/ \E c \in Tokens : InsertChild(r, c)
      BY <1>4 DEF Refresh, Present, Confirm, Replay, CheckSession
    <2> QED BY <2>1, SameTable, ConsumeSpends, InsertSucceeds
  <1>5. ASSUME NEW r \in Requests, Retire(r) PROVE Families!Next \/ UNCHANGED Families!vars
    <2>1. UNCHANGED rows \/ RevokeFamily(r) \/ RevokeBySid(r)
      BY <1>5 DEF Retire, Revoke, Logout, InvalidateSession, LookupForRevoke
    <2> QED BY <1>1, <1>2, <2>1, SameTable
  <1>6. ASSUME UNCHANGED rows PROVE UNCHANGED Families!vars
    BY <1>6, SameTable
  <1> QED BY <1>3, <1>4, <1>5, <1>6 DEF Next, Tick, Login, Deliver, Abort, vars

LEMMA InitRefines == Init => Families!Init
  BY DEF Init, Families!Init, StatusOf, Stored

\* The two tables, with requests that interleave at every statement, implement
\* the families of tokens that the store promises its clients: every step is one
\* of theirs, or none.
THEOREM StoreImplementsFamilies == Spec => ImplementsFamilies
  BY InitRefines, StepRefines, Invariance, PTL DEF Spec, ImplementsFamilies, Families!Spec

-----------------------------------------------------------------------------
(* What the families promise follows from their own steps alone, so what the *)
(* refinement carries over to the tables is worth having.                  *)

ChildlessSeen(t) == \A u \in Tokens : ParentSeen(u) # t

\* How a token hangs in its family, and that only one of a family has no child.
Lineage(t) ==
    /\ StatusOf(t) = "unborn" => FamilySeen(t) = NoToken /\ ParentSeen(t) = NoToken
    /\ StatusOf(t) # "unborn" => FamilySeen(t) \in Tokens /\ StatusOf(FamilySeen(t)) # "unborn"
    /\ ParentSeen(t) # NoToken =>
          /\ ParentSeen(t) \in Tokens
          /\ StatusOf(ParentSeen(t)) \in {"spent", "dead"}
          /\ FamilySeen(ParentSeen(t)) = FamilySeen(t)
          /\ StatusOf(t) = "dead" => StatusOf(ParentSeen(t)) = "dead"

LastOfFamily ==
    \A t, u \in Tokens :
        /\ StatusOf(t) # "unborn" /\ StatusOf(u) # "unborn"
        /\ FamilySeen(t) = FamilySeen(u)
        /\ ChildlessSeen(t) /\ ChildlessSeen(u)
        => t = u

FamiliesInv == (\A t \in Tokens : Lineage(t)) /\ LastOfFamily

StatusesSeen == {"unborn", "live", "spent", "dead"}

LEMMA StatusType == \A t \in Tokens : StatusOf(t) \in StatusesSeen
  BY DEF StatusOf, StatusesSeen

LEMMA FamiliesStart ==
  ASSUME Families!Init
  PROVE  FamiliesInv
  <1>1. \A t \in Tokens : /\ StatusOf(t) = "unborn" /\ FamilySeen(t) = NoToken
                          /\ ParentSeen(t) = NoToken
    BY DEF Families!Init, FamilySeen, ParentSeen
  <1> QED BY <1>1 DEF FamiliesInv, Lineage, LastOfFamily

LEMMA FamiliesStutter ==
  ASSUME UNCHANGED Families!vars
  PROVE  Unseen
  BY DEF Families!vars, Unseen, FamilySeen, ParentSeen

\* The four steps, token by token.
LEMMA MintSeen ==
  ASSUME NEW t \in Tokens, Families!Mint(t)
  PROVE  /\ StatusOf(t) = "unborn" /\ StatusOf(t)' = "live" /\ FamilySeen(t)' = t
         /\ ParentSeen(t)' = ParentSeen(t)
         /\ \A u \in Tokens : u # t => /\ StatusOf(u)' = StatusOf(u)
                                       /\ FamilySeen(u)' = FamilySeen(u)
                                       /\ ParentSeen(u)' = ParentSeen(u)
  BY DEF Families!Mint, FamilySeen, ParentSeen

LEMMA SpendSeen ==
  ASSUME NEW t \in Tokens, Families!Spend(t)
  PROVE  /\ StatusOf(t) = "live" /\ StatusOf(t)' = "spent"
         /\ \A u \in Tokens : /\ u # t => StatusOf(u)' = StatusOf(u)
                              /\ FamilySeen(u)' = FamilySeen(u)
                              /\ ParentSeen(u)' = ParentSeen(u)
  BY DEF Families!Spend, FamilySeen, ParentSeen

LEMMA SucceedSeen ==
  ASSUME NEW p \in Tokens, NEW c \in Tokens, Families!Succeed(p, c)
  PROVE  /\ StatusOf(p) \in {"spent", "dead"} /\ StatusOf(c) = "unborn" /\ ChildlessSeen(p)
         /\ StatusOf(c)' = "live" /\ FamilySeen(c)' = FamilySeen(p) /\ ParentSeen(c)' = p
         /\ \A u \in Tokens : u # c => /\ StatusOf(u)' = StatusOf(u)
                                       /\ FamilySeen(u)' = FamilySeen(u)
                                       /\ ParentSeen(u)' = ParentSeen(u)
  BY DEF Families!Succeed, FamilySeen, ParentSeen, ChildlessSeen

LEMMA KillSeen ==
  ASSUME NEW F \in SUBSET Tokens, Families!Kill(F)
  PROVE  \A u \in Tokens : /\ StatusOf(u)' = IF FamilySeen(u) \in F THEN "dead" ELSE StatusOf(u)
                           /\ FamilySeen(u)' = FamilySeen(u)
                           /\ ParentSeen(u)' = ParentSeen(u)
  BY DEF Families!Kill, FamilySeen, ParentSeen

LEMMA MintKeepsFamilies ==
  ASSUME FamiliesInv, NEW t \in Tokens, Families!Mint(t)
  PROVE  FamiliesInv'
  <1>1. \A u \in Tokens : /\ ParentSeen(u)' = ParentSeen(u)
                          /\ u # t => /\ StatusOf(u)' = StatusOf(u)
                                      /\ FamilySeen(u)' = FamilySeen(u)
    BY MintSeen
  <1>2. /\ StatusOf(t) = "unborn" /\ StatusOf(t)' = "live" /\ FamilySeen(t)' = t
        /\ ParentSeen(t) = NoToken
    BY MintSeen DEF FamiliesInv, Lineage
  <1>3. ASSUME NEW u \in Tokens PROVE Lineage(u)'
    <2>1. CASE u = t
      BY <1>1, <1>2, <2>1 DEF Lineage
    <2>2. CASE u # t
      <3>1. Lineage(u)
        BY DEF FamiliesInv
      <3>2. StatusOf(u) # "unborn" => FamilySeen(u) # t
        BY <1>2, <3>1 DEF Lineage
      <3>3. ParentSeen(u) # NoToken => ParentSeen(u) # t /\ ParentSeen(u) \in Tokens
        BY <1>2, <3>1 DEF Lineage
      <3> QED BY <1>1, <2>2, <3>1, <3>2, <3>3 DEF Lineage
    <2> QED BY <2>1, <2>2
  <1>4. \A u \in Tokens : ChildlessSeen(u)' => ChildlessSeen(u)
    BY <1>1 DEF ChildlessSeen
  <1>5. \A u \in Tokens : u # t /\ StatusOf(u)' # "unborn" => FamilySeen(u)' # t
    BY <1>1, <1>2 DEF FamiliesInv, Lineage
  <1>6. LastOfFamily'
    <2> SUFFICES ASSUME NEW u \in Tokens, NEW v \in Tokens,
                        StatusOf(u)' # "unborn", StatusOf(v)' # "unborn",
                        FamilySeen(u)' = FamilySeen(v)',
                        ChildlessSeen(u)', ChildlessSeen(v)'
                 PROVE  u = v
      BY DEF LastOfFamily
    <2>1. CASE u = t \/ v = t
      BY <1>2, <1>5, <2>1
    <2>2. CASE u # t /\ v # t
      BY <1>1, <1>4, <2>2 DEF FamiliesInv, LastOfFamily
    <2> QED BY <2>1, <2>2
  <1> QED BY <1>3, <1>6 DEF FamiliesInv

LEMMA SpendKeepsFamilies ==
  ASSUME FamiliesInv, NEW t \in Tokens, Families!Spend(t)
  PROVE  FamiliesInv'
  <1>1. \A u \in Tokens : /\ StatusOf(u)' = IF u = t THEN "spent" ELSE StatusOf(u)
                          /\ FamilySeen(u)' = FamilySeen(u)
                          /\ ParentSeen(u)' = ParentSeen(u)
    BY SpendSeen
  <1>2. StatusOf(t) = "live"
    BY SpendSeen
  <1>3. ASSUME NEW u \in Tokens PROVE Lineage(u)'
    <2>1. Lineage(u)
      BY DEF FamiliesInv
    <2>2. ParentSeen(u) # NoToken => ParentSeen(u) # t
      BY <1>2, <2>1 DEF Lineage
    <2> QED BY <1>1, <1>2, <2>1, <2>2 DEF Lineage
  <1>4. \A u \in Tokens : ChildlessSeen(u)' <=> ChildlessSeen(u)
    BY <1>1 DEF ChildlessSeen
  <1>5. \A u \in Tokens : StatusOf(u)' # "unborn" <=> StatusOf(u) # "unborn"
    BY <1>1, <1>2
  <1>6. LastOfFamily'
    BY <1>1, <1>4, <1>5 DEF FamiliesInv, LastOfFamily
  <1> QED BY <1>3, <1>6 DEF FamiliesInv

LEMMA SucceedKeepsFamilies ==
  ASSUME FamiliesInv, NEW p \in Tokens, NEW c \in Tokens, Families!Succeed(p, c)
  PROVE  FamiliesInv'
  <1>1. /\ StatusOf(p) \in {"spent", "dead"} /\ StatusOf(c) = "unborn" /\ ChildlessSeen(p)
        /\ StatusOf(c)' = "live" /\ FamilySeen(c)' = FamilySeen(p) /\ ParentSeen(c)' = p
    BY SucceedSeen
  <1>2. \A u \in Tokens : u # c => /\ StatusOf(u)' = StatusOf(u)
                                   /\ FamilySeen(u)' = FamilySeen(u)
                                   /\ ParentSeen(u)' = ParentSeen(u)
    BY SucceedSeen
  <1>3. p # c /\ ParentSeen(c) = NoToken /\ p # NoToken
    BY <1>1, NullsAreNoValues DEF FamiliesInv, Lineage
  <1>4. ASSUME NEW u \in Tokens PROVE Lineage(u)'
    <2>1. CASE u = c
      <3>1. /\ FamilySeen(p) \in Tokens /\ StatusOf(FamilySeen(p)) # "unborn"
        BY <1>1 DEF FamiliesInv, Lineage
      <3>2. FamilySeen(p) # c
        BY <1>1, <3>1
      <3>3. /\ StatusOf(FamilySeen(p))' # "unborn"
            /\ StatusOf(p)' = StatusOf(p) /\ FamilySeen(p)' = FamilySeen(p)
        BY <1>2, <1>3, <3>1, <3>2
      <3> QED BY <1>1, <1>3, <2>1, <3>1, <3>3 DEF Lineage
    <2>2. CASE u # c
      <3>1. Lineage(u)
        BY DEF FamiliesInv
      <3>2. StatusOf(u) # "unborn" => FamilySeen(u) # c
        BY <1>1, <3>1 DEF Lineage
      <3>3. ParentSeen(u) # NoToken => ParentSeen(u) # c
        BY <1>1, <3>1 DEF Lineage
      <3> QED BY <1>2, <2>2, <3>1, <3>2, <3>3 DEF Lineage
    <2> QED BY <2>1, <2>2
  <1>5. ~ChildlessSeen(p)'
    BY <1>1 DEF ChildlessSeen
  <1>6. ASSUME NEW u \in Tokens, ChildlessSeen(u)' PROVE ChildlessSeen(u)
    <2>1. \A v \in Tokens : v # c => ParentSeen(v) # u
      BY <1>2, <1>6 DEF ChildlessSeen
    <2>2. ParentSeen(c) # u
      BY <1>3, NullsAreNoValues
    <2> QED BY <2>1, <2>2 DEF ChildlessSeen
  <1>7. \* whoever is left without a child in the family of p would have been p
        ASSUME NEW u \in Tokens, u # c, StatusOf(u)' # "unborn", ChildlessSeen(u)'
        PROVE  FamilySeen(u)' # FamilySeen(c)'
    <2>1. StatusOf(u) # "unborn" /\ FamilySeen(u)' = FamilySeen(u) /\ ChildlessSeen(u)
      BY <1>2, <1>6, <1>7
    <2>2. u # p /\ StatusOf(p) # "unborn"
      BY <1>1, <1>5, <1>7
    <2>3. FamilySeen(u) # FamilySeen(p)
      BY <1>1, <2>1, <2>2 DEF FamiliesInv, LastOfFamily
    <2> QED BY <1>1, <2>1, <2>3
  <1>8. LastOfFamily'
    <2> SUFFICES ASSUME NEW u \in Tokens, NEW v \in Tokens,
                        StatusOf(u)' # "unborn", StatusOf(v)' # "unborn",
                        FamilySeen(u)' = FamilySeen(v)',
                        ChildlessSeen(u)', ChildlessSeen(v)'
                 PROVE  u = v
      BY DEF LastOfFamily
    <2>1. CASE u = c \/ v = c
      BY <1>7, <2>1
    <2>2. CASE u # c /\ v # c
      BY <1>2, <1>6, <2>2 DEF FamiliesInv, LastOfFamily
    <2> QED BY <2>1, <2>2
  <1> QED BY <1>4, <1>8 DEF FamiliesInv

LEMMA KillKeepsFamilies ==
  ASSUME FamiliesInv, NEW F \in SUBSET Tokens, Families!Kill(F)
  PROVE  FamiliesInv'
  <1>1. \A u \in Tokens : /\ StatusOf(u)' = IF FamilySeen(u) \in F THEN "dead" ELSE StatusOf(u)
                          /\ FamilySeen(u)' = FamilySeen(u)
                          /\ ParentSeen(u)' = ParentSeen(u)
    BY KillSeen
  <1>2. \A u \in Tokens : StatusOf(u)' = "unborn" <=> StatusOf(u) = "unborn"
    BY <1>1, NullsAreNoValues DEF FamiliesInv, Lineage
  <1>3. ASSUME NEW u \in Tokens PROVE Lineage(u)'
    <2>1. Lineage(u)
      BY DEF FamiliesInv
    <2>2. ASSUME ParentSeen(u) # NoToken
          PROVE  /\ ParentSeen(u) \in Tokens
                 /\ StatusOf(ParentSeen(u))' \in {"spent", "dead"}
                 /\ FamilySeen(ParentSeen(u))' = FamilySeen(u)
                 /\ StatusOf(u)' = "dead" => StatusOf(ParentSeen(u))' = "dead"
      <3>1. /\ ParentSeen(u) \in Tokens /\ StatusOf(ParentSeen(u)) \in {"spent", "dead"}
            /\ FamilySeen(ParentSeen(u)) = FamilySeen(u)
            /\ StatusOf(u) = "dead" => StatusOf(ParentSeen(u)) = "dead"
        BY <2>1, <2>2 DEF Lineage
      <3>2. PICK p \in Tokens : p = ParentSeen(u)
        BY <3>1
      <3>3. /\ StatusOf(p)' = IF FamilySeen(u) \in F THEN "dead" ELSE StatusOf(p)
            /\ FamilySeen(p)' = FamilySeen(u)
        BY <1>1, <3>1, <3>2
      <3> QED BY <1>1, <3>1, <3>2, <3>3
    <2>3. PICK f : f = FamilySeen(u)
      OBVIOUS
    <2>4. FamilySeen(u)' = f /\ (StatusOf(u)' # "unborn" => f \in Tokens /\ StatusOf(f)' # "unborn")
      BY <1>1, <1>2, <2>1, <2>3 DEF Lineage
    <2> QED BY <1>1, <1>2, <2>1, <2>2, <2>4 DEF Lineage
  <1>4. \A u \in Tokens : ChildlessSeen(u)' <=> ChildlessSeen(u)
    BY <1>1 DEF ChildlessSeen
  <1>5. LastOfFamily'
    BY <1>1, <1>2, <1>4 DEF FamiliesInv, LastOfFamily
  <1> QED BY <1>3, <1>5 DEF FamiliesInv

LEMMA StutterKeepsFamilies ==
  ASSUME FamiliesInv, UNCHANGED Families!vars
  PROVE  FamiliesInv'
  <1>1. \A u \in Tokens : /\ StatusOf(u)' = StatusOf(u)
                          /\ FamilySeen(u)' = FamilySeen(u)
                          /\ ParentSeen(u)' = ParentSeen(u)
    BY FamiliesStutter DEF Unseen
  <1>2. ASSUME NEW u \in Tokens PROVE Lineage(u)'
    <2>1. Lineage(u)
      BY DEF FamiliesInv
    <2> QED BY <1>1, <2>1 DEF Lineage
  <1>3. LastOfFamily'
    BY <1>1 DEF FamiliesInv, LastOfFamily, ChildlessSeen
  <1> QED BY <1>2, <1>3 DEF FamiliesInv

LEMMA FamiliesInvariance == ImplementsFamilies => []FamiliesInv
  <1>1. FamiliesInv /\ [Families!Next]_Families!vars => FamiliesInv'
    BY MintKeepsFamilies, SpendKeepsFamilies, SucceedKeepsFamilies, KillKeepsFamilies,
       StutterKeepsFamilies DEF Families!Next
  <1> QED BY FamiliesStart, <1>1, PTL DEF ImplementsFamilies, Families!Spec

\* However the steps of a family follow each other, it never has two tokens that
\* can be exchanged: no reader of the promise needs to know the tables.
THEOREM FamiliesNeverFork == ImplementsFamilies => []Families!OneLive
  <1>1. FamiliesInv => Families!OneLive
    <2> SUFFICES ASSUME FamiliesInv, NEW t \in Tokens, NEW u \in Tokens,
                        StatusOf(t) = "live", StatusOf(u) = "live",
                        FamilySeen(t) = FamilySeen(u)
                 PROVE  t = u
      BY DEF Families!OneLive, FamilySeen
    <2>1. ChildlessSeen(t) /\ ChildlessSeen(u)
      BY NullsAreNoValues DEF FamiliesInv, Lineage, ChildlessSeen
    <2> QED BY <2>1 DEF FamiliesInv, LastOfFamily
  <1> QED BY <1>1, FamiliesInvariance, PTL

\* However the steps follow each other, no token is revoked beneath one that is
\* not, although a successor may be stored beneath one that is.
THEOREM FamiliesDieFromTheRoot == ImplementsFamilies => []Families!DeadUpToRoot
  <1>1. FamiliesInv => Families!DeadUpToRoot
    <2> SUFFICES ASSUME FamiliesInv, NEW t \in Tokens, StatusOf(t) = "dead",
                        ParentSeen(t) # NoToken
                 PROVE  ParentSeen(t) \in Tokens /\ StatusOf(ParentSeen(t)) = "dead"
      BY DEF Families!DeadUpToRoot, ParentSeen
    <2> QED BY DEF FamiliesInv, Lineage
  <1> QED BY <1>1, FamiliesInvariance, PTL

\* A successor that was stored after the revocation of its family.
SurvivesSeen(t) ==
    /\ StatusOf(t) \in {"live", "spent"}
    /\ ParentSeen(t) # NoToken
    /\ StatusOf(ParentSeen(t)) = "dead"

\* It is the only one of its family, because a revoked token without a child has
\* none but revoked relatives.
OneSurvivorSeen ==
    \A t, u \in Tokens :
        SurvivesSeen(t) /\ SurvivesSeen(u) /\ FamilySeen(t) = FamilySeen(u) => t = u

DeadEnd ==
    \A p, u \in Tokens :
        StatusOf(p) = "dead" /\ ChildlessSeen(p) /\ FamilySeen(u) = FamilySeen(p)
            => StatusOf(u) = "dead"

SurvivorInv == OneSurvivorSeen /\ DeadEnd

\* Nothing but a revocation changes who is revoked, and only a successor can be a
\* new survivor.
LEMMA SameDeadKeepSurvivors ==
  ASSUME FamiliesInv, SurvivorInv,
         \A u \in Tokens : /\ StatusOf(u)' = "dead" <=> StatusOf(u) = "dead"
                           /\ StatusOf(u) = "unborn" => StatusOf(u)' \in {"unborn", "live"}
                           /\ StatusOf(u) # "unborn" => StatusOf(u)' # "unborn"
                           /\ StatusOf(u) # "unborn" => FamilySeen(u)' = FamilySeen(u)
                           /\ ParentSeen(u)' = ParentSeen(u),
         \A u, p \in Tokens : /\ StatusOf(u) = "unborn" /\ StatusOf(p) # "unborn"
                              => FamilySeen(u)' # FamilySeen(p)
  PROVE  SurvivorInv'
  <1>1. ASSUME NEW t \in Tokens, SurvivesSeen(t)'
        PROVE  SurvivesSeen(t) /\ FamilySeen(t)' = FamilySeen(t)
    <2>1. PICK p : p = ParentSeen(t)
      OBVIOUS
    <2>2. ParentSeen(t)' = p /\ p # NoToken
      BY <1>1, <2>1 DEF SurvivesSeen
    <2>3. p \in Tokens /\ StatusOf(t) # "unborn"
      BY <2>1, <2>2 DEF FamiliesInv, Lineage
    <2>4. StatusOf(p)' = "dead" /\ StatusOf(t)' # "dead"
      BY <1>1, <2>2 DEF SurvivesSeen
    <2>5. StatusOf(p) = "dead" /\ StatusOf(t) # "dead"
      BY <2>3, <2>4
    <2>6. StatusOf(t) \in {"live", "spent"}
      BY <2>3, <2>5, StatusType DEF StatusesSeen
    <2> QED BY <2>1, <2>2, <2>3, <2>5, <2>6 DEF SurvivesSeen
  <1>2. OneSurvivorSeen'
    BY <1>1 DEF SurvivorInv, OneSurvivorSeen
  <1>3. ASSUME NEW p \in Tokens, NEW u \in Tokens, StatusOf(p)' = "dead",
               ChildlessSeen(p)', FamilySeen(u)' = FamilySeen(p)'
        PROVE  StatusOf(u)' = "dead"
    <2>1. StatusOf(p) = "dead" /\ FamilySeen(p)' = FamilySeen(p)
      BY <1>3
    <2>2. ChildlessSeen(p)
      BY <1>3 DEF ChildlessSeen
    <2>3. StatusOf(u) # "unborn"
      BY <1>3, <2>1
    <2>4. FamilySeen(u) = FamilySeen(p)
      BY <1>3, <2>1, <2>3
    <2>5. StatusOf(u) = "dead"
      BY <2>1, <2>2, <2>4 DEF SurvivorInv, DeadEnd
    <2> QED BY <2>5
  <1>4. DeadEnd'
    BY <1>3 DEF DeadEnd
  <1> QED BY <1>2, <1>4 DEF SurvivorInv

LEMMA MintKeepsSurvivors ==
  ASSUME FamiliesInv, SurvivorInv, NEW t \in Tokens, Families!Mint(t)
  PROVE  SurvivorInv'
  <1>1. \A u \in Tokens : /\ StatusOf(u)' = "dead" <=> StatusOf(u) = "dead"
                          /\ StatusOf(u) = "unborn" => StatusOf(u)' \in {"unborn", "live"}
                          /\ StatusOf(u) # "unborn" => StatusOf(u)' # "unborn"
                          /\ StatusOf(u) # "unborn" => FamilySeen(u)' = FamilySeen(u)
                          /\ ParentSeen(u)' = ParentSeen(u)
    BY MintSeen
  <1>2. ASSUME NEW u \in Tokens, NEW p \in Tokens, StatusOf(u) = "unborn", StatusOf(p) # "unborn"
        PROVE  FamilySeen(u)' # FamilySeen(p)
    <2>1. FamilySeen(p) \in Tokens /\ FamilySeen(p) # t
      BY <1>2, MintSeen DEF FamiliesInv, Lineage
    <2>2. FamilySeen(u) = NoToken
      BY <1>2 DEF FamiliesInv, Lineage
    <2>3. FamilySeen(u)' \in {t, NoToken}
      BY <2>2, MintSeen
    <2> QED BY <2>1, <2>3, NullsAreNoValues
  <1> QED BY <1>1, <1>2, SameDeadKeepSurvivors

LEMMA SpendKeepsSurvivors ==
  ASSUME FamiliesInv, SurvivorInv, NEW t \in Tokens, Families!Spend(t)
  PROVE  SurvivorInv'
  <1>1. \A u \in Tokens : /\ StatusOf(u)' = "dead" <=> StatusOf(u) = "dead"
                          /\ StatusOf(u) = "unborn" => StatusOf(u)' \in {"unborn", "live"}
                          /\ StatusOf(u) # "unborn" => StatusOf(u)' # "unborn"
                          /\ FamilySeen(u)' = FamilySeen(u)
                          /\ ParentSeen(u)' = ParentSeen(u)
    BY SpendSeen
  <1>2. \A u, p \in Tokens : StatusOf(u) = "unborn" /\ StatusOf(p) # "unborn"
                                => FamilySeen(u) # FamilySeen(p)
    BY NullsAreNoValues DEF FamiliesInv, Lineage
  <1> QED BY <1>1, <1>2, SameDeadKeepSurvivors

LEMMA StutterKeepsSurvivors ==
  ASSUME FamiliesInv, SurvivorInv, UNCHANGED Families!vars
  PROVE  SurvivorInv'
  <1>1. \A u \in Tokens : /\ StatusOf(u)' = StatusOf(u)
                          /\ FamilySeen(u)' = FamilySeen(u)
                          /\ ParentSeen(u)' = ParentSeen(u)
    BY FamiliesStutter DEF Unseen
  <1>2. \A u, p \in Tokens : StatusOf(u) = "unborn" /\ StatusOf(p) # "unborn"
                                => FamilySeen(u) # FamilySeen(p)
    BY NullsAreNoValues DEF FamiliesInv, Lineage
  <1> QED BY <1>1, <1>2, SameDeadKeepSurvivors

\* After a revocation all of a family is revoked, so it has no survivor.
LEMMA KillKeepsSurvivors ==
  ASSUME FamiliesInv, SurvivorInv, NEW F \in SUBSET Tokens, Families!Kill(F)
  PROVE  SurvivorInv'
  <1>1. \A u \in Tokens : /\ StatusOf(u)' = IF FamilySeen(u) \in F THEN "dead" ELSE StatusOf(u)
                          /\ FamilySeen(u)' = FamilySeen(u)
                          /\ ParentSeen(u)' = ParentSeen(u)
    BY KillSeen
  <1>2. ASSUME NEW t \in Tokens, SurvivesSeen(t)' PROVE SurvivesSeen(t)
    <2>1. PICK p : p = ParentSeen(t)
      OBVIOUS
    <2>2. ParentSeen(t)' = p /\ p # NoToken /\ StatusOf(p)' = "dead"
      BY <1>1, <1>2, <2>1 DEF SurvivesSeen
    <2>3. p \in Tokens /\ FamilySeen(p) = FamilySeen(t)
      BY <2>1, <2>2 DEF FamiliesInv, Lineage
    <2>4. FamilySeen(t) \notin F /\ StatusOf(t) \in {"live", "spent"}
      BY <1>1, <1>2 DEF SurvivesSeen
    <2>5. StatusOf(p) = "dead"
      BY <1>1, <2>2, <2>3, <2>4
    <2> QED BY <2>1, <2>2, <2>4, <2>5 DEF SurvivesSeen
  <1>3. OneSurvivorSeen'
    BY <1>1, <1>2 DEF SurvivorInv, OneSurvivorSeen
  <1>4. ASSUME NEW p \in Tokens, NEW u \in Tokens, StatusOf(p)' = "dead",
               ChildlessSeen(p)', FamilySeen(u)' = FamilySeen(p)'
        PROVE  StatusOf(u)' = "dead"
    <2>1. FamilySeen(u) = FamilySeen(p) /\ ChildlessSeen(p)
      BY <1>1, <1>4 DEF ChildlessSeen
    <2>2. CASE FamilySeen(p) \in F
      BY <1>1, <2>1, <2>2
    <2>3. CASE FamilySeen(p) \notin F
      <3>1. StatusOf(p) = "dead"
        BY <1>1, <1>4, <2>3
      <3>2. StatusOf(u) = "dead"
        BY <2>1, <3>1 DEF SurvivorInv, DeadEnd
      <3> QED BY <1>1, <3>2
    <2> QED BY <2>2, <2>3
  <1>5. DeadEnd'
    BY <1>4 DEF DeadEnd
  <1> QED BY <1>3, <1>5 DEF SurvivorInv

LEMMA SucceedKeepsSurvivors ==
  ASSUME FamiliesInv, SurvivorInv, NEW p \in Tokens, NEW c \in Tokens, Families!Succeed(p, c)
  PROVE  SurvivorInv'
  <1>1. /\ StatusOf(p) \in {"spent", "dead"} /\ StatusOf(c) = "unborn" /\ ChildlessSeen(p)
        /\ StatusOf(c)' = "live" /\ FamilySeen(c)' = FamilySeen(p) /\ ParentSeen(c)' = p
    BY SucceedSeen
  <1>2. \A u \in Tokens : u # c => /\ StatusOf(u)' = StatusOf(u)
                                   /\ FamilySeen(u)' = FamilySeen(u)
                                   /\ ParentSeen(u)' = ParentSeen(u)
    BY SucceedSeen
  <1>3. p # c
    BY <1>1
  <1>4. ASSUME NEW t \in Tokens, t # c, SurvivesSeen(t)'
        PROVE  SurvivesSeen(t)
    <2>1. PICK q : q = ParentSeen(t)
      OBVIOUS
    <2>2. ParentSeen(t)' = q /\ q # NoToken /\ StatusOf(q)' = "dead"
      BY <1>2, <1>4, <2>1 DEF SurvivesSeen
    <2>3. q \in Tokens /\ StatusOf(q) # "unborn"
      BY <2>1, <2>2 DEF FamiliesInv, Lineage
    <2>4. StatusOf(q) = "dead"
      BY <1>1, <1>2, <2>2, <2>3
    <2>5. StatusOf(t) \in {"live", "spent"}
      BY <1>2, <1>4 DEF SurvivesSeen
    <2> QED BY <2>1, <2>2, <2>4, <2>5 DEF SurvivesSeen
  <1>5. \* beneath a revoked token the successor is the first that is not
        ASSUME NEW t \in Tokens, t # c, SurvivesSeen(t)', SurvivesSeen(c)'
        PROVE  FamilySeen(t)' # FamilySeen(c)'
    <2>1. StatusOf(p)' = "dead"
      BY <1>1, <1>5 DEF SurvivesSeen
    <2>2. StatusOf(p) = "dead" /\ StatusOf(t) # "dead"
      BY <1>2, <1>3, <1>4, <1>5, <2>1 DEF SurvivesSeen
    <2>3. FamilySeen(t) # FamilySeen(p)
      BY <1>1, <2>2 DEF SurvivorInv, DeadEnd
    <2> QED BY <1>1, <1>2, <1>5, <2>3
  <1>6. OneSurvivorSeen'
    <2> SUFFICES ASSUME NEW t \in Tokens, NEW u \in Tokens, SurvivesSeen(t)', SurvivesSeen(u)',
                        FamilySeen(t)' = FamilySeen(u)'
                 PROVE  t = u
      BY DEF OneSurvivorSeen
    <2>1. CASE t = c \/ u = c
      BY <1>5, <2>1
    <2>2. CASE t # c /\ u # c
      BY <1>2, <1>4, <2>2 DEF SurvivorInv, OneSurvivorSeen
    <2> QED BY <2>1, <2>2
  <1>7. ASSUME NEW q \in Tokens, NEW u \in Tokens, StatusOf(q)' = "dead",
               ChildlessSeen(q)', FamilySeen(u)' = FamilySeen(q)'
        PROVE  StatusOf(u)' = "dead"
    <2>1. q # c /\ q # p
      BY <1>1, <1>7 DEF ChildlessSeen
    <2>2. StatusOf(q) = "dead" /\ FamilySeen(q)' = FamilySeen(q)
      BY <1>2, <1>7, <2>1
    <2>3. ChildlessSeen(q)
      <3>1. ParentSeen(c) = NoToken
        BY <1>1 DEF FamiliesInv, Lineage
      <3> QED BY <1>2, <1>7, <3>1, NullsAreNoValues DEF ChildlessSeen
    <2>4. FamilySeen(q) # FamilySeen(p)
      BY <1>1, <2>1, <2>2, <2>3 DEF FamiliesInv, LastOfFamily
    <2>5. u # c
      BY <1>1, <1>7, <2>2, <2>4
    <2>6. StatusOf(u) = "dead"
      BY <1>2, <1>7, <2>2, <2>3, <2>5 DEF SurvivorInv, DeadEnd
    <2> QED BY <1>2, <2>5, <2>6
  <1>8. DeadEnd'
    BY <1>7 DEF DeadEnd
  <1> QED BY <1>6, <1>8 DEF SurvivorInv

LEMMA SurvivorInvariance == ImplementsFamilies => []SurvivorInv
  <1>1. ASSUME Families!Init PROVE SurvivorInv
    <2>1. \A t \in Tokens : StatusOf(t) = "unborn"
      BY <1>1 DEF Families!Init
    <2> QED BY <2>1 DEF SurvivorInv, OneSurvivorSeen, DeadEnd, SurvivesSeen
  <1>2. FamiliesInv /\ SurvivorInv /\ [Families!Next]_Families!vars => SurvivorInv'
    BY MintKeepsSurvivors, SpendKeepsSurvivors, SucceedKeepsSurvivors, KillKeepsSurvivors,
       StutterKeepsSurvivors DEF Families!Next
  <1> QED BY <1>1, <1>2, FamiliesInvariance, PTL DEF ImplementsFamilies, Families!Spec

\* A revocation can miss the successor of a rotation in flight, but not two of one
\* family: whatever is not revoked beneath a revoked token hangs on one successor.
THEOREM RevocationMissesOneAtMost == ImplementsFamilies => []Families!OneSurvivor
  <1>1. FamiliesInv /\ SurvivorInv => Families!OneSurvivor
    <2> SUFFICES ASSUME FamiliesInv, SurvivorInv, NEW t \in Tokens, NEW u \in Tokens,
                        Families!Survives(t), Families!Survives(u),
                        FamilySeen(t) = FamilySeen(u)
                 PROVE  t = u
      BY DEF Families!OneSurvivor, FamilySeen
    <2>1. ASSUME NEW v \in Tokens, Families!Survives(v) PROVE SurvivesSeen(v)
      <3>1. StatusOf(v) \in {"live", "spent"} /\ ParentSeen(v) # NoToken
        BY <2>1 DEF Families!Survives, ParentSeen
      <3>2. ParentSeen(v) \in Tokens
        BY <3>1 DEF FamiliesInv, Lineage
      <3>3. StatusOf(ParentSeen(v)) = "dead"
        BY <2>1, <3>2 DEF Families!Survives, ParentSeen
      <3> QED BY <3>1, <3>3 DEF SurvivesSeen
    <2> QED BY <2>1 DEF SurvivorInv, OneSurvivorSeen
  <1> QED BY <1>1, FamiliesInvariance, SurvivorInvariance, PTL

LEMMA StepMovesForward ==
  ASSUME [Families!Next]_Families!vars
  PROVE  Families!OnlyForward
  <1> DEFINE Forward(u) ==
        /\ StatusOf(u) \in {"spent", "dead"} => StatusOf(u)' \in {StatusOf(u), "dead"}
        /\ StatusOf(u) = "live" => StatusOf(u)' \in {"live", "spent", "dead"}
        /\ StatusOf(u) # "unborn" => /\ FamilySeen(u)' = FamilySeen(u)
                                     /\ ParentSeen(u)' = ParentSeen(u)
  <1>1. ASSUME NEW t \in Tokens, Families!Mint(t) PROVE \A u \in Tokens : Forward(u)
    BY <1>1, MintSeen
  <1>2. ASSUME NEW t \in Tokens, Families!Spend(t) PROVE \A u \in Tokens : Forward(u)
    BY <1>2, SpendSeen
  <1>3. ASSUME NEW p \in Tokens, NEW c \in Tokens, Families!Succeed(p, c)
        PROVE  \A u \in Tokens : Forward(u)
    BY <1>3, SucceedSeen
  <1>4. ASSUME NEW F \in SUBSET Tokens, Families!Kill(F) PROVE \A u \in Tokens : Forward(u)
    BY <1>4, KillSeen
  <1>5. ASSUME UNCHANGED Families!vars PROVE \A u \in Tokens : Forward(u)
    BY <1>5, FamiliesStutter DEF Unseen
  <1>6. \A u \in Tokens : Forward(u)
    BY <1>1, <1>2, <1>3, <1>4, <1>5 DEF Families!Next
  <1> QED BY <1>6 DEF Families!OnlyForward, FamilySeen, ParentSeen

LEMMA StepKillsWholeFamilies ==
  ASSUME [Families!Next]_Families!vars
  PROVE  Families!WholeFamilies
  <1> SUFFICES ASSUME NEW t \in Tokens, NEW u \in Tokens,
                      StatusOf(t) # "dead", StatusOf(t)' = "dead",
                      FamilySeen(u) = FamilySeen(t)
               PROVE  StatusOf(u)' = "dead"
    BY DEF Families!WholeFamilies, FamilySeen
  <1>1. \A v \in Tokens : ~Families!Mint(v)
    BY MintSeen
  <1>2. \A v \in Tokens : ~Families!Spend(v)
    BY SpendSeen
  <1>3. \A p, c \in Tokens : ~Families!Succeed(p, c)
    BY SucceedSeen
  <1>4. ~UNCHANGED Families!vars
    BY FamiliesStutter DEF Unseen
  <1>5. PICK F \in SUBSET Tokens : Families!Kill(F)
    BY <1>1, <1>2, <1>3, <1>4 DEF Families!Next
  <1> QED BY <1>5, KillSeen

\* No interleaving of requests brings a token back: one that was exchanged or
\* revoked is never exchangeable again, and none changes its relatives.
THEOREM NoTokenComesBack == Spec => [][Families!OnlyForward]_Families!vars
  BY StepMovesForward, StoreImplementsFamilies, PTL DEF ImplementsFamilies, Families!Spec

\* A statement that revokes a token, by family or by session id, leaves none of
\* its family unrevoked at that moment, whatever other requests have half done.
THEOREM RevocationTakesTheFamily == Spec => [][Families!WholeFamilies]_Families!vars
  BY StepKillsWholeFamilies, StoreImplementsFamilies, PTL DEF ImplementsFamilies, Families!Spec
=============================================================================
