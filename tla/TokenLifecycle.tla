---------------------------- MODULE TokenLifecycle ----------------------------
(***************************************************************************)
(* Refresh-token families and the login sessions they hang from.           *)
(*                                                                         *)
(* The server is one Node process, so code runs alone between two awaits   *)
(* and every await is a point where any other request may run.  One action *)
(* below is the code from one database statement up to the next one: a     *)
(* request is a small program whose position is the field pc.              *)
(*                                                                         *)
(*   POST /token, code or password grant   validate? -> create             *)
(*   POST /token, refresh_token grant      consume -> confirm -> insert    *)
(*                                           -> check                      *)
(*   the same with a consumed token        replay -> check, or             *)
(*                                           revokeFamily                  *)
(*   POST /revoke                          revokeFamily                    *)
(*   POST /logout                          invalidate -> revokeSid         *)
(*                                           -> lookup -> revokeFamily     *)
(*                                                                         *)
(* An early return that throws before anything was written changes no      *)
(* state, so it is a stuttering step and has no action of its own; after   *)
(* the first write the request either goes on or is dropped (Abort).       *)
(***************************************************************************)
EXTENDS Naturals

CONSTANTS
    Tokens,           \* the random opaque tokens; a row is named by its token
    Sessions,         \* the random session ids
    Clients,          \* OAuth clients
    TenantOf,         \* the tenant that owns each client
    Scopes,           \* scope values
    Requests,         \* slots for requests in flight
    SlidingExpiry,    \* REFRESH_TOKEN_SLIDING_EXPIRY
    AbsoluteExpiry,   \* REFRESH_TOKEN_ABSOLUTE_EXPIRY
    SessionDuration,  \* LOGIN_SESSION_DURATION_SECONDS
    GraceWindow,      \* REFRESH_TOKEN_GRACE_WINDOW_SECONDS, 0 by default
    MaxTime,          \* bound of the model: the clock stops here
    NoToken,          \* parent_id of the first token of a family
    NoSession,        \* no session concerned
    NoClient,         \* no client concerned
    NotYet            \* used_at IS NULL

ASSUME DurationsAreNat ==
    /\ SlidingExpiry \in Nat
    /\ AbsoluteExpiry \in Nat
    /\ SessionDuration \in Nat
    /\ GraceWindow \in Nat
    /\ MaxTime \in Nat

ASSUME NullsAreNoValues ==
    /\ NoToken \notin Tokens
    /\ NoSession \notin Sessions
    /\ NoClient \notin Clients
    /\ NotYet \notin Nat

VARIABLES
    now,        \* the clock
    rows,       \* table refresh_tokens, a function on the stored tokens
    sessions,   \* table login_sessions, a function on the stored sids
    requests    \* the local variables of each request

vars == <<now, rows, sessions, requests>>

Row == [family : Tokens,
        parent : Tokens \cup {NoToken},
        client : Clients,
        scope : SUBSET Scopes,
        sid : Sessions,
        expiresAt : Nat,
        absoluteExpiresAt : Nat,
        revoked : BOOLEAN,
        usedAt : Nat \cup {NotYet}]

Session == [expiresAt : Nat, invalidated : BOOLEAN]

Steps == {"idle", "validate", "create",
          "consume", "confirm", "insert", "replay", "check",
          "invalidate", "revokeSid", "lookup", "revokeFamily", "done"}

\* presented: the refresh token in the request; reply: the one in the response;
\* record: the row the response describes; at: the time the request read first.
\* sessionDead and familyDead are history: whether the session, or the family,
\* of the presented token was already invalidated, or revoked, when the request
\* looked the token (for the code grant, the session) up; lostUpdate is the
\* history of a conditional UPDATE that changed nothing.
Request == [pc : Steps,
            presented : Tokens \cup {NoToken},
            client : Clients \cup {NoClient},
            scope : SUBSET Scopes,
            sid : Sessions \cup {NoSession},
            at : Nat,
            record : Tokens \cup {NoToken},
            reply : Tokens \cup {NoToken},
            sessionDead : BOOLEAN,
            familyDead : BOOLEAN,
            lostUpdate : BOOLEAN]

TypeOK ==
    /\ now \in Nat
    /\ DOMAIN rows \subseteq Tokens
    /\ rows \in [DOMAIN rows -> Row]
    /\ DOMAIN sessions \subseteq Sessions
    /\ sessions \in [DOMAIN sessions -> Session]
    /\ requests \in [Requests -> Request]

-----------------------------------------------------------------------------
Idle == [pc |-> "idle", presented |-> NoToken, client |-> NoClient,
         scope |-> {}, sid |-> NoSession, at |-> 0, record |-> NoToken,
         reply |-> NoToken, sessionDead |-> FALSE, familyDead |-> FALSE,
         lostUpdate |-> FALSE]

Init ==
    /\ now = 0
    /\ rows = [t \in {} |-> NoToken]
    /\ sessions = [s \in {} |-> NoSession]
    /\ requests = [r \in Requests |-> Idle]

Stored == DOMAIN rows

Earlier(a, b) == IF a < b THEN a ELSE b

ClampExpiry(absolute) == Earlier(now + SlidingExpiry, absolute)

\* Faulty forms of some of the operators that follow, which show that the
\* properties can fail: no unique index, a session check that forgets
\* invalidation or an incomplete session row, a revocation of one row only, no
\* scope check, a rotation that renews the absolute deadline.
HasChildWithoutIndex(t) == FALSE

SessionUnexpired(s) == s \in DOMAIN sessions /\ sessions[s].expiresAt >= now

SessionWithoutMark == [expiresAt |-> now + SessionDuration]

TokenAlone(t) == {t}

AnyScope(requested, granted) == requested \subseteq Scopes

ChildRowRenewed(t, sc) ==
    [family |-> rows[t].family, parent |-> t, client |-> rows[t].client,
     scope |-> sc, sid |-> rows[t].sid,
     expiresAt |-> ClampExpiry(now + AbsoluteExpiry),
     absoluteExpiresAt |-> now + AbsoluteExpiry,
     revoked |-> FALSE, usedAt |-> NotYet]

\* findOne({where: {parentId: t}}); parent_id is UNIQUE in the database.
HasChild(t) == \E c \in Stored : rows[c].parent = t

SessionValid(s) ==
    /\ s \in DOMAIN sessions
    /\ ~sessions[s].invalidated
    /\ sessions[s].expiresAt >= now

NewSession == [expiresAt |-> now + SessionDuration, invalidated |-> FALSE]

FamilyOf(t) == {u \in Stored : rows[u].family = rows[t].family}

TokensOf(s) == {u \in Stored : rows[u].sid = s}

ValidateScopeSubset(requested, granted) == requested \subseteq granted

\* The rows that create and consumeAndRotate save.
RootRow(t, c, sc, s) ==
    [family |-> t, parent |-> NoToken, client |-> c, scope |-> sc, sid |-> s,
     expiresAt |-> ClampExpiry(now + AbsoluteExpiry),
     absoluteExpiresAt |-> now + AbsoluteExpiry,
     revoked |-> FALSE, usedAt |-> NotYet]

ChildRow(t, sc) ==
    [family |-> rows[t].family, parent |-> t, client |-> rows[t].client,
     scope |-> sc, sid |-> rows[t].sid,
     expiresAt |-> ClampExpiry(rows[t].absoluteExpiresAt),
     absoluteExpiresAt |-> rows[t].absoluteExpiresAt,
     revoked |-> FALSE, usedAt |-> NotYet]

\* repo.save of a new entity.
Store(t, row) == rows' = [u \in Stored \cup {t} |-> IF u = t THEN row ELSE rows[u]]

OpenSession(s) ==
    sessions' = [u \in DOMAIN sessions \cup {s} |-> IF u = s THEN NewSession ELSE sessions[u]]

\* UPDATE refresh_tokens SET revoked = true WHERE ...: one statement, the rows
\* that are in the table when it runs.
RevokeRows(S) ==
    rows' = [t \in Stored |-> IF t \in S THEN [rows[t] EXCEPT !.revoked = TRUE] ELSE rows[t]]

At(r, step) == requests[r].pc = step

Goto(r, step) == requests' = [requests EXCEPT ![r].pc = step]

\* The request is over and nobody looks at it again.
End(r) == requests' = [requests EXCEPT ![r] = Idle]

-----------------------------------------------------------------------------
(* Logging in, and the grants that open a family.                          *)

\* POST /login with valid credentials.
Login(s) ==
    /\ s \notin DOMAIN sessions
    /\ OpenSession(s)
    /\ UNCHANGED <<now, rows, requests>>

\* The password grant, and the token exchange: credentials are valid, and
\* issueToken opens a session of its own before it creates the refresh token.
PasswordGrant(r, s, c, sc) ==
    /\ At(r, "idle")
    /\ s \notin DOMAIN sessions
    /\ OpenSession(s)
    /\ requests' = [requests EXCEPT ![r] =
            [Idle EXCEPT !.pc = "create", !.client = c, !.scope = sc, !.sid = s, !.at = now]]
    /\ UNCHANGED <<now, rows>>

\* The code grant: the code carries the sid of the session that authorized it.
CodeGrant(r, s, c, sc) ==
    /\ At(r, "idle")
    /\ s \in DOMAIN sessions
    /\ requests' = [requests EXCEPT ![r] =
            [Idle EXCEPT !.pc = "validate", !.client = c, !.scope = sc, !.sid = s, !.at = now,
                         !.sessionDead = sessions[s].invalidated]]
    /\ UNCHANGED <<now, rows, sessions>>

\* issueToken's call of validateSession.
ValidateForIssue(r) ==
    /\ At(r, "validate")
    /\ IF SessionValid(requests[r].sid) THEN Goto(r, "create") ELSE End(r)
    /\ UNCHANGED <<now, rows, sessions>>

\* RefreshTokenService.create: a token that is its family's first.
CreateToken(r, t) ==
    /\ At(r, "create")
    /\ t \in Tokens \ Stored
    /\ Store(t, RootRow(t, requests[r].client, requests[r].scope, requests[r].sid))
    /\ requests' = [requests EXCEPT ![r].pc = "done", ![r].record = t, ![r].reply = t]
    /\ UNCHANGED <<now, sessions>>

\* The client or the scopes are not eligible for a refresh token.
SkipToken(r) ==
    /\ At(r, "create")
    /\ Goto(r, "done")
    /\ UNCHANGED <<now, rows, sessions>>

-----------------------------------------------------------------------------
(* The refresh_token grant.                                                *)

\* The checks of consumeAndRotate on the row it has just read.
Presentable(t, c) ==
    /\ t \in Stored
    /\ ~rows[t].revoked
    /\ now <= rows[t].expiresAt
    /\ now <= rows[t].absoluteExpiresAt
    /\ rows[t].client = c

\* findOne by hash.  A request without a scope asks for the scope of the row.
Present(r, t, c, sc) ==
    /\ At(r, "idle")
    /\ Presentable(t, c)
    /\ requests' = [requests EXCEPT ![r] =
            [Idle EXCEPT !.pc = IF rows[t].usedAt = NotYet THEN "consume" ELSE "replay",
                         !.presented = t, !.client = c, !.scope = sc,
                         !.sid = rows[t].sid, !.at = now,
                         !.sessionDead = sessions[rows[t].sid].invalidated,
                         !.familyDead = rows[rows[t].family].revoked]]
    /\ UNCHANGED <<now, rows, sessions>>

\* UPDATE ... SET used_at = now WHERE id = :id AND used_at IS NULL, with the
\* time the request read when it looked the token up.
Consume(r) ==
    LET t == requests[r].presented IN
    /\ At(r, "consume")
    /\ IF rows[t].usedAt = NotYet
         THEN /\ rows' = [rows EXCEPT ![t].usedAt = requests[r].at]
              /\ Goto(r, "confirm")
         ELSE /\ requests' = [requests EXCEPT ![r].pc = "confirm", ![r].lostUpdate = TRUE]
              /\ UNCHANGED rows
    /\ UNCHANGED <<now, sessions>>

\* The re-fetch after the UPDATE, then validateScopeSubset, which throws.
Confirm(r) ==
    LET t == requests[r].presented IN
    /\ At(r, "confirm")
    /\ IF rows[t].usedAt = NotYet
         THEN Goto(r, "revokeFamily")
         ELSE IF ValidateScopeSubset(requests[r].scope, rows[t].scope)
                THEN Goto(r, "insert")
                ELSE End(r)
    /\ UNCHANGED <<now, rows, sessions>>

\* save of the successor; a second child violates UNIQUE(parent_id) and throws.
InsertChild(r, c) ==
    LET t == requests[r].presented IN
    /\ At(r, "insert")
    /\ c \in Tokens \ Stored
    /\ IF HasChild(t)
         THEN /\ End(r)
              /\ UNCHANGED rows
         ELSE /\ Store(c, ChildRow(t, requests[r].scope))
              /\ requests' = [requests EXCEPT ![r].pc = "check", ![r].record = c, ![r].reply = c]
    /\ UNCHANGED <<now, sessions>>

\* handleReplay: within the grace window, the successor's metadata with the
\* caller's own token; otherwise the family is to be revoked.
Replay(r) ==
    LET t == requests[r].presented IN
    /\ At(r, "replay")
    /\ IF GraceWindow > 0 /\ now <= rows[t].usedAt + GraceWindow /\ HasChild(t)
         THEN \E c \in Stored :
                 /\ rows[c].parent = t
                 /\ requests' = [requests EXCEPT ![r].pc = "check", ![r].record = c, ![r].reply = t]
         ELSE Goto(r, "revokeFamily")
    /\ UNCHANGED <<now, rows, sessions>>

\* The rest of refreshToken: user and tenant are loaded, then validateSession.
CheckSession(r) ==
    /\ At(r, "check")
    /\ IF SessionValid(rows[requests[r].record].sid) THEN Goto(r, "done") ELSE End(r)
    /\ UNCHANGED <<now, rows, sessions>>

-----------------------------------------------------------------------------
(* Revocation and logout.                                                  *)

\* The checks of TokenRevocationService.revoke on the row it has just read.
Revocable(t, tenant) ==
    /\ t \in Stored
    /\ TenantOf[rows[t].client] = tenant
    /\ ~rows[t].revoked

Revoke(r, t, tenant) ==
    /\ At(r, "idle")
    /\ Revocable(t, tenant)
    /\ requests' = [requests EXCEPT ![r] =
            [Idle EXCEPT !.pc = "revokeFamily", !.presented = t, !.at = now]]
    /\ UNCHANGED <<now, rows, sessions>>

RevokeFamily(r) ==
    /\ At(r, "revokeFamily")
    /\ RevokeRows(FamilyOf(requests[r].presented))
    /\ End(r)
    /\ UNCHANGED <<now, sessions>>

\* POST /logout with a sid; c is the client of the bearer token, if there was
\* one, and t the refresh token in the body.  Without a sid it is a Revoke.
Logout(r, s, t, c) ==
    /\ At(r, "idle")
    /\ s \in DOMAIN sessions
    /\ requests' = [requests EXCEPT ![r] =
            [Idle EXCEPT !.pc = "invalidate", !.presented = t, !.client = c, !.sid = s, !.at = now]]
    /\ UNCHANGED <<now, rows, sessions>>

InvalidateSession(r) ==
    /\ At(r, "invalidate")
    /\ sessions' = [sessions EXCEPT ![requests[r].sid].invalidated = TRUE]
    /\ Goto(r, "revokeSid")
    /\ UNCHANGED <<now, rows>>

RevokeBySid(r) ==
    /\ At(r, "revokeSid")
    /\ RevokeRows(TokensOf(requests[r].sid))
    /\ IF requests[r].presented # NoToken /\ requests[r].client # NoClient
         THEN Goto(r, "lookup")
         ELSE End(r)
    /\ UNCHANGED <<now, sessions>>

LookupForRevoke(r) ==
    /\ At(r, "lookup")
    /\ IF Revocable(requests[r].presented, TenantOf[requests[r].client])
         THEN Goto(r, "revokeFamily")
         ELSE End(r)
    /\ UNCHANGED <<now, rows, sessions>>

-----------------------------------------------------------------------------
\* The response arrives, or is lost: the client may present any token again.
Deliver(r) ==
    /\ At(r, "done")
    /\ End(r)
    /\ UNCHANGED <<now, rows, sessions>>

\* A request stops between two awaits: the process restarts, a statement fails,
\* or a check that reads other tables rejects the user (locked, no longer a
\* member, not verified).  What it wrote stays: there is no transaction.
Abort(r) ==
    /\ requests[r].pc \notin {"idle", "done"}
    /\ End(r)
    /\ UNCHANGED <<now, rows, sessions>>

Tick ==
    /\ now < MaxTime
    /\ now' = now + 1
    /\ UNCHANGED <<rows, sessions, requests>>

Grant(r) ==
    \/ \E s \in Sessions, c \in Clients, sc \in SUBSET Scopes :
          PasswordGrant(r, s, c, sc) \/ CodeGrant(r, s, c, sc)
    \/ ValidateForIssue(r)
    \/ \E t \in Tokens : CreateToken(r, t)
    \/ SkipToken(r)

Refresh(r) ==
    \/ \E t \in Tokens, c \in Clients, sc \in SUBSET Scopes : Present(r, t, c, sc)
    \/ Consume(r)
    \/ Confirm(r)
    \/ \E c \in Tokens : InsertChild(r, c)
    \/ Replay(r)
    \/ CheckSession(r)

Retire(r) ==
    \/ \E t \in Tokens, c \in Clients : Revoke(r, t, TenantOf[c])
    \/ \E s \in Sessions, t \in Tokens \cup {NoToken}, c \in Clients \cup {NoClient} :
          Logout(r, s, t, c)
    \/ InvalidateSession(r)
    \/ RevokeBySid(r)
    \/ LookupForRevoke(r)
    \/ RevokeFamily(r)

Next ==
    \/ Tick
    \/ \E s \in Sessions : Login(s)
    \/ \E r \in Requests : Grant(r) \/ Refresh(r) \/ Retire(r) \/ Deliver(r) \/ Abort(r)

Spec == Init /\ [][Next]_vars

-----------------------------------------------------------------------------
(* Properties.                                                             *)

Live(t) == ~rows[t].revoked /\ rows[t].usedAt = NotYet

RefreshAnswered(r) == At(r, "done") /\ requests[r].presented # NoToken

\* A family never holds two tokens that can still be exchanged, however many
\* requests race to consume the same one: what keeps it so is the unique index
\* on parent_id, since the re-fetch in consumeAndRotate lets a loser go on.
OneLiveToken ==
    \A t, u \in Stored : rows[t].family = rows[u].family /\ Live(t) /\ Live(u) => t = u

\* Once logout has invalidated a session, no grant that reads its token or its
\* session after that is ever answered, not even with a token that a rotation in
\* flight stored after revokeBySid had swept the table.
NoAnswerAfterLogout ==
    \A r \in Requests : At(r, "done") => ~requests[r].sessionDead

\* However often a family is rotated, no refresh is answered that was presented
\* after the deadline its first token got at login.
HardLifetime ==
    \A r \in Requests : RefreshAnswered(r) =>
        requests[r].at <= rows[rows[requests[r].presented].family].absoluteExpiresAt

\* Through any chain of rotations, and in the grace window, a response stays in
\* the grant the user made: the client and session of the family's first token
\* and no scope that token had not.
StaysInGrant ==
    \A r \in Requests : RefreshAnswered(r) =>
        LET root == rows[rows[requests[r].presented].family]
            answer == rows[requests[r].record]
        IN /\ answer.client = root.client /\ requests[r].client = root.client
           /\ answer.sid = root.sid
           /\ answer.scope \subseteq root.scope

\* A revocation leaves no ancestor behind: when a token is revoked, so are all
\* those it was rotated from, whichever of them was named in the request.
RevokedUpToRoot ==
    \A t \in Stored : rows[t].revoked /\ rows[t].parent # NoToken => rows[rows[t].parent].revoked

-----------------------------------------------------------------------------
(* The store seen as families of tokens.                                   *)

StatusOf(t) ==
    IF t \notin Stored THEN "unborn"
    ELSE IF rows[t].revoked THEN "dead"
    ELSE IF rows[t].usedAt # NotYet THEN "spent"
    ELSE "live"

Families == INSTANCE TokenFamilies WITH
    status <- [t \in Tokens |-> StatusOf(t)],
    family <- [t \in Tokens |-> IF t \in Stored THEN rows[t].family ELSE NoToken],
    parent <- [t \in Tokens |-> IF t \in Stored THEN rows[t].parent ELSE NoToken]

\* Whatever requests do between each other's statements, the table only moves
\* the way TokenFamilies allows: forward, and by whole families when revoking.
ImplementsFamilies == Families!Spec

-----------------------------------------------------------------------------
(* What the documentation says and the code does not do: these do not hold. *)

\* docs/token-revocation.md: once revoked, no token of the family can be used to
\* obtain a new access token.
RevocationIsFinal ==
    \A r \in Requests : RefreshAnswered(r) => ~requests[r].familyDead

\* consumeAndRotate's comment: a caller whose UPDATE did not land, because another
\* one consumed the token first, is treated as a replay and gets no successor.
LoserGetsNoSuccessor ==
    \A r \in Requests : requests[r].lostUpdate => requests[r].record = NoToken

\* docs/refresh-token-rotation.md: a retry in the grace window gets the same child
\* token as the first caller.
RetryGetsTheChild ==
    \A r \in Requests : RefreshAnswered(r) => requests[r].reply = requests[r].record
=============================================================================
