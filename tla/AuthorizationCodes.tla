--------------------------- MODULE AuthorizationCodes ---------------------------
(***************************************************************************)
(* Authorization codes from the draw of the code to its redemption.        *)
(*                                                                         *)
(* A code is a six-digit number, or a long random string when the number   *)
(* is taken, and is the primary key of its row.  Each action is the code   *)
(* from one database statement up to the next:                             *)
(*                                                                         *)
(*   authorization   exists -> lookup -> insert | update -> given          *)
(*   POST /token     SQLite: select -> claim -> reread -> issue            *)
(*                   PostgreSQL: claim, and never further                  *)
(*   cron            one DELETE of used and expired rows                   *)
(*                                                                         *)
(* Repository.save of an entity that carries its key is two statements: a  *)
(* SELECT by key, then an INSERT, or an UPDATE of the columns in which the *)
(* entity differs from the row it selected.                                *)
(***************************************************************************)
EXTENDS Naturals

CONSTANTS
    Authorizations,  \* calls of createAuthToken, each of one user agent
    Redemptions,     \* requests POST /token with a code
    Clients,         \* registered clients
    ClientOf,        \* the client of each authorization
    WithPkce,        \* the authorizations that sent a code_challenge
    Otps,            \* six-digit codes
    LongCodes,       \* 16-character codes; never drawn twice
    NoCode, NoRow, NoOne

ASSUME PkceIsOptional == WithPkce \subseteq Authorizations
ASSUME ClientsAreKnown == ClientOf \in [Authorizations -> Clients]
ASSUME NullsAreNoValues ==
    /\ NoCode \notin Otps \cup LongCodes
    /\ NoOne \notin Authorizations

VARIABLES
    dialect,   \* which database the server was started with
    codes,     \* table auth_code, a function on the stored codes
    auths,     \* the local variables of each createAuthToken
    requests,  \* the local variables of each code grant
    expired,   \* history: authorizations whose five minutes have passed
    clashed    \* history: authorizations that met another's row on saving

codesVars == <<dialect, codes, auths, requests, expired, clashed>>

Codes == Otps \cup LongCodes

\* owner stands for the columns that tell two authorizations apart: user, sid,
\* nonce, scope, hint.  challenge names the authorization whose verifier it is.
Row == [owner : Authorizations,
        client : Clients,
        challenge : Authorizations \cup {NoOne},
        used : BOOLEAN,
        expired : BOOLEAN]

Auth == [pc : {"exists", "lookup", "insert", "update", "given", "failed"},
         code : Codes \cup {NoCode},
         seen : Row \cup {NoRow}]

\* by: the authorization whose code is presented; verifier: whose code_verifier
\* comes with it; claimed: the authorization whose row the UPDATE marked.
Redemption == [pc : {"idle", "select", "claim", "reread", "issue",
                     "answered", "refused", "failed"},
               by : Authorizations \cup {NoOne},
               client : Clients,
               verifier : Authorizations \cup {NoOne},
               claimed : Authorizations \cup {NoOne},
               record : Row \cup {NoRow}]

CodesTypeOK ==
    /\ dialect \in {"postgres", "sqlite"}
    /\ DOMAIN codes \subseteq Codes
    /\ codes \in [DOMAIN codes -> Row]
    /\ auths \in [Authorizations -> Auth]
    /\ requests \in [Redemptions -> Redemption]
    /\ expired \subseteq Authorizations
    /\ clashed \subseteq Authorizations

-----------------------------------------------------------------------------
CodesInit ==
    /\ dialect \in {"postgres", "sqlite"}
    /\ codes = [c \in {} |-> NoRow]
    /\ auths = [a \in Authorizations |->
                   [pc |-> "exists", code |-> NoCode, seen |-> NoRow]]
    /\ requests \in [Redemptions ->
                        {[pc |-> "idle", by |-> NoOne, client |-> c,
                          verifier |-> NoOne, claimed |-> NoOne,
                          record |-> NoRow] : c \in Clients}]
    /\ expired = {}
    /\ clashed = {}

Stored == DOMAIN codes

\* Faulty forms: a redemption that does not look at used, a verifier that may
\* be left out, a cron job with its comparison turned round.
StillThere(c) == c \in Stored

VerifierOptional(r, row) ==
    /\ requests[r].client = row.client
    /\ {row.challenge, requests[r].verifier} \cap {requests[r].by, NoOne} # {}

FreshOrUsed(c) == codes[c].used \/ ~codes[c].expired

\* The entity that createAuthToken saves.
RowOf(a) == [owner |-> a, client |-> ClientOf[a],
             challenge |-> IF a \in WithPkce THEN a ELSE NoOne,
             used |-> FALSE, expired |-> FALSE]

\* The number drawn is kept unless a row has it; then a long code is drawn.
Settled(drawn, code) ==
    IF drawn \in Stored
    THEN /\ code \in LongCodes
         /\ \A b \in Authorizations : auths[b].code # code
    ELSE code = drawn

Exists(a) ==
    /\ auths[a].pc = "exists"
    /\ \E drawn \in Otps, code \in Codes :
          /\ Settled(drawn, code)
          /\ auths' = [auths EXCEPT ![a].code = code, ![a].pc = "lookup"]
    /\ UNCHANGED <<dialect, codes, requests, expired, clashed>>

\* save(): SELECT by primary key.
Lookup(a) ==
    /\ auths[a].pc = "lookup"
    /\ LET taken == auths[a].code \in Stored IN
          /\ auths' = [auths EXCEPT
                ![a].seen = IF taken THEN codes[auths[a].code] ELSE NoRow,
                ![a].pc = IF taken THEN "update" ELSE "insert"]
          /\ clashed' = IF taken THEN clashed \cup {a} ELSE clashed
    /\ UNCHANGED <<dialect, codes, requests, expired>>

\* save() of a new row; the primary key refuses a second one.
Insert(a) ==
    /\ auths[a].pc = "insert"
    /\ LET c == auths[a].code IN
          IF c \in Stored
          THEN /\ auths' = [auths EXCEPT ![a].pc = "failed"]
               /\ UNCHANGED codes
          ELSE /\ auths' = [auths EXCEPT ![a].pc = "given"]
               /\ codes' = [d \in Stored \cup {c} |->
                               IF d = c THEN RowOf(a) ELSE codes[d]]
    /\ UNCHANGED <<dialect, requests, expired, clashed>>

\* save() of a row it found: the columns that differ from the row it selected
\* are written, into whatever row has the key now.
Written(mine, seen, stored) == IF mine # seen THEN mine ELSE stored

Merged(row, seen, a) ==
    [owner |-> a,
     client |-> Written(RowOf(a).client, seen.client, row.client),
     challenge |-> Written(RowOf(a).challenge, seen.challenge, row.challenge),
     used |-> Written(FALSE, seen.used, row.used),
     expired |-> FALSE]

Update(a) ==
    /\ auths[a].pc = "update"
    /\ LET c == auths[a].code IN
          IF c \in Stored
          THEN /\ codes' = [codes EXCEPT ![c] = Merged(@, auths[a].seen, a)]
               /\ clashed' = clashed \cup {codes[c].owner}
          ELSE UNCHANGED <<codes, clashed>>
    /\ auths' = [auths EXCEPT ![a].pc = "given"]
    /\ UNCHANGED <<dialect, requests, expired>>

-----------------------------------------------------------------------------
\* handleCodeGrant begins: the client presents the code it was given, perhaps
\* once more, perhaps under another client_id or without the verifier.
Present(r, a) ==
    /\ requests[r].pc = "idle"
    /\ auths[a].pc = "given"
    /\ \E v \in {a, NoOne} :
          requests' = [requests EXCEPT
             ![r].by = a, ![r].verifier = v,
             ![r].pc = IF dialect = "sqlite" THEN "select" ELSE "claim"]
    /\ UNCHANGED <<dialect, codes, auths, expired, clashed>>

CodeOf(r) == auths[requests[r].by].code

\* Client, and verifier when the row has a challenge, are compared after the
\* row was claimed.
Verified(r, row) ==
    /\ requests[r].client = row.client
    /\ row.challenge \in {requests[r].verifier, NoOne}

Refuse(r) ==
    /\ requests' = [requests EXCEPT ![r].pc = "refused"]
    /\ UNCHANGED codes

Handled(r, row) ==
    [requests[r] EXCEPT !.record = row,
                        !.pc = IF Verified(r, row) THEN "issue" ELSE "refused"]

Redeemable(c) == c \in Stored /\ ~codes[c].used /\ ~codes[c].expired

Unused(c) == c \in Stored /\ ~codes[c].used

\* UPDATE .. WHERE code AND used = false AND expires_at > NOW() RETURNING *.  The
\* driver answers a pair of rows and count, which the code takes for the rows: the
\* record it makes of the first has no client, and the handler refuses it.
ClaimPostgres(r) ==
    /\ requests[r].pc = "claim"
    /\ dialect = "postgres"
    /\ LET c == CodeOf(r) IN
          \/ ~Redeemable(c) /\ Refuse(r)
          \/ /\ Redeemable(c)
             /\ codes' = [codes EXCEPT ![c].used = TRUE]
             /\ requests' = [requests EXCEPT ![r].claimed = codes[c].owner,
                                             ![r].pc = "refused"]
    /\ UNCHANGED <<dialect, auths, expired, clashed>>

SelectSqlite(r) ==
    /\ requests[r].pc = "select"
    /\ LET c == CodeOf(r) IN
          IF c \in Stored /\ ~codes[c].expired
          THEN /\ requests' = [requests EXCEPT ![r].pc = "claim"]
               /\ UNCHANGED codes
          ELSE Refuse(r)
    /\ UNCHANGED <<dialect, auths, expired, clashed>>

\* UPDATE .. WHERE code AND used = 0
ClaimSqlite(r) ==
    /\ requests[r].pc = "claim"
    /\ dialect = "sqlite"
    /\ LET c == CodeOf(r) IN
          \/ ~Unused(c) /\ Refuse(r)
          \/ /\ Unused(c)
             /\ codes' = [codes EXCEPT ![c].used = TRUE]
             /\ requests' = [requests EXCEPT ![r].claimed = codes[c].owner,
                                             ![r].pc = "reread"]
    /\ UNCHANGED <<dialect, auths, expired, clashed>>

\* The row is read once more; when it is gone the handler fails on null.
RereadSqlite(r) ==
    /\ requests[r].pc = "reread"
    /\ LET c == CodeOf(r) IN
          IF c \in Stored
          THEN /\ requests' = [requests EXCEPT ![r] = Handled(r, codes[c])]
               /\ UNCHANGED codes
          ELSE Refuse(r)
    /\ UNCHANGED <<dialect, auths, expired, clashed>>

\* issueToken for the user and tenant of the record: it may still throw
\* (neither member nor subscriber, session over, role missing).
Issue(r) ==
    /\ requests[r].pc = "issue"
    /\ \E end \in {"answered", "failed"} :
          requests' = [requests EXCEPT ![r].pc = end]
    /\ UNCHANGED <<dialect, codes, auths, expired, clashed>>

-----------------------------------------------------------------------------
\* Five minutes pass for a row.
ExpireCode(c) ==
    /\ c \in Stored
    /\ ~codes[c].expired
    /\ codes' = [codes EXCEPT ![c].expired = TRUE]
    /\ expired' = expired \cup {codes[c].owner}
    /\ UNCHANGED <<dialect, auths, requests, clashed>>

Dead(c) == codes[c].expired \/ codes[c].used

\* Cron: DELETE .. WHERE expires_at < now OR used
Clean ==
    /\ \E c \in Stored : Dead(c)
    /\ codes' = [c \in {d \in Stored : ~Dead(d)} |-> codes[c]]
    /\ UNCHANGED <<dialect, auths, requests, expired, clashed>>

Create(a) == Exists(a) \/ Lookup(a) \/ Insert(a) \/ Update(a)

Redeem(r) ==
    \/ \E a \in Authorizations : Present(r, a)
    \/ ClaimPostgres(r)
    \/ SelectSqlite(r)
    \/ ClaimSqlite(r)
    \/ RereadSqlite(r)
    \/ Issue(r)

CodesNext ==
    \/ \E a \in Authorizations : Create(a)
    \/ \E r \in Redemptions : Redeem(r)
    \/ \E c \in Codes : ExpireCode(c)
    \/ Clean

CodesSpec == CodesInit /\ [][CodesNext]_codesVars

-----------------------------------------------------------------------------
\* No authorization that sent a challenge is turned into two token responses,
\* however its requests, a colliding authorization and the cron job interleave.
\* Without a challenge, a row replaced between SQLite's UPDATE and its last SELECT
\* is answered there and redeemed again.  (PostgreSQL answers no request at all.)
AnsweredFor(a) == {r \in Redemptions :
                      /\ requests[r].pc = "answered"
                      /\ requests[r].record.owner = a}

AtMostOnce == \A a \in WithPkce : \A r, q \in AnsweredFor(a) : r = q

\* The tokens of an authorization that sent a challenge go to the user agent
\* that made it, even when two authorizations drew the same number and one
\* overwrote the other's row.
VerifierProvesOwnership ==
    \A r \in Redemptions :
        LET record == requests[r].record IN
        requests[r].pc = "answered" /\ record.owner \in WithPkce =>
            requests[r].by = record.owner

\* With SQLite, a client that presents its own code correctly is refused only for a
\* reason: the code has expired, another request claimed it, two authorizations drew
\* the same number, or the cron job deleted the row between this request's own
\* UPDATE and its last SELECT.  At any other moment the cron job is no reason.
Correct(r) ==
    LET a == requests[r].by IN
    /\ requests[r].client = ClientOf[a]
    /\ requests[r].verifier = a \/ a \notin WithPkce

ClaimedByOther(r) ==
    \E q \in Redemptions \ {r} : requests[q].claimed = requests[r].by

SweptWhileRedeemed(r) ==
    /\ requests[r].claimed = requests[r].by
    /\ requests[r].record = NoRow \/ requests[r].record.owner # requests[r].by

Caused(r) ==
    \/ requests[r].by \in expired \cup clashed
    \/ ClaimedByOther(r)
    \/ SweptWhileRedeemed(r)

RefusedForCause ==
    \A r \in Redemptions :
        dialect = "sqlite" /\ requests[r].pc = "refused" /\ Correct(r) => Caused(r)

-----------------------------------------------------------------------------
(* What the documentation says and the code does not do: this does not hold. *)

\* auth-code.service.ts:115, "Supports both PostgreSQL (production) and SQLite
\* (testing)": with either database, a first correct redemption whose row is still
\* there is answered.  With PostgreSQL it marks the row and is refused.
CodesAreRedeemable ==
    \A r \in Redemptions :
        LET a == requests[r].by IN
        requests[r].pc = "refused" /\ Correct(r) /\ a \notin expired \cup clashed =>
            ClaimedByOther(r) \/ auths[a].code \notin Stored
=============================================================================
