-------------------------------- MODULE Accounts --------------------------------
(***************************************************************************)
(* User accounts: registration, verification by mail, passwords, change of *)
(* address, locks, sign-in and deletion.                                   *)
(*                                                                         *)
(* Every change of an account is a read of its row, some work in between   *)
(* (argon2 takes its time), and Repository.save of the entity that was     *)
(* read.  save selects the row again and writes every column in which the  *)
(* entity differs from it, so that the row becomes the entity; when there  *)
(* is no row, it inserts the entity.  Each action is the code from one     *)
(* statement to the next.                                                  *)
(*                                                                         *)
(* A password is named by its hash, and hashes are salted: no two are the  *)
(* same.  Links of verification and reset mails carry the same token, the  *)
(* address signed with the hash stored then.                               *)
(***************************************************************************)
EXTENDS Naturals

CONSTANTS
    Ids,        \* users.id, drawn once each
    Emails,
    Requests,
    MaxHashes,  \* bound: passwords ever hashed
    MaxBegun,   \* bound: requests ever begun
    NoId, NoEmail, Gone

ASSUME NullsAreNoValues ==
    /\ NoId \notin Ids
    /\ NoEmail \notin Emails
ASSUME BoundsAreNumbers == MaxHashes \in Nat /\ MaxBegun \in Nat

Hashes == 1 .. MaxHashes
NoHash == 0

Row == [email : Emails, password : Hashes, verified : BOOLEAN, locked : BOOLEAN]

ASSUME GoneIsNoRow == Gone \notin Row

VARIABLES
    users,     \* table users
    owner,     \* history: the account each hash was made for
    links,     \* verification and reset links that were mailed
    changes,   \* change-of-address links that were mailed
    tokens,    \* accounts for which a token was answered
    requests,  \* the local variables of each request
    begun,     \* how many requests were begun
    proved,    \* history: an address answered for an account, or an admin did
    shut,      \* history: accounts whose last lock or unlock was a lock
    unmailed,  \* history: accounts made for others, of which no mail told them
    removed,   \* history: accounts that were deleted
    crashed,   \* history: the server stopped at least once
    overrun    \* history: accounts with a save over a row other than the one read

history == <<owner, proved, shut, unmailed, removed, crashed, overrun>>
vars == <<users, links, changes, tokens, requests, begun, history>>

Link == [sub : Emails, secret : Hashes]
Change == [sub : Emails, new : Emails, to : Emails]

Saving == {"name", "lock", "unlock", "verify", "unverify", "email", "password",
           "secure", "reset", "confirm", "move"}
Ops == Saving \cup {"none", "register", "create", "add", "onboard", "ask", "delete",
                    "signdown", "login"}

\* email: the address of a registration, or the sub of a link; new: the address
\* to change to; to: where the link of the change was mailed; secret: the
\* current password given, or the hash that verifies the link.
Request == [op : Ops,
            pc : {"idle", "free", "stored", "checked", "permitted", "admitted",
                  "found"},
            email : Emails \cup {NoEmail},
            new : Emails \cup {NoEmail},
            to : Emails \cup {NoEmail},
            secret : Hashes \cup {NoHash},
            id : Ids \cup {NoId},
            row : Row \cup {Gone}]

Idle == [op |-> "none", pc |-> "idle", email |-> NoEmail, new |-> NoEmail,
         to |-> NoEmail, secret |-> NoHash, id |-> NoId, row |-> Gone]

TypeOK ==
    /\ users \in [Ids -> Row \cup {Gone}]
    /\ owner \in [Hashes -> Ids \cup {NoId}]
    /\ links \subseteq Link
    /\ changes \subseteq Change
    /\ tokens \subseteq Ids
    /\ requests \in [Requests -> Request]
    /\ begun \in 0 .. MaxBegun
    /\ proved \subseteq Ids \X Emails
    /\ shut \subseteq Ids
    /\ unmailed \subseteq Ids
    /\ removed \subseteq Ids
    /\ crashed \in BOOLEAN
    /\ overrun \subseteq Ids

Init ==
    /\ users = [id \in Ids |-> Gone]
    /\ owner = [h \in Hashes |-> NoId]
    /\ links = {}
    /\ changes = {}
    /\ tokens = {}
    /\ requests = [r \in Requests |-> Idle]
    /\ begun = 0
    /\ proved = {}
    /\ shut = {}
    /\ unmailed = {}
    /\ removed = {}
    /\ crashed = FALSE
    /\ overrun = {}

-----------------------------------------------------------------------------
Live == {id \in Ids : users[id] # Gone}
At(e) == {id \in Live : users[id].email = e}      \* findOne by email
Minted == {h \in Hashes : owner[h] # NoId}
Unborn == {id \in Ids : \A h \in Hashes : owner[h] # id}
NextHash(h) == Minted = 1 .. (h - 1)

Go(r, next) ==
    /\ requests' = [requests EXCEPT ![r] = next]
    /\ UNCHANGED begun

\* A request comes in.
Start(r, first) ==
    /\ requests[r].pc = "idle"
    /\ begun < MaxBegun
    /\ begun' = begun + 1
    /\ requests' = [requests EXCEPT ![r] = first]

Is(r, op, pc) == requests[r].op = op /\ requests[r].pc = pc

-----------------------------------------------------------------------------
(* Registration; creation by an administrator, for a new member of a       *)
(* tenant, and for the customer of an application.                         *)

BeginCreation(r, op, e) ==
    /\ op \in {"register", "create", "add", "onboard"}
    /\ At(e) = {}
    /\ Start(r, [Idle EXCEPT !.op = op, !.pc = "free", !.email = e])
    /\ UNCHANGED <<users, links, changes, tokens, history>>

NewRow(e, h) == [email |-> e, password |-> h, verified |-> FALSE, locked |-> FALSE]

\* The password is hashed and the row inserted, unless the address was taken
\* meanwhile.  The administrator's creation goes on to updateVerified; nobody
\* is told of the account made for a new member.
Insert(r) ==
    /\ requests[r].pc = "free"
    /\ LET e == requests[r].email
           op == requests[r].op
       IN IF At(e) # {}
          THEN /\ Go(r, Idle)
               /\ UNCHANGED <<users, owner, unmailed>>
          ELSE \E id \in Unborn, h \in Hashes :
                  /\ NextHash(h)
                  /\ users' = [users EXCEPT ![id] = NewRow(e, h)]
                  /\ owner' = [owner EXCEPT ![h] = id]
                  /\ unmailed' = IF op = "add" THEN unmailed \cup {id} ELSE unmailed
                  /\ Go(r, CASE op = "create" -> [Idle EXCEPT !.op = "verify",
                                                    !.pc = "admitted", !.id = id]
                             [] op = "add" -> Idle
                             [] OTHER -> [requests[r] EXCEPT !.pc = "stored",
                                                    !.id = id, !.secret = h])
    /\ UNCHANGED <<links, changes, tokens, proved, shut, removed, crashed, overrun>>

\* The verification mail is sent, or the row just inserted is removed.  Faulty
\* form: the row is kept.
WelcomeKeeps(r) ==
    /\ Is(r, "register", "stored")
    /\ \/ links' = links \cup {[sub |-> requests[r].email,
                                secret |-> requests[r].secret]}
       \/ UNCHANGED links
    /\ Go(r, Idle)
    /\ UNCHANGED <<users, changes, tokens, history>>

Welcome(r) ==
    /\ Is(r, "register", "stored")
    /\ LET id == requests[r].id IN
          \/ /\ links' = links \cup {[sub |-> requests[r].email,
                                      secret |-> requests[r].secret]}
             /\ UNCHANGED <<users, removed>>
          \/ /\ users' = [users EXCEPT ![id] = Gone]
             /\ removed' = removed \cup {id}
             /\ UNCHANGED links
    /\ Go(r, Idle)
    /\ UNCHANGED <<changes, tokens, owner, proved, shut, unmailed, crashed, overrun>>

\* The end of an onboarding: a reset link is mailed to the account as it is now;
\* a mail that fails, and one never reached because the tenant could not be
\* made, leave the account as it is.
Greet(r) ==
    /\ Is(r, "onboard", "stored")
    /\ LET id == requests[r].id IN
          \/ /\ id \in Live
             /\ links' = links \cup {[sub |-> users[id].email,
                                      secret |-> users[id].password]}
             /\ UNCHANGED unmailed
          \/ /\ unmailed' = unmailed \cup {id}
             /\ UNCHANGED links
    /\ Go(r, Idle)
    /\ UNCHANGED <<users, changes, tokens, owner, proved, shut, removed, crashed,
                   overrun>>

-----------------------------------------------------------------------------
(* Mails asked for, and the use of their links.                            *)

\* POST /forgot-password, for anyone.
Forgot(e) ==
    /\ begun < MaxBegun
    /\ begun' = begun + 1
    /\ \E id \in At(e) :
          links' = links \cup {[sub |-> e, secret |-> users[id].password]}
    /\ UNCHANGED <<users, changes, tokens, requests, history>>

\* Faulty form: the link goes to the address the account has.
MailedToOld(id, new) == [sub |-> users[id].email, new |-> new, to |-> users[id].email]

Mailed(id, new) == [sub |-> users[id].email, new |-> new, to |-> new]

\* PATCH /me/email, once the bearer's account is read.
Ask(r) ==
    /\ Is(r, "ask", "admitted")
    /\ LET id == requests[r].id IN
          changes' = IF id \in Live
                     THEN changes \cup {Mailed(id, requests[r].new)}
                     ELSE changes
    /\ Go(r, Idle)
    /\ UNCHANGED <<users, links, tokens, history>>

\* verifyEmail and resetPassword find the account by the address in the token,
\* and the token must be signed with the hash the account has now.
BeginLink(r, op, link) ==
    /\ op \in {"confirm", "reset"}
    /\ \E id \in At(link.sub) :
          /\ users[id].password = link.secret
          /\ op = "reset" => users[id].verified
          /\ Start(r, [Idle EXCEPT !.op = op, !.pc = "checked", !.email = link.sub,
                                !.secret = link.secret, !.id = id])
    /\ UNCHANGED <<users, links, changes, tokens, history>>

\* confirmEmailChange: the token is signed with the address it is found by.
BeginMove(r, change) ==
    /\ \E id \in At(change.sub) :
          Start(r, [Idle EXCEPT !.op = "move", !.pc = "checked",
                             !.email = change.sub, !.new = change.new,
                             !.to = change.to, !.id = id])
    /\ UNCHANGED <<users, links, changes, tokens, history>>

\* getUserAuthContext finds the account by the address again; its permission
\* reaches no other account.  verifyEmail takes this account from here on.
\* Faulty form: all of them do.
PermitFound(r) ==
    /\ requests[r].pc = "checked"
    /\ \E id \in At(requests[r].email) :
          Go(r, [requests[r] EXCEPT !.id = id,
                    !.pc = IF requests[r].op = "confirm" THEN "permitted"
                           ELSE "admitted"])
    /\ UNCHANGED <<users, links, changes, tokens, history>>

Permit(r) ==
    /\ requests[r].pc = "checked"
    /\ \/ At(requests[r].email) = {} /\ Go(r, Idle)
       \/ \E id \in At(requests[r].email) :
             Go(r, IF requests[r].op = "confirm"
                   THEN [requests[r] EXCEPT !.pc = "permitted", !.id = id]
                   ELSE IF requests[r].id = id
                   THEN [requests[r] EXCEPT !.pc = "admitted"]
                   ELSE Idle)
    /\ UNCHANGED <<users, links, changes, tokens, history>>

\* verifyEmail finds it a third time; a verified account is left alone.
Reach(r) ==
    /\ requests[r].pc = "permitted"
    /\ LET id == requests[r].id IN
          Go(r, IF id \in At(requests[r].email) /\ ~users[id].verified
                THEN [requests[r] EXCEPT !.pc = "admitted"]
                ELSE Idle)
    /\ UNCHANGED <<users, links, changes, tokens, history>>

-----------------------------------------------------------------------------
(* Changes by the owner, with an access token, and by administrators.      *)

\* The guard accepts the token of an account that is there and not locked.
BeginMine(r, op, id) ==
    /\ op \in {"name", "secure", "ask", "signdown"}
    /\ id \in tokens \cap Live
    /\ ~users[id].locked
    /\ \E new \in IF op = "ask" THEN Emails ELSE {NoEmail},
          known \in IF op \in {"secure", "signdown"} THEN Minted ELSE {NoHash} :
          Start(r, [Idle EXCEPT !.op = op, !.pc = "admitted", !.id = id,
                             !.new = new, !.secret = known])
    /\ UNCHANGED <<users, links, changes, tokens, history>>

BeginAdmin(r, op, id) ==
    /\ op \in {"lock", "unlock", "verify", "unverify", "email", "password", "delete"}
    /\ id \in Live
    /\ \E new \in IF op = "email" THEN Emails ELSE {NoEmail} :
          Start(r, [Idle EXCEPT !.op = op, !.pc = "admitted", !.id = id,
                             !.new = new, !.to = new])
    /\ UNCHANGED <<users, links, changes, tokens, history>>

Knows(r, row) ==
    requests[r].op \in {"secure", "signdown"} => row.password = requests[r].secret

\* findById, and the password when one is asked for.
Find(r) ==
    /\ requests[r].pc = "admitted"
    /\ requests[r].op # "ask"
    /\ LET id == requests[r].id IN
          Go(r, IF id \in Live /\ Knows(r, users[id])
                THEN [requests[r] EXCEPT !.pc = "found", !.row = users[id]]
                ELSE Idle)
    /\ UNCHANGED <<users, links, changes, tokens, history>>

Rehash == {"password", "secure", "reset"}

\* Faulty form: a new password also lifts the lock.
EditedUnlocks(r, h) ==
    LET row == requests[r].row
        op == requests[r].op
    IN  [row EXCEPT
            !.locked = (@ \/ op = "lock") /\ op \notin Rehash \cup {"unlock"},
            !.verified = (@ \/ op \in {"verify", "confirm"}) /\ op # "unverify",
            !.email = IF op \in {"email", "move"} THEN requests[r].new ELSE @,
            !.password = IF op \in Rehash THEN h ELSE @]

\* The entity that the operation saves; h is the hash of a new password.
Edited(r, h) ==
    LET row == requests[r].row
        op == requests[r].op
    IN  [row EXCEPT
            !.locked = (@ \/ op = "lock") /\ op # "unlock",
            !.verified = (@ \/ op \in {"verify", "confirm"}) /\ op # "unverify",
            !.email = IF op \in {"email", "move"} THEN requests[r].new ELSE @,
            !.password = IF op \in Rehash THEN h ELSE @]

\* What a completed operation vouches for.
Vouched(r) ==
    LET id == requests[r].id
        op == requests[r].op
    IN  CASE op = "confirm" -> {<<id, requests[r].email>>}
          [] op \in {"email", "move"} -> {<<id, requests[r].to>>}
          [] op = "verify" -> {<<id, requests[r].row.email>>}
          [] OTHER -> {}

\* The unique address refuses the entity; an administrator's change is refused
\* already when any account has the address.
Free(r, e) == At(e) \subseteq IF requests[r].op = "email" THEN {} ELSE {requests[r].id}

\* save: the row becomes the entity.
Save(r) ==
    /\ requests[r].pc = "found"
    /\ requests[r].op \in Saving
    /\ LET id == requests[r].id
           op == requests[r].op
       IN  \E h \in Hashes :
              LET entity == Edited(r, h) IN
              /\ IF op \in Rehash THEN NextHash(h) ELSE h = 1
              /\ IF Free(r, entity.email)
                 THEN /\ users' = [users EXCEPT ![id] = entity]
                      /\ owner' = IF op \in Rehash THEN [owner EXCEPT ![h] = id]
                                  ELSE owner
                      /\ proved' = proved \cup Vouched(r)
                      /\ shut' = CASE op = "lock" -> shut \cup {id}
                                   [] op = "unlock" -> shut \ {id}
                                   [] OTHER -> shut
                      /\ overrun' = IF users[id] = requests[r].row THEN overrun
                                    ELSE overrun \cup {id}
                 ELSE UNCHANGED <<users, owner, proved, shut, overrun>>
    /\ Go(r, Idle)
    /\ UNCHANGED <<links, changes, tokens, unmailed, removed, crashed>>

Remove(r) ==
    /\ requests[r].pc = "found"
    /\ requests[r].op \in {"delete", "signdown"}
    /\ LET id == requests[r].id IN
          /\ users' = [users EXCEPT ![id] = Gone]
          /\ removed' = removed \cup {id}
    /\ Go(r, Idle)
    /\ UNCHANGED <<links, changes, tokens, owner, proved, shut, unmailed, crashed,
                   overrun>>

-----------------------------------------------------------------------------
\* validate reads the account and compares the password.
BeginLogin(r, e) ==
    /\ \E id \in At(e) :
          Start(r, [Idle EXCEPT !.op = "login", !.pc = "found", !.id = id,
                             !.row = users[id]])
    /\ UNCHANGED <<users, links, changes, tokens, history>>

Welcomed(row) == ~row.locked /\ row.verified

Login(r) ==
    /\ Is(r, "login", "found")
    /\ tokens' = IF Welcomed(requests[r].row) THEN tokens \cup {requests[r].id}
                 ELSE tokens
    /\ Go(r, Idle)
    /\ UNCHANGED <<users, links, changes, history>>

\* The server stops: what its requests had not saved is lost.
Crash ==
    /\ \E r \in Requests : requests[r].pc # "idle"
    /\ requests' = [r \in Requests |-> Idle]
    /\ crashed' = TRUE
    /\ UNCHANGED <<users, links, changes, tokens, begun, owner, proved, shut,
                   unmailed, removed, overrun>>

Begin(r) ==
    \/ \E op \in Ops, e \in Emails : BeginCreation(r, op, e)
    \/ \E op \in Ops, link \in links : BeginLink(r, op, link)
    \/ \E change \in changes : BeginMove(r, change)
    \/ \E op \in Ops, id \in Ids : BeginMine(r, op, id) \/ BeginAdmin(r, op, id)
    \/ \E e \in Emails : BeginLogin(r, e)

Continue(r) ==
    \/ Insert(r) \/ Welcome(r) \/ Greet(r)
    \/ Ask(r) \/ Permit(r) \/ Reach(r)
    \/ Find(r) \/ Save(r) \/ Remove(r)
    \/ Login(r)

Next ==
    \/ \E r \in Requests : Begin(r) \/ Continue(r)
    \/ \E e \in Emails : Forgot(e)
    \/ Crash

Spec == Init /\ [][Next]_vars

-----------------------------------------------------------------------------
\* A verified account has an address at which somebody used a link mailed
\* there for this account, or which an administrator entered; and no token was
\* ever answered for an account without one.  The address of an account that a
\* stale save wrote back is not covered.
VerifiedWasReached ==
    /\ \A id \in Live \ overrun :
          users[id].verified => <<id, users[id].email>> \in proved
    /\ \A id \in tokens : \E e \in Emails : <<id, e>> \in proved

\* A reset link changes the password of the account it was mailed for and of no
\* other, also when that account is deleted and its address registered anew
\* while the link is being checked.
ResetReachesItsOwner ==
    /\ \A id \in Live : owner[users[id].password] = id
    /\ \A r \in Requests :
          requests[r].op = "reset" => owner[requests[r].secret] = requests[r].id

\* Unless a save went over a row that had changed since it was read: a lock
\* lasts until it is lifted, a replaced password and the links signed with it
\* never work again, and a deleted account does not come back.
Latest(h) == \A g \in Hashes : g > h => owner[g] # owner[h]

OnlyOverlapsLoseWrites ==
    \A id \in Ids \ overrun :
        /\ id \in removed => id \notin Live
        /\ id \in Live => /\ users[id].locked <=> id \in shut
                          /\ Latest(users[id].password)

\* A request that is about to mail the account's link, to remove it, or to have
\* it verified; q holds its local variables.
Sponsors(q, id) ==
    /\ q.id = id
    /\ \/ q.op \in {"register", "onboard"} /\ q.pc = "stored"
       \/ q.op = "verify" /\ q.pc \in {"admitted", "found"}

Awaited(id) ==
    \/ \E link \in links : owner[link.secret] = id
    \/ \E e \in Emails : <<id, e>> \in proved
    \/ \E r \in Requests : Sponsors(requests[r], id)

\* As long as the server has not stopped, an account was mailed a link, or an
\* administrator or a link vouched for it, or the request that made it is still
\* to do so: a registration whose mail fails leaves nothing behind.  Left out are
\* the accounts made for a new member of a tenant, who is sent no mail, and those
\* of an onboarding that failed or whose mail did: nothing of it is taken back.
InvitedOrVouched == ~crashed => \A id \in Live \ (overrun \cup unmailed) : Awaited(id)

-----------------------------------------------------------------------------
(* What does not hold.                                                     *)

\* Every account was mailed a link or vouched for while the server runs: an
\* account that is made for a new member has neither, its address cannot sign
\* up any more, and a reset is refused to it.
NobodyIsLeftOut == ~crashed => \A id \in Live \ overrun : Awaited(id)
=============================================================================
