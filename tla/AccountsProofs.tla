----------------------------- MODULE AccountsProofs -----------------------------
(***************************************************************************)
(* Proofs about Accounts, for any accounts, addresses and requests and any *)
(* number of passwords.                                                    *)
(*                                                                         *)
(* Every change saves a row that was read before, so the argument follows  *)
(* the rows requests hold as well as the table: each is, like the row in   *)
(* the table, one of the account's own, with a password made for it and,   *)
(* if verified, an address that answered.  What a row may have missed      *)
(* meanwhile is either vouched for itself, or makes the save an overrun.   *)
(***************************************************************************)
EXTENDS Accounts, TLAPS

Born(id) == \E h \in Hashes : owner[h] = id
Answered(id) == \E e \in Emails : <<id, e>> \in proved

RowOK(id, row) ==
    /\ row \in Row
    /\ owner[row.password] = id
    /\ row.verified => Answered(id)

\* The account still has this address, or was given another one that answered.
Keeps(id, e) ==
    id \in Live => \/ users[id].email = e
                   \/ <<id, users[id].email>> \in proved
                   \/ id \in overrun

\* What a request knows at each point; q holds its local variables.
RecordOK(q) ==
    /\ q.id # NoId => Born(q.id)
    /\ q.pc \in {"free", "checked", "permitted"} \/ q.op \in {"register", "confirm"} =>
          q.email \in Emails
    /\ q.pc = "free" => q.op \in {"register", "create", "add", "onboard"}
    /\ q.pc \in {"stored", "checked", "permitted", "admitted", "found"} => q.id \in Ids
    /\ q.op = "reset" \/ (q.op = "register" /\ q.pc = "stored") =>
          q.id \in Ids /\ q.secret \in Hashes /\ owner[q.secret] = q.id
    /\ q.op = "ask" => q.new \in Emails
    /\ q.op \in {"email", "move"} => q.new \in Emails /\ q.to = q.new
    /\ q.pc = "found" => RowOK(q.id, q.row)
    /\ q.op = "confirm" /\ q.pc = "admitted" => Keeps(q.id, q.email)
    /\ q.op = "confirm" /\ q.pc = "found" =>
          q.row.email = q.email \/ <<q.id, q.row.email>> \in proved \/ q.id \in overrun
    /\ q.op = "verify" /\ q.pc = "found" => Keeps(q.id, q.row.email)

Invited(id) == Answered(id) \/ \E link \in links : owner[link.secret] = id

\* An account that no save went over.
Faithful(id) ==
    /\ users[id].verified => <<id, users[id].email>> \in proved
    /\ id \notin removed
    /\ users[id].locked <=> id \in shut
    /\ Latest(users[id].password)
    /\ \/ crashed \/ id \in unmailed \/ Invited(id)
       \/ \E r \in Requests : Sponsors(requests[r], id)

AccountOK(id) ==
    RowOK(id, users[id]) /\ (id \notin overrun => Faithful(id))

Unique == \A i, j \in Live : users[i].email = users[j].email => i = j

IInv ==
    /\ TypeOK
    /\ \A id \in Live : AccountOK(id)
    /\ Unique
    /\ \A id \in shut \cup removed : Born(id)
    /\ \A id \in tokens : Answered(id)
    /\ \A c \in changes : c.new = c.to
    /\ \A r \in Requests : RecordOK(requests[r])

-----------------------------------------------------------------------------
(* What a step leaves as it is.                                            *)

\* No password changes its account, and an account that is there after a step
\* was there before with the same address, or had the new one vouched for, or
\* was overrun.
Kept ==
    /\ proved \subseteq proved' /\ overrun \subseteq overrun' /\ links \subseteq links'
    /\ unmailed \subseteq unmailed'
    /\ \A h \in Hashes : owner[h] # NoId => owner'[h] = owner[h]
    /\ \A id \in Live' : Born(id) =>
          \/ id \in overrun'
          \/ id \in Live /\ \/ users'[id].email = users[id].email
                            \/ <<id, users'[id].email>> \in proved'

Others(r) == \A s \in Requests \ {r} : requests'[s] = requests[s]

LEMMA NextRecord ==
  ASSUME TypeOK, NEW r \in Requests, NEW next \in Request, Start(r, next) \/ Go(r, next)
  PROVE  /\ requests' \in [Requests -> Request] /\ begun' \in 0 .. MaxBegun
         /\ requests'[r] = next /\ Others(r)
  <1>1. requests' = [requests EXCEPT ![r] = next]
    BY DEF Start, Go
  <1>2. begun' \in 0 .. MaxBegun
    <2>1. CASE Start(r, next)
      BY <2>1, BoundsAreNumbers DEF Start, TypeOK
    <2>2. CASE Go(r, next)
      BY <2>2 DEF Go, TypeOK
    <2> QED BY <2>1, <2>2
  <1> QED BY <1>1, <1>2 DEF TypeOK, Others

LEMMA BornKept ==
  ASSUME NEW id \in Ids, Kept, Born(id)
  PROVE  Born(id)'
  BY NullsAreNoValues DEF Kept, Born

LEMMA RowKept ==
  ASSUME NEW id \in Ids, NEW row, RowOK(id, row), Kept
  PROVE  RowOK(id, row)'
  <1>1. row.password \in Hashes
    BY DEF RowOK, Row
  <1>2. owner'[row.password] = id
    BY <1>1, NullsAreNoValues DEF RowOK, Kept
  <1>3. row.verified => Answered(id)'
    BY DEF RowOK, Answered, Kept
  <1> QED BY <1>2, <1>3 DEF RowOK

LEMMA KeepsKept ==
  ASSUME NEW id \in Ids, NEW e, Keeps(id, e), Born(id), Kept
  PROVE  Keeps(id, e)'
  BY DEF Keeps, Kept

LEMMA InvitedKept ==
  ASSUME TypeOK, NEW id \in Ids, Invited(id), Kept
  PROVE  Invited(id)'
  <1>1. Answered(id) => Answered(id)'
    BY DEF Answered, Kept
  <1>2. ASSUME NEW link \in links, owner[link.secret] = id
        PROVE  \E l \in links' : owner'[l.secret] = id
    <2>1. link.secret \in Hashes
      BY DEF TypeOK, Link
    <2>2. link \in links' /\ owner'[link.secret] = id
      BY <1>2, <2>1, NullsAreNoValues DEF Kept
    <2> QED BY <2>2
  <1> QED BY <1>1, <1>2 DEF Invited

\* What a request knows stays true while others take their steps.
LEMMA RecordKept ==
  ASSUME NEW q \in Request, RecordOK(q), Kept
  PROVE  RecordOK(q)'
  <1>1. q.id # NoId => q.id \in Ids /\ Born(q.id) /\ Born(q.id)'
    BY BornKept DEF RecordOK, Request
  <1>2. q.pc = "found" => q.id \in Ids /\ Born(q.id) /\ RowOK(q.id, q.row)'
    BY <1>1, RowKept, NullsAreNoValues DEF RecordOK
  <1>3. q.pc = "admitted" => q.id \in Ids /\ Born(q.id)
    BY <1>1, NullsAreNoValues DEF RecordOK
  <1>4. q.op = "confirm" /\ q.pc = "admitted" => Keeps(q.id, q.email)'
    BY <1>3, KeepsKept DEF RecordOK
  <1>5. q.op = "verify" /\ q.pc = "found" => Keeps(q.id, q.row.email)'
    BY <1>2, KeepsKept DEF RecordOK
  <1>6. q.op = "reset" \/ (q.op = "register" /\ q.pc = "stored") =>
           q.secret \in Hashes /\ owner'[q.secret] = q.id
    <2> SUFFICES ASSUME q.op = "reset" \/ (q.op = "register" /\ q.pc = "stored")
                 PROVE  q.secret \in Hashes /\ owner'[q.secret] = q.id
      OBVIOUS
    <2>1. q.id \in Ids /\ q.secret \in Hashes /\ owner[q.secret] = q.id
      BY DEF RecordOK
    <2> QED BY <2>1, NullsAreNoValues DEF Kept
  <1>7. q.op = "confirm" /\ q.pc = "found" =>
           q.row.email = q.email \/ <<q.id, q.row.email>> \in proved' \/ q.id \in overrun'
    BY DEF RecordOK, Kept
  <1> QED BY <1>1, <1>2, <1>4, <1>5, <1>6, <1>7 DEF RecordOK

\* The invariant after a step of r to next, from what the step does to the tables.
LEMMA Carry ==
  ASSUME IInv, NEW r \in Requests, NEW next \in Request, Start(r, next) \/ Go(r, next),
         TypeOK', Kept, RecordOK(next)',
         \A id \in Live' : AccountOK(id)', Unique',
         \A id \in (shut \cup removed)' : Born(id) \/ Born(id)',
         \A id \in tokens' : Answered(id)',
         \A c \in changes' : c.new = c.to
  PROVE  IInv'
  <1>1. requests'[r] = next /\ Others(r)
    BY NextRecord DEF IInv
  <1>2. ASSUME NEW s \in Requests PROVE RecordOK(requests[s])'
    <2>1. CASE s = r
      <3>1. PICK q \in Request : q = requests'[s] /\ RecordOK(q)'
        BY <1>1, <2>1
      <3> QED BY ONLY <3>1 DEF RecordOK, RowOK, Born, Keeps, Answered, Live
    <2>2. CASE s # r
      <3>1. PICK q \in Request : q = requests[s] /\ q = requests'[s]
        BY <1>1, <2>2 DEF IInv, TypeOK, Others
      <3>2. RecordOK(q)'
        BY <3>1, RecordKept DEF IInv
      <3> QED BY <3>1, <3>2 DEF RecordOK, RowOK, Born, Keeps, Answered, Live
    <2> QED BY <2>1, <2>2
  <1>3. \A id \in (shut \cup removed)' : Born(id)'
    BY BornKept DEF TypeOK
  <1> QED BY <1>2, <1>3 DEF IInv

\* An account other than the one a step changes.
LEMMA AccountKept ==
  ASSUME IInv, NEW r \in Requests, NEW next \in Request, Start(r, next) \/ Go(r, next),
         Kept, UNCHANGED crashed,
         NEW id \in Live, users'[id] = users[id], AccountOK(id),
         id \in removed' => id \in removed,
         id \in shut' <=> id \in shut,
         \A h \in Hashes : owner'[h] = id => owner[h] = id,
         Sponsors(requests[r], id) => \/ Sponsors(next, id) \/ Invited(id)'
                                      \/ id \in overrun' \cup unmailed'
  PROVE  AccountOK(id)'
  <1>1. requests'[r] = next /\ Others(r) /\ id \in Ids
    BY NextRecord DEF IInv, Live
  <1>2. RowOK(id, users[id])'
    <2>1. PICK row : row = users[id] /\ row = users'[id]
      OBVIOUS
    <2>2. RowOK(id, row) /\ RowOK(id, row)'
      BY <1>1, <2>1, RowKept DEF AccountOK
    <2> QED BY <2>1, <2>2 DEF RowOK, Answered
  <1>3. ASSUME id \notin overrun' PROVE Faithful(id)'
    <2>1. Faithful(id) /\ users[id].password \in Hashes /\ owner[users[id].password] = id
      BY <1>3 DEF AccountOK, Kept, RowOK, Row
    <2>2. Latest(users[id].password)'
      <3>1. owner'[users[id].password] = id
        BY <1>1, <2>1, NullsAreNoValues DEF Kept
      <3> QED BY <2>1, <3>1 DEF Faithful, Latest
    <2>3. Invited(id) => Invited(id)'
      BY <1>1, InvitedKept DEF IInv
    <2>4. ASSUME NEW s \in Requests, Sponsors(requests[s], id)
          PROVE  id \in unmailed' \/ Invited(id)' \/ \E t \in Requests : Sponsors(requests[t], id)'
      <3>1. CASE s = r
        BY <1>1, <1>3, <2>4, <3>1 DEF Sponsors
      <3>2. CASE s # r
        BY <1>1, <2>4, <3>2 DEF Others, Sponsors
      <3> QED BY <3>1, <3>2
    <2>5. \/ crashed' \/ id \in unmailed' \/ Invited(id)'
          \/ \E s \in Requests : Sponsors(requests[s], id)'
      BY <2>1, <2>3, <2>4 DEF Faithful, Kept
    <2>6. /\ users'[id].verified => <<id, users'[id].email>> \in proved'
          /\ id \notin removed' /\ (users'[id].locked <=> id \in shut')
      BY <2>1 DEF Faithful, Kept
    <2> QED BY <2>2, <2>5, <2>6 DEF Faithful
  <1> QED BY <1>2, <1>3 DEF AccountOK

\* A step that changes no row.
LEMMA TellStep ==
  ASSUME IInv, NEW r \in Requests, NEW next \in Request, Start(r, next) \/ Go(r, next),
         UNCHANGED <<users, owner, proved, shut, removed, crashed, overrun>>,
         unmailed \subseteq unmailed', unmailed' \subseteq Ids, RecordOK(next),
         links \subseteq links', links' \subseteq Link,
         changes' \subseteq Change, \A c \in changes' : c.new = c.to,
         tokens' \subseteq Ids, \A id \in tokens' : Answered(id),
         \A id \in Live : Sponsors(requests[r], id) =>
             Sponsors(next, id) \/ Invited(id)' \/ id \in overrun \cup unmailed'
  PROVE  IInv'
  <1>1. Kept
    BY DEF Kept, Live
  <1>2. TypeOK'
    BY NextRecord DEF IInv, TypeOK
  <1>3. RecordOK(next)'
    BY <1>1, RecordKept
  <1>4. ASSUME NEW id \in Live' PROVE AccountOK(id)'
    <2>1. id \in Live /\ users'[id] = users[id] /\ AccountOK(id) /\ id \in Ids
      BY DEF Live, IInv
    <2> QED BY <1>1, <2>1, AccountKept
  <1>5. Unique'
    BY DEF IInv, Unique, Live
  <1>6. \A id \in (shut \cup removed)' : Born(id)
    BY DEF IInv
  <1>7. \A id \in tokens' : Answered(id)'
    BY DEF Answered
  <1> QED BY <1>1, <1>2, <1>3, <1>4, <1>5, <1>6, <1>7, Carry

\* A step that changes no table but links, changes and tokens.
LEMMA QuietStep ==
  ASSUME IInv, NEW r \in Requests, NEW next \in Request, Start(r, next) \/ Go(r, next),
         UNCHANGED <<users, history>>, RecordOK(next),
         links \subseteq links', links' \subseteq Link,
         changes' \subseteq Change, \A c \in changes' : c.new = c.to,
         tokens' \subseteq Ids, \A id \in tokens' : Answered(id),
         \A id \in Live : Sponsors(requests[r], id) =>
             Sponsors(next, id) \/ Invited(id)' \/ id \in overrun
  PROVE  IInv'
  BY TellStep DEF IInv, TypeOK, history

-----------------------------------------------------------------------------
(* Steps that change no account.                                           *)

LEMMA IdleFacts ==
  /\ Idle \in Request /\ RecordOK(Idle)
  /\ Idle.pc = "idle" /\ Idle.op = "none" /\ Idle.id = NoId
  BY DEF Idle, Request, Ops, RecordOK, Row, NoHash

\* An idle request sponsors nobody.
LEMMA IdleSponsors ==
  ASSUME NEW r \in Requests, requests[r].pc = "idle", NEW id
  PROVE  ~Sponsors(requests[r], id)
  BY DEF Sponsors

\* The beginning of a request that reads no row.
LEMMA BeginStep ==
  ASSUME IInv, NEW r \in Requests, NEW next \in Request, Start(r, next),
         RecordOK(next), UNCHANGED <<users, links, changes, tokens, history>>
  PROVE  IInv'
  <1>1. \A id \in Live : ~Sponsors(requests[r], id)
    BY IdleSponsors DEF Start
  <1> QED BY <1>1, QuietStep DEF IInv, TypeOK

LEMMA BeginCreationOK ==
  ASSUME IInv, NEW r \in Requests, NEW op \in Ops, NEW e \in Emails, BeginCreation(r, op, e)
  PROVE  IInv'
  <1>1. PICK next : next = [Idle EXCEPT !.op = op, !.pc = "free", !.email = e]
    OBVIOUS
  <1>2. op \in {"register", "create", "add", "onboard"}
    BY DEF BeginCreation
  <1>3. next.op = op /\ next.pc = "free" /\ next.email = e /\ next.id = NoId
    BY <1>1 DEF Idle
  <1>4. next \in Request
    BY <1>1 DEF Idle, Request, Ops, Row, NoHash
  <1>5. RecordOK(next)
    BY <1>2, <1>3 DEF RecordOK
  <1> QED BY <1>1, <1>4, <1>5, BeginStep DEF BeginCreation

LEMMA BeginLinkOK ==
  ASSUME IInv, NEW r \in Requests, NEW op \in Ops, NEW link \in links, BeginLink(r, op, link)
  PROVE  IInv'
  <1>1. link.sub \in Emails /\ link.secret \in Hashes /\ op \in {"confirm", "reset"}
    BY DEF IInv, TypeOK, Link, BeginLink
  <1>2. PICK id \in At(link.sub) :
          /\ users[id].password = link.secret
          /\ Start(r, [Idle EXCEPT !.op = op, !.pc = "checked", !.email = link.sub,
                                   !.secret = link.secret, !.id = id])
    BY DEF BeginLink
  <1>3. id \in Ids /\ id \in Live /\ owner[link.secret] = id
    BY <1>2 DEF At, Live, IInv, AccountOK, RowOK
  <1>4. PICK next : next = [Idle EXCEPT !.op = op, !.pc = "checked", !.email = link.sub,
                                        !.secret = link.secret, !.id = id]
    OBVIOUS
  <1>5. /\ next.op = op /\ next.pc = "checked" /\ next.email = link.sub
        /\ next.secret = link.secret /\ next.id = id
    BY <1>4 DEF Idle
  <1>6. next \in Request
    BY <1>1, <1>3, <1>4 DEF Idle, Request, Ops, Row
  <1>7. RecordOK(next)
    BY <1>1, <1>3, <1>5 DEF RecordOK, Born
  <1> QED BY <1>2, <1>4, <1>6, <1>7, BeginStep DEF BeginLink

LEMMA LiveBorn ==
  ASSUME IInv, NEW id \in Live
  PROVE  /\ id \in Ids /\ users[id] \in Row /\ RowOK(id, users[id]) /\ Born(id)
         /\ users[id].email \in Emails /\ users[id].password \in Hashes
  BY DEF IInv, Live, AccountOK, RowOK, Row, Born

LEMMA BeginMoveOK ==
  ASSUME IInv, NEW r \in Requests, NEW change \in changes, BeginMove(r, change)
  PROVE  IInv'
  <1>1. change \in Change /\ change.new = change.to
    BY DEF IInv, TypeOK
  <1>2. change.sub \in Emails /\ change.new \in Emails /\ change.to = change.new
    BY <1>1 DEF Change
  <1>3. PICK id \in At(change.sub) :
          Start(r, [Idle EXCEPT !.op = "move", !.pc = "checked", !.email = change.sub,
                                !.new = change.new, !.to = change.to, !.id = id])
    BY DEF BeginMove
  <1>4. id \in Ids /\ Born(id)
    BY <1>3, LiveBorn DEF At
  <1>5. PICK next :
          next = [Idle EXCEPT !.op = "move", !.pc = "checked", !.email = change.sub,
                              !.new = change.new, !.to = change.to, !.id = id]
    OBVIOUS
  <1>6. /\ next.op = "move" /\ next.pc = "checked" /\ next.email = change.sub
        /\ next.new = change.new /\ next.to = change.to /\ next.id = id
    BY <1>5 DEF Idle
  <1>7. next \in Request
    BY <1>2, <1>4, <1>5 DEF Idle, Request, Ops, Saving, Row, NoHash
  <1>8. RecordOK(next)
    BY <1>2, <1>4, <1>6 DEF RecordOK
  <1> QED BY <1>3, <1>5, <1>7, <1>8, BeginStep DEF BeginMove

LEMMA BeginMineOK ==
  ASSUME IInv, NEW r \in Requests, NEW op \in Ops, NEW id \in Ids, BeginMine(r, op, id)
  PROVE  IInv'
  <1>1. op \in {"name", "secure", "ask", "signdown"} /\ Born(id)
    BY LiveBorn DEF BeginMine
  <1>2. PICK new \in Emails \cup {NoEmail}, known \in Hashes \cup {NoHash} :
          /\ op = "ask" => new \in Emails
          /\ Start(r, [Idle EXCEPT !.op = op, !.pc = "admitted", !.id = id,
                                   !.new = new, !.secret = known])
    <2>1. PICK new \in IF op = "ask" THEN Emails ELSE {NoEmail},
               known \in IF op \in {"secure", "signdown"} THEN Minted ELSE {NoHash} :
            Start(r, [Idle EXCEPT !.op = op, !.pc = "admitted", !.id = id,
                                  !.new = new, !.secret = known])
      BY DEF BeginMine
    <2> QED BY <2>1 DEF Minted
  <1>3. PICK next : next = [Idle EXCEPT !.op = op, !.pc = "admitted", !.id = id,
                                        !.new = new, !.secret = known]
    OBVIOUS
  <1>4. next.op = op /\ next.pc = "admitted" /\ next.id = id /\ next.new = new
    BY <1>3 DEF Idle
  <1>5. next \in Request
    BY <1>3 DEF Idle, Request, Row
  <1>6. RecordOK(next)
    BY <1>1, <1>2, <1>4 DEF RecordOK
  <1> QED BY <1>2, <1>3, <1>5, <1>6, BeginStep DEF BeginMine

LEMMA BeginAdminOK ==
  ASSUME IInv, NEW r \in Requests, NEW op \in Ops, NEW id \in Ids, BeginAdmin(r, op, id)
  PROVE  IInv'
  <1>1. /\ op \in {"lock", "unlock", "verify", "unverify", "email", "password", "delete"}
        /\ Born(id)
    BY LiveBorn DEF BeginAdmin
  <1>2. PICK new \in Emails \cup {NoEmail} :
          /\ op = "email" => new \in Emails
          /\ Start(r, [Idle EXCEPT !.op = op, !.pc = "admitted", !.id = id,
                                   !.new = new, !.to = new])
    <2>1. PICK new \in IF op = "email" THEN Emails ELSE {NoEmail} :
            Start(r, [Idle EXCEPT !.op = op, !.pc = "admitted", !.id = id,
                                  !.new = new, !.to = new])
      BY DEF BeginAdmin
    <2> QED BY <2>1
  <1>3. PICK next : next = [Idle EXCEPT !.op = op, !.pc = "admitted", !.id = id,
                                        !.new = new, !.to = new]
    OBVIOUS
  <1>4. /\ next.op = op /\ next.pc = "admitted" /\ next.id = id
        /\ next.new = new /\ next.to = new
    BY <1>3 DEF Idle
  <1>5. next \in Request
    BY <1>3 DEF Idle, Request, Row
  <1>6. RecordOK(next)
    BY <1>1, <1>2, <1>4 DEF RecordOK
  <1> QED BY <1>2, <1>3, <1>5, <1>6, BeginStep DEF BeginAdmin

LEMMA BeginLoginOK ==
  ASSUME IInv, NEW r \in Requests, NEW e \in Emails, BeginLogin(r, e)
  PROVE  IInv'
  <1>1. PICK id \in At(e) :
          Start(r, [Idle EXCEPT !.op = "login", !.pc = "found", !.id = id,
                                !.row = users[id]])
    BY DEF BeginLogin
  <1>2. id \in Ids /\ Born(id) /\ RowOK(id, users[id]) /\ users[id] \in Row
    BY <1>1, LiveBorn DEF At
  <1>3. PICK row \in Row : row = users[id]
    BY <1>2
  <1>4. PICK next : next = [Idle EXCEPT !.op = "login", !.pc = "found", !.id = id,
                                        !.row = row]
    OBVIOUS
  <1>5. next.op = "login" /\ next.pc = "found" /\ next.id = id /\ next.row = row
    BY <1>4 DEF Idle
  <1>6. next \in Request
    BY <1>2, <1>4 DEF Idle, Request, Ops, NoHash
  <1>7. RecordOK(next)
    BY <1>2, <1>3, <1>5 DEF RecordOK, RowOK
  <1> QED BY <1>1, <1>3, <1>4, <1>6, <1>7, BeginStep DEF BeginLogin

\* A request that is answered without a change.
LEMMA AnswerStep ==
  ASSUME IInv, NEW r \in Requests, Go(r, Idle), UNCHANGED <<users, history>>,
         links \subseteq links', links' \subseteq Link,
         changes' \subseteq Change, \A c \in changes' : c.new = c.to,
         tokens' \subseteq Ids, \A id \in tokens' : Answered(id),
         \A id \in Live : Sponsors(requests[r], id) => Invited(id)' \/ id \in overrun
  PROVE  IInv'
  <1>1. PICK next : next = Idle
    OBVIOUS
  <1>2. next \in Request /\ RecordOK(next)
    BY <1>1, IdleFacts
  <1> QED BY <1>1, <1>2, QuietStep

LEMMA AskOK ==
  ASSUME IInv, NEW r \in Requests, Ask(r)
  PROVE  IInv'
  <1>1. requests[r].new \in Emails /\ ~(\E id \in Live : Sponsors(requests[r], id))
    BY DEF IInv, RecordOK, Ask, Is, Sponsors
  <1>2. PICK id : id = requests[r].id
    OBVIOUS
  <1>3. id \in Live => Mailed(id, requests[r].new) \in Change
    BY <1>1, LiveBorn DEF Mailed, Change
  <1>4. Mailed(id, requests[r].new).new = Mailed(id, requests[r].new).to
    BY DEF Mailed
  <1>5. changes' \subseteq Change /\ \A c \in changes' : c.new = c.to
    BY <1>2, <1>3, <1>4 DEF Ask, IInv, TypeOK
  <1> QED BY <1>1, <1>5, AnswerStep DEF Ask, IInv, TypeOK

\* A request that goes on with its locals changed, or is answered, and sponsors
\* nobody.
LEMMA GoOn ==
  ASSUME IInv, NEW r \in Requests, NEW next \in Request, Go(r, next), RecordOK(next),
         UNCHANGED <<users, links, changes, tokens, history>>,
         \A id \in Live : Sponsors(requests[r], id) => Sponsors(next, id)
  PROVE  IInv'
  BY QuietStep DEF IInv, TypeOK

LEMMA PermitOK ==
  ASSUME IInv, NEW r \in Requests, Permit(r)
  PROVE  IInv'
  <1>1. PICK q \in Request : q = requests[r]
    BY DEF IInv, TypeOK
  <1>2. q.pc = "checked" /\ RecordOK(q) /\ \A id : ~Sponsors(q, id)
    BY <1>1 DEF IInv, Permit, Sponsors
  <1>3. CASE Go(r, Idle)
    BY <1>1, <1>2, <1>3, IdleFacts, GoOn DEF Permit
  <1>4. ASSUME NEW id \in At(q.email), q.op = "confirm",
               Go(r, [q EXCEPT !.pc = "permitted", !.id = id])
        PROVE  IInv'
    <2>1. id \in Ids /\ Born(id) /\ q.email \in Emails
      BY <1>2, <1>4, LiveBorn DEF At, RecordOK
    <2>2. PICK next : next = [q EXCEPT !.pc = "permitted", !.id = id]
      OBVIOUS
    <2>3. /\ next \in Request /\ next.pc = "permitted" /\ next.id = id
          /\ next.op = "confirm" /\ next.email = q.email
      BY <1>4, <2>1, <2>2 DEF Request
    <2>4. RecordOK(next)
      BY <2>1, <2>3 DEF RecordOK
    <2> QED BY <1>1, <1>2, <1>4, <2>2, <2>3, <2>4, GoOn DEF Permit
  <1>5. ASSUME q.op # "confirm", Go(r, [q EXCEPT !.pc = "admitted"])
        PROVE  IInv'
    <2>1. PICK next : next = [q EXCEPT !.pc = "admitted"]
      OBVIOUS
    <2>2. /\ next \in Request /\ next.pc = "admitted" /\ next.id = q.id
          /\ next.op = q.op /\ next.email = q.email /\ next.new = q.new
          /\ next.to = q.to /\ next.secret = q.secret
      BY <2>1 DEF Request
    <2>3. RecordOK(next)
      BY <1>2, <1>5, <2>2 DEF RecordOK
    <2> QED BY <1>1, <1>2, <1>5, <2>1, <2>2, <2>3, GoOn DEF Permit
  <1>6. \/ Go(r, Idle)
        \/ \E id \in At(q.email) :
              q.op = "confirm" /\ Go(r, [q EXCEPT !.pc = "permitted", !.id = id])
        \/ q.op # "confirm" /\ Go(r, [q EXCEPT !.pc = "admitted"])
    BY <1>1 DEF Permit
  <1> QED BY <1>3, <1>4, <1>5, <1>6

LEMMA ReachOK ==
  ASSUME IInv, NEW r \in Requests, Reach(r)
  PROVE  IInv'
  <1>1. PICK q \in Request : q = requests[r]
    BY DEF IInv, TypeOK
  <1>2. q.pc = "permitted" /\ RecordOK(q) /\ \A id : ~Sponsors(q, id)
    BY <1>1 DEF IInv, Reach, Sponsors
  <1>3. CASE Go(r, Idle)
    BY <1>1, <1>2, <1>3, IdleFacts, GoOn DEF Reach
  <1>4. ASSUME q.id \in At(q.email), Go(r, [q EXCEPT !.pc = "admitted"])
        PROVE  IInv'
    <2>1. PICK next : next = [q EXCEPT !.pc = "admitted"]
      OBVIOUS
    <2>2. /\ next \in Request /\ next.pc = "admitted" /\ next.id = q.id
          /\ next.op = q.op /\ next.email = q.email /\ next.new = q.new
          /\ next.to = q.to /\ next.secret = q.secret
      BY <2>1 DEF Request
    <2>3. users[q.id].email = q.email
      BY <1>4 DEF At
    <2>4. RecordOK(next)
      BY <1>2, <2>2, <2>3 DEF RecordOK, Keeps
    <2> QED BY <1>1, <1>2, <1>4, <2>1, <2>2, <2>4, GoOn DEF Reach
  <1>5. \/ Go(r, Idle)
        \/ q.id \in At(q.email) /\ Go(r, [q EXCEPT !.pc = "admitted"])
    <2>1. CASE q.id \in At(q.email) /\ ~users[q.id].verified
      BY <1>1, <2>1, Zenon DEF Reach
    <2>2. CASE ~(q.id \in At(q.email) /\ ~users[q.id].verified)
      BY <1>1, <2>2, Zenon DEF Reach
    <2> QED BY <2>1, <2>2
  <1> QED BY <1>3, <1>4, <1>5

LEMMA FindOK ==
  ASSUME IInv, NEW r \in Requests, Find(r)
  PROVE  IInv'
  <1>1. PICK q \in Request : q = requests[r]
    BY DEF IInv, TypeOK
  <1>2. q.pc = "admitted" /\ RecordOK(q)
    BY <1>1 DEF IInv, Find
  <1>3. ASSUME q.id \in Live, Go(r, [q EXCEPT !.pc = "found", !.row = users[q.id]])
        PROVE  IInv'
    <2>1. PICK row \in Row : row = users[q.id] /\ RowOK(q.id, row) /\ q.id \in Ids
      BY <1>3, LiveBorn
    <2>2. PICK next : next = [q EXCEPT !.pc = "found", !.row = row]
      OBVIOUS
    <2>3. /\ next \in Request /\ next.pc = "found" /\ next.row = row /\ next.id = q.id
          /\ next.op = q.op /\ next.email = q.email /\ next.new = q.new
          /\ next.to = q.to /\ next.secret = q.secret
      BY <2>1, <2>2 DEF Request
    <2>4. RecordOK(next)
      BY <1>2, <1>3, <2>1, <2>3 DEF RecordOK, Keeps
    <2>5. \A id : Sponsors(q, id) => Sponsors(next, id)
      BY <1>2, <2>3 DEF Sponsors
    <2> QED BY <1>1, <1>3, <2>1, <2>2, <2>3, <2>4, <2>5, GoOn DEF Find
  <1>4. ASSUME ~(q.id \in Live /\ Knows(r, users[q.id])), Go(r, Idle)
        PROVE  IInv'
    <2>1. \A id \in Live : ~Sponsors(q, id)
      BY <1>1, <1>2, <1>4 DEF Sponsors, Knows
    <2> QED BY <1>1, <1>4, <2>1, IdleFacts, GoOn DEF Find
  <1> QED BY <1>1, <1>3, <1>4 DEF Find

LEMMA LoginOK ==
  ASSUME IInv, NEW r \in Requests, Login(r)
  PROVE  IInv'
  <1>1. PICK q \in Request : q = requests[r]
    BY DEF IInv, TypeOK
  <1>2. q.op = "login" /\ q.pc = "found" /\ RecordOK(q) /\ \A id : ~Sponsors(q, id)
    BY <1>1 DEF IInv, Login, Is, Sponsors
  <1>3. q.id \in Ids /\ (Welcomed(q.row) => Answered(q.id))
    BY <1>2 DEF RecordOK, RowOK, Welcomed
  <1>4. tokens' \subseteq Ids /\ \A id \in tokens' : Answered(id)
    BY <1>1, <1>3 DEF Login, IInv, TypeOK
  <1> QED BY <1>1, <1>2, <1>4, AnswerStep DEF Login, IInv, TypeOK

\* A link is mailed to whoever asks for one; no request is under way.
LEMMA ForgotOK ==
  ASSUME IInv, NEW e \in Emails, Forgot(e)
  PROVE  IInv'
  <1>1. PICK id \in At(e) : links' = links \cup {[sub |-> e, secret |-> users[id].password]}
    BY DEF Forgot
  <1>2. links \subseteq links' /\ links' \subseteq Link
    <2>1. [sub |-> e, secret |-> users[id].password] \in Link
      BY LiveBorn DEF At, Link
    <2> QED BY <1>1, <2>1 DEF IInv, TypeOK
  <1>3. begun' \in 0 .. MaxBegun
    BY BoundsAreNumbers DEF Forgot, IInv, TypeOK
  <1>4. /\ UNCHANGED <<users, owner, proved, shut, unmailed, removed, crashed, overrun>>
        /\ UNCHANGED <<changes, tokens, requests>>
    BY DEF Forgot, history
  <1>5. TypeOK'
    BY <1>2, <1>3, <1>4 DEF IInv, TypeOK
  <1>6. ASSUME NEW j \in Live' PROVE AccountOK(j)'
    <2>1. j \in Live /\ AccountOK(j)
      BY <1>4 DEF IInv, Live
    <2>2. RowOK(j, users[j])'
      BY <1>4, <2>1 DEF AccountOK, RowOK, Answered
    <2>3. Invited(j) => Invited(j)'
      BY <1>2, <1>4 DEF Invited, Answered
    <2>4. ASSUME j \notin overrun' PROVE Faithful(j)'
      BY <1>4, <2>1, <2>3, <2>4 DEF AccountOK, Faithful, Latest, Sponsors
    <2> QED BY <2>2, <2>4 DEF AccountOK
  <1>7. \A r \in Requests : RecordOK(requests[r])'
    BY <1>4 DEF IInv, RecordOK, RowOK, Born, Keeps, Answered, Live
  <1> QED BY <1>4, <1>5, <1>6, <1>7 DEF IInv, Unique, Live, Born, Answered

LEMMA CrashOK ==
  ASSUME IInv, Crash
  PROVE  IInv'
  <1>1. /\ UNCHANGED <<users, links, owner, proved, shut, unmailed, removed, overrun>>
        /\ UNCHANGED <<changes, tokens, begun>>
        /\ requests' = [r \in Requests |-> Idle] /\ crashed' = TRUE
    BY DEF Crash
  <1>2. TypeOK'
    BY <1>1, IdleFacts DEF IInv, TypeOK
  <1>3. ASSUME NEW j \in Live' PROVE AccountOK(j)'
    <2>1. j \in Live /\ AccountOK(j)
      BY <1>1 DEF IInv, Live
    <2> QED BY <1>1, <2>1 DEF AccountOK, RowOK, Answered, Faithful, Latest
  <1>4. \A r \in Requests : RecordOK(requests[r])'
    <2>1. PICK q : q = Idle
      OBVIOUS
    <2>2. RecordOK(q)'
      BY <2>1 DEF Idle, RecordOK
    <2> QED BY <1>1, <2>1, <2>2 DEF RecordOK, RowOK, Born, Keeps, Answered, Live
  <1> QED BY <1>1, <1>2, <1>3, <1>4 DEF IInv, Unique, Live, Born, Answered

-----------------------------------------------------------------------------
(* Steps that write a row.                                                 *)

\* A new password has an owner of its own, and comes after all there are.
LEMMA NewHash ==
  ASSUME TypeOK, NEW h \in Hashes, NextHash(h), NEW id \in Ids,
         owner' = [owner EXCEPT ![h] = id]
  PROVE  /\ owner' \in [Hashes -> Ids \cup {NoId}] /\ owner'[h] = id
         /\ \A g \in Hashes : owner[g] # NoId => owner'[g] = owner[g]
         /\ \A g \in Hashes : g > h => owner'[g] = NoId
         /\ \A j \in Ids \ {id} : \A g \in Hashes : owner'[g] = j => owner[g] = j
  <1>1. \A g \in Hashes : g \in Minted <=> g < h
    BY BoundsAreNumbers DEF NextHash, Hashes
  <1>2. \A g \in Hashes : g # h => owner'[g] = owner[g]
    BY DEF TypeOK
  <1>3. owner'[h] = id /\ owner[h] = NoId
    BY <1>1, BoundsAreNumbers DEF TypeOK, Minted, Hashes
  <1>4. \A g \in Hashes : g > h => owner[g] = NoId
    BY <1>1, BoundsAreNumbers DEF Minted, Hashes
  <1>5. \A g \in Hashes : g > h => g # h
    BY BoundsAreNumbers DEF Hashes
  <1> QED BY <1>2, <1>3, <1>4, <1>5 DEF TypeOK

\* The row is deleted, by the request that answers for it or any other.
LEMMA RemoveStep ==
  ASSUME IInv, NEW r \in Requests, Go(r, Idle), NEW id \in Ids, Born(id),
         users' = [users EXCEPT ![id] = Gone], removed' = removed \cup {id},
         links' = links,
         UNCHANGED <<changes, tokens, owner, proved, shut, unmailed, crashed, overrun>>,
         \A j \in Live \ {id} : ~Sponsors(requests[r], j)
  PROVE  IInv'
  <1>1. PICK next \in Request : next = Idle /\ RecordOK(next) /\ next.id = NoId
    BY IdleFacts
  <1>2. \A j \in Ids \ {id} : users'[j] = users[j]
    BY DEF IInv, TypeOK
  <1>3. users'[id] = Gone
    BY DEF IInv, TypeOK
  <1>4. \A j \in Live' : j \in Live \ {id} /\ users'[j] = users[j] /\ j \in Ids
    BY <1>2, <1>3 DEF Live
  <1>5. Kept
    BY <1>4 DEF Kept
  <1>6. TypeOK'
    <2>1. users' \in [Ids -> Row \cup {Gone}]
      BY DEF IInv, TypeOK
    <2> QED BY <1>1, <2>1, NextRecord DEF IInv, TypeOK
  <1>7. ASSUME NEW j \in Live' PROVE AccountOK(j)'
    <2>1. j \in Live /\ users'[j] = users[j] /\ AccountOK(j) /\ j # id
      BY <1>4 DEF IInv
    <2> QED BY <1>1, <1>4, <1>5, <2>1, AccountKept
  <1>8. Unique'
    BY <1>4 DEF IInv, Unique
  <1>9. \A j \in (shut \cup removed)' : Born(j)
    BY DEF IInv
  <1>10. \A j \in tokens' : Answered(j)'
    BY DEF IInv, Answered
  <1>11. RecordOK(next)'
    BY <1>1, <1>5, RecordKept
  <1> QED BY <1>1, <1>5, <1>6, <1>7, <1>8, <1>9, <1>10, <1>11, Carry DEF IInv

LEMMA RemoveOK ==
  ASSUME IInv, NEW r \in Requests, Remove(r)
  PROVE  IInv'
  <1>1. PICK q \in Request : q = requests[r]
    BY DEF IInv, TypeOK
  <1>2. RecordOK(q) /\ q.pc = "found" /\ q.op \in {"delete", "signdown"}
    BY <1>1 DEF IInv, Remove
  <1>3. q.id \in Ids /\ Born(q.id)
    BY <1>2, NullsAreNoValues DEF RecordOK
  <1>4. \A j : ~Sponsors(q, j)
    BY <1>2 DEF Sponsors
  <1> QED BY <1>1, <1>3, <1>4, RemoveStep DEF Remove

LEMMA WelcomeOK ==
  ASSUME IInv, NEW r \in Requests, Welcome(r)
  PROVE  IInv'
  <1>1. PICK q \in Request : q = requests[r]
    BY DEF IInv, TypeOK
  <1>2. /\ RecordOK(q) /\ q.pc = "stored" /\ q.op = "register"
        /\ UNCHANGED <<changes, tokens, owner, proved, shut, unmailed, crashed, overrun>>
        /\ Go(r, Idle)
    BY <1>1 DEF IInv, Welcome, Is
  <1>3. /\ q.id \in Ids /\ Born(q.id) /\ q.email \in Emails
        /\ q.secret \in Hashes /\ owner[q.secret] = q.id
    BY <1>2, NullsAreNoValues DEF RecordOK
  <1>4. \A j : Sponsors(q, j) => j = q.id
    BY DEF Sponsors
  <1>5. ASSUME links' = links \cup {[sub |-> q.email, secret |-> q.secret]},
               UNCHANGED <<users, removed>>
        PROVE  IInv'
    <2>1. PICK link \in Link : link = [sub |-> q.email, secret |-> q.secret]
      BY <1>3 DEF Link
    <2>2. link.secret = q.secret
      BY <2>1
    <2>3. links \subseteq links' /\ links' \subseteq Link /\ link \in links'
      BY <1>5, <2>1 DEF IInv, TypeOK
    <2>4. Invited(q.id)'
      BY <1>2, <1>3, <2>2, <2>3 DEF Invited
    <2>5. \A j \in Live : Sponsors(requests[r], j) => Invited(j)'
      BY <1>1, <1>4, <2>4
    <2> QED BY <1>2, <1>5, <2>3, <2>5, AnswerStep DEF IInv, TypeOK, history
  <1>6. ASSUME users' = [users EXCEPT ![q.id] = Gone], removed' = removed \cup {q.id},
               UNCHANGED links
        PROVE  IInv'
    BY <1>1, <1>2, <1>3, <1>4, <1>6, RemoveStep
  <1> QED BY <1>1, <1>5, <1>6 DEF Welcome

LEMMA GreetOK ==
  ASSUME IInv, NEW r \in Requests, Greet(r)
  PROVE  IInv'
  <1>1. PICK q \in Request : q = requests[r]
    BY DEF IInv, TypeOK
  <1>2. /\ RecordOK(q) /\ q.pc = "stored" /\ q.op = "onboard" /\ Go(r, Idle)
        /\ UNCHANGED <<users, changes, tokens, owner, proved, shut, removed, crashed,
                       overrun>>
    BY <1>1 DEF IInv, Greet, Is
  <1>3. q.id \in Ids /\ \A j : Sponsors(q, j) => j = q.id
    BY <1>2 DEF RecordOK, Sponsors
  <1>4. ASSUME q.id \in Live, UNCHANGED unmailed,
               links' = links \cup {[sub |-> users[q.id].email,
                                     secret |-> users[q.id].password]}
        PROVE  IInv'
    <2>1. RowOK(q.id, users[q.id])
      BY <1>4 DEF IInv, AccountOK
    <2>2. PICK link \in Link : /\ link = [sub |-> users[q.id].email,
                                          secret |-> users[q.id].password]
                               /\ owner[link.secret] = q.id
      <3>1. PICK e \in Emails, h \in Hashes :
              e = users[q.id].email /\ h = users[q.id].password /\ owner[h] = q.id
        BY <2>1 DEF RowOK, Row
      <3>2. [sub |-> e, secret |-> h] \in Link /\ [sub |-> e, secret |-> h].secret = h
        BY DEF Link
      <3> QED BY <3>1, <3>2
    <2>3. links \subseteq links' /\ links' \subseteq Link /\ link \in links'
      BY <1>4, <2>2 DEF IInv, TypeOK
    <2>4. Invited(q.id)'
      BY <1>2, <2>2, <2>3 DEF Invited
    <2>5. \A j \in Live : Sponsors(requests[r], j) => Invited(j)'
      BY <1>1, <1>3, <2>4
    <2> QED BY <1>2, <1>4, <2>3, <2>5, AnswerStep DEF IInv, TypeOK, history
  <1>5. ASSUME unmailed' = unmailed \cup {q.id}, UNCHANGED links
        PROVE  IInv'
    <2>1. \A j \in Live : Sponsors(requests[r], j) => j \in unmailed'
      BY <1>1, <1>3, <1>5
    <2>2. unmailed' \subseteq Ids
      BY <1>3, <1>5 DEF IInv, TypeOK
    <2>3. PICK next : next = Idle
      OBVIOUS
    <2>4. next \in Request /\ RecordOK(next) /\ Go(r, next)
      BY <1>2, <2>3, IdleFacts
    <2>5. /\ links \subseteq links' /\ links' \subseteq Link
          /\ changes' \subseteq Change /\ \A c \in changes' : c.new = c.to
          /\ tokens' \subseteq Ids /\ \A j \in tokens' : Answered(j)
          /\ unmailed \subseteq unmailed'
      BY <1>2, <1>5 DEF IInv, TypeOK
    <2>6. \A j \in Live : Sponsors(requests[r], j) =>
              Sponsors(next, j) \/ Invited(j)' \/ j \in overrun \cup unmailed'
      BY <2>1
    <2> QED BY ONLY IInv, r \in Requests, <1>2, <2>2, <2>4, <2>5, <2>6, TellStep
  <1> QED BY <1>1, <1>4, <1>5 DEF Greet

\* The row of a new account.
LEMMA InsertStep ==
  ASSUME IInv, NEW r \in Requests, requests[r].pc = "free",
         NEW e \in Emails, At(e) = {}, NEW id \in Unborn, NEW h \in Hashes, NextHash(h),
         users' = [users EXCEPT ![id] = NewRow(e, h)], owner' = [owner EXCEPT ![h] = id],
         NEW next \in Request, Go(r, next), RecordOK(next)',
         Sponsors(next, id) \/ id \in unmailed',
         unmailed \subseteq unmailed', unmailed' \subseteq Ids,
         UNCHANGED <<links, changes, tokens, proved, shut, removed, crashed, overrun>>
  PROVE  IInv'
  <1>1. id \in Ids /\ ~Born(id) /\ users[id] = Gone
    <2>1. id \in Ids /\ ~Born(id)
      BY DEF Unborn, Born
    <2> QED BY <2>1, LiveBorn DEF Live
  <1>2. /\ owner' \in [Hashes -> Ids \cup {NoId}] /\ owner'[h] = id
        /\ \A g \in Hashes : owner[g] # NoId => owner'[g] = owner[g]
        /\ \A g \in Hashes : g > h => owner'[g] = NoId
        /\ \A j \in Ids \ {id} : \A g \in Hashes : owner'[g] = j => owner[g] = j
    BY <1>1, NewHash DEF IInv
  <1>3. PICK row \in Row : /\ row = NewRow(e, h) /\ row.email = e /\ row.password = h
                           /\ ~row.verified /\ ~row.locked
    <2>1. NewRow(e, h) \in Row
      BY DEF NewRow, Row
    <2>2. /\ NewRow(e, h).email = e /\ NewRow(e, h).password = h
          /\ ~NewRow(e, h).verified /\ ~NewRow(e, h).locked
      BY DEF NewRow
    <2> QED BY <2>1, <2>2
  <1>4. users'[id] = row /\ \A j \in Ids \ {id} : users'[j] = users[j]
    BY <1>1, <1>3 DEF IInv, TypeOK
  <1>5. \A j \in Live' : j \in Ids /\ (j # id => j \in Live /\ users'[j] = users[j])
    BY <1>4 DEF Live
  <1>6. Kept
    BY <1>1, <1>2, <1>5 DEF Kept
  <1>7. TypeOK'
    <2>1. users' \in [Ids -> Row \cup {Gone}]
      BY <1>3 DEF IInv, TypeOK
    <2> QED BY <1>2, <2>1, NextRecord DEF IInv, TypeOK
  <1>8. ASSUME NEW j \in Live' PROVE AccountOK(j)'
    <2>1. CASE j # id
      <3>1. j \in Live /\ users'[j] = users[j] /\ AccountOK(j) /\ j \in Ids
        BY <1>5, <2>1 DEF IInv
      <3>2. \A g \in Hashes : owner'[g] = j => owner[g] = j
        BY <1>2, <2>1, <3>1
      <3>3. ~Sponsors(requests[r], j)
        BY DEF Sponsors
      <3> QED BY <1>6, <3>1, <3>2, <3>3, AccountKept
    <2>2. CASE j = id
      <3>1. RowOK(id, row)'
        BY <1>2, <1>3 DEF RowOK
      <3>2. id \notin shut' /\ id \notin removed'
        BY <1>1 DEF IInv
      <3>3. Latest(row.password)'
        BY <1>1, <1>2, <1>3, NullsAreNoValues DEF Latest
      <3>4. id \in unmailed' \/ \E s \in Requests : Sponsors(requests[s], id)'
        BY NextRecord DEF IInv, Sponsors
      <3>5. Faithful(id)'
        BY <1>3, <1>4, <3>2, <3>3, <3>4 DEF Faithful, Latest
      <3> QED BY <1>4, <2>2, <3>1, <3>5 DEF AccountOK, RowOK, Answered
    <2> QED BY <2>1, <2>2
  <1>9. Unique'
    <2>1. \A j \in Live : users[j].email # e
      BY DEF At
    <2> QED BY <1>3, <1>4, <1>5, <2>1 DEF IInv, Unique
  <1>10. \A j \in (shut \cup removed)' : Born(j)
    BY DEF IInv
  <1>11. \A j \in tokens' : Answered(j)'
    BY DEF IInv, Answered
  <1> QED BY <1>6, <1>7, <1>8, <1>9, <1>10, <1>11, Carry DEF IInv

LEMMA InsertOK ==
  ASSUME IInv, NEW r \in Requests, Insert(r)
  PROVE  IInv'
  <1>1. PICK q \in Request : q = requests[r]
    BY DEF IInv, TypeOK
  <1>2. /\ RecordOK(q) /\ q.pc = "free" /\ \A j : ~Sponsors(q, j)
        /\ UNCHANGED <<links, changes, tokens, proved, shut, removed, crashed, overrun>>
    BY <1>1 DEF IInv, Insert, Sponsors
  <1>3. q.email \in Emails /\ q.op \in {"register", "create", "add", "onboard"}
    BY <1>2 DEF RecordOK
  <1>4. CASE At(q.email) # {}
    <2>1. Go(r, Idle) /\ UNCHANGED <<users, owner, unmailed>>
      BY <1>1, <1>4 DEF Insert
    <2> QED BY <1>1, <1>2, <2>1, AnswerStep DEF IInv, TypeOK, history
  <1>5. CASE At(q.email) = {}
    <2>1. PICK id \in Unborn, h \in Hashes :
            /\ NextHash(h)
            /\ users' = [users EXCEPT ![id] = NewRow(q.email, h)]
            /\ owner' = [owner EXCEPT ![h] = id]
            /\ unmailed' = IF q.op = "add" THEN unmailed \cup {id} ELSE unmailed
            /\ Go(r, CASE q.op = "create" ->
                             [Idle EXCEPT !.op = "verify", !.pc = "admitted", !.id = id]
                       [] q.op = "add" -> Idle
                       [] OTHER -> [q EXCEPT !.pc = "stored", !.id = id, !.secret = h])
      BY <1>1, <1>5, Zenon DEF Insert
    <2>2. /\ id \in Ids /\ owner'[h] = id
          /\ unmailed \subseteq unmailed' /\ unmailed' \subseteq Ids
      BY <2>1 DEF Unborn, IInv, TypeOK
    <2>3. CASE q.op = "create"
      <3>1. PICK next : next = [Idle EXCEPT !.op = "verify", !.pc = "admitted", !.id = id]
        OBVIOUS
      <3>2. next.op = "verify" /\ next.pc = "admitted" /\ next.id = id
        BY <3>1 DEF Idle
      <3>3. next \in Request
        <4>1. "verify" \in Ops
          BY DEF Ops, Saving
        <4> QED BY <2>2, <3>1, <4>1 DEF Idle, Request
      <3>4. RecordOK(next)' /\ Sponsors(next, id)
        BY <2>2, <3>2 DEF RecordOK, Born, Sponsors
      <3> QED BY <1>1, <1>2, <1>3, <1>5, <2>1, <2>2, <2>3, <3>1, <3>3, <3>4, InsertStep
    <2>4. CASE q.op \in {"register", "onboard"}
      <3>1. PICK next : next = [q EXCEPT !.pc = "stored", !.id = id, !.secret = h]
        OBVIOUS
      <3>2. /\ next \in Request /\ next.op = q.op /\ next.pc = "stored"
            /\ next.id = id /\ next.secret = h /\ next.email = q.email
        BY <2>2, <2>4, <3>1 DEF Request
      <3>3. RecordOK(next)' /\ Sponsors(next, id)
        BY <1>3, <2>2, <2>4, <3>2 DEF RecordOK, Born, Sponsors
      <3> QED BY <1>1, <1>2, <1>3, <1>5, <2>1, <2>2, <2>4, <3>1, <3>2, <3>3, InsertStep
    <2>5. CASE q.op = "add"
      <3>1. id \in unmailed' /\ Go(r, Idle)
        BY <2>1, <2>5
      <3>2. RecordOK(Idle)' /\ Idle \in Request
        BY IdleFacts DEF RecordOK, Idle
      <3> QED BY <1>1, <1>2, <1>3, <1>5, <2>1, <2>2, <3>1, <3>2, InsertStep
    <2> QED BY <1>3, <2>3, <2>4, <2>5
  <1> QED BY <1>4, <1>5

\* The entity: what the operation leaves of the row and what it changes.
LEMMA EditedFacts ==
  ASSUME TypeOK, NEW r \in Requests, NEW q \in Request, q = requests[r], q.row \in Row,
         NEW h \in Hashes, q.op \in {"email", "move"} => q.new \in Emails
  PROVE  /\ Edited(r, h) \in Row
         /\ Edited(r, h).verified =>
               q.op # "unverify" /\ (q.row.verified \/ q.op \in {"verify", "confirm"})
         /\ Edited(r, h).locked <=> q.op # "unlock" /\ (q.row.locked \/ q.op = "lock")
         /\ Edited(r, h).email = IF q.op \in {"email", "move"} THEN q.new ELSE q.row.email
         /\ Edited(r, h).password = IF q.op \in Rehash THEN h ELSE q.row.password
  <1>1. PICK row \in Row : row = q.row
    OBVIOUS
  <1> DEFINE locked == (row.locked \/ q.op = "lock") /\ q.op # "unlock"
             verified == (row.verified \/ q.op \in {"verify", "confirm"}) /\ q.op # "unverify"
             email == IF q.op \in {"email", "move"} THEN q.new ELSE row.email
             password == IF q.op \in Rehash THEN h ELSE row.password
             entity == [row EXCEPT !.locked = locked, !.verified = verified,
                                   !.email = email, !.password = password]
  <1>2. Edited(r, h) = entity
    BY <1>1, Zenon DEF Edited
  <1>3. locked \in BOOLEAN /\ verified \in BOOLEAN /\ email \in Emails /\ password \in Hashes
    BY <1>1 DEF Row
  <1>4. /\ entity \in Row /\ entity.locked = locked /\ entity.verified = verified
        /\ entity.email = email /\ entity.password = password
    <2> HIDE DEF locked, verified, email, password
    <2> QED BY <1>3 DEF Row
  <1> HIDE DEF entity
  <1> QED BY <1>1, <1>2, <1>4

\* What a completed save vouches for, and for whom.
LEMMA VouchedFacts ==
  ASSUME TypeOK, NEW r \in Requests, NEW q \in Request, q = requests[r], q.id \in Ids,
         q.row \in Row, q.op = "confirm" => q.email \in Emails,
         q.op \in {"email", "move"} => q.new \in Emails /\ q.to = q.new,
         proved' = proved \cup Vouched(r)
  PROVE  /\ proved \subseteq proved' /\ proved' \subseteq Ids \X Emails
         /\ q.op = "confirm" => <<q.id, q.email>> \in proved'
         /\ q.op \in {"email", "move"} => <<q.id, q.new>> \in proved'
         /\ q.op = "verify" => <<q.id, q.row.email>> \in proved'
  <1>1. q.row.email \in Emails
    BY DEF Row
  <1>2. q.op = "confirm" => Vouched(r) = {<<q.id, q.email>>}
    BY DEF Vouched
  <1>3. q.op \in {"email", "move"} => Vouched(r) = {<<q.id, q.new>>}
    BY DEF Vouched
  <1>4. q.op = "verify" => Vouched(r) = {<<q.id, q.row.email>>}
    BY DEF Vouched
  <1>5. q.op \notin {"confirm", "email", "move", "verify"} => Vouched(r) = {}
    BY DEF Vouched
  <1> QED BY <1>1, <1>2, <1>3, <1>4, <1>5 DEF TypeOK

\* save writes the entity, over the row that was read or over a later one.
LEMMA SaveStep ==
  ASSUME IInv, NEW r \in Requests, NEW q \in Request, q = requests[r],
         q.pc = "found", q.op \in Saving, NEW h \in Hashes,
         q.op \in Rehash => NextHash(h), Free(r, Edited(r, h).email), Go(r, Idle),
         users' = [users EXCEPT ![q.id] = Edited(r, h)],
         owner' = IF q.op \in Rehash THEN [owner EXCEPT ![h] = q.id] ELSE owner,
         proved' = proved \cup Vouched(r),
         shut' = CASE q.op = "lock" -> shut \cup {q.id}
                   [] q.op = "unlock" -> shut \ {q.id}
                   [] OTHER -> shut,
         overrun' = IF users[q.id] = q.row THEN overrun ELSE overrun \cup {q.id},
         UNCHANGED <<links, changes, tokens, unmailed, removed, crashed>>
  PROVE  IInv'
  <1> DEFINE id == q.id
             row == q.row
  <1>1. RecordOK(q) /\ TypeOK
    BY DEF IInv
  <1>2. /\ id \in Ids /\ Born(id) /\ RowOK(id, row) /\ row \in Row
        /\ row.password \in Hashes /\ row.email \in Emails
    <2>1. id \in Ids /\ RowOK(id, row)
      BY <1>1 DEF RecordOK
    <2> QED BY <2>1 DEF RowOK, Born, Row
  <1>3. /\ q.op = "confirm" => q.email \in Emails
        /\ q.op \in {"email", "move"} => q.new \in Emails /\ q.to = q.new
    BY <1>1 DEF RecordOK
  <1>4. PICK entity \in Row : entity = Edited(r, h)
    BY <1>1, <1>2, <1>3, EditedFacts
  <1>5. /\ entity.verified =>
              q.op # "unverify" /\ (row.verified \/ q.op \in {"verify", "confirm"})
        /\ entity.locked <=> q.op # "unlock" /\ (row.locked \/ q.op = "lock")
        /\ entity.email = IF q.op \in {"email", "move"} THEN q.new ELSE row.email
        /\ entity.password = IF q.op \in Rehash THEN h ELSE row.password
    BY <1>1, <1>2, <1>3, <1>4, EditedFacts
  <1>6. /\ owner' \in [Hashes -> Ids \cup {NoId}] /\ owner'[entity.password] = id
        /\ \A g \in Hashes : owner[g] # NoId => owner'[g] = owner[g]
        /\ \A j \in Ids \ {id} : \A g \in Hashes : owner'[g] = j => owner[g] = j
        /\ q.op \in Rehash => \A g \in Hashes : g > h => owner'[g] = NoId
        /\ q.op \notin Rehash => owner' = owner
    <2>1. CASE q.op \in Rehash
      <3>1. NextHash(h) /\ owner' = [owner EXCEPT ![h] = id] /\ entity.password = h
        BY <1>5, <2>1
      <3>2. /\ owner' \in [Hashes -> Ids \cup {NoId}] /\ owner'[h] = id
            /\ \A g \in Hashes : owner[g] # NoId => owner'[g] = owner[g]
            /\ \A g \in Hashes : g > h => owner'[g] = NoId
            /\ \A j \in Ids \ {id} : \A g \in Hashes : owner'[g] = j => owner[g] = j
        BY ONLY <1>1, <1>2, <3>1, h \in Hashes, NewHash
      <3> QED BY <2>1, <3>1, <3>2
    <2>2. CASE q.op \notin Rehash
      <3>1. owner' = owner /\ entity.password = row.password
        BY <1>5, <2>2
      <3> QED BY <1>1, <1>2, <2>2, <3>1 DEF RowOK, TypeOK
    <2> QED BY <2>1, <2>2
  <1>7. /\ proved \subseteq proved' /\ proved' \subseteq Ids \X Emails
        /\ q.op = "confirm" => <<id, q.email>> \in proved'
        /\ q.op \in {"email", "move"} => <<id, q.new>> \in proved'
        /\ q.op = "verify" => <<id, row.email>> \in proved'
    BY <1>1, <1>2, <1>3, VouchedFacts
  <1>8. /\ shut' \subseteq Ids /\ \A j \in Ids \ {id} : j \in shut' <=> j \in shut
        /\ id \in shut' <=> q.op # "unlock" /\ (id \in shut \/ q.op = "lock")
    <2>1. CASE q.op = "lock"
      BY <1>1, <1>2, <2>1 DEF TypeOK
    <2>2. CASE q.op = "unlock"
      BY <1>1, <1>2, <2>2 DEF TypeOK
    <2>3. CASE q.op \notin {"lock", "unlock"}
      BY <1>1, <1>2, <2>3 DEF TypeOK
    <2> QED BY <2>1, <2>2, <2>3
  <1>9. /\ overrun \subseteq overrun' /\ overrun' \subseteq Ids
        /\ \/ id \in overrun'
           \/ users[id] = row /\ id \in Live /\ id \notin overrun
    BY <1>1, <1>2, GoneIsNoRow DEF TypeOK, Live
  <1>10. users'[id] = entity /\ \A j \in Ids \ {id} : users'[j] = users[j]
    BY <1>1, <1>2, <1>4 DEF TypeOK
  <1>11. \A j \in Live' : j \in Ids /\ (j # id => j \in Live /\ users'[j] = users[j])
    BY <1>10 DEF Live
  <1> HIDE DEF id, row
  <1>12. Kept
    <2>1. ASSUME NEW j \in Live'
          PROVE  \/ j \in overrun'
                 \/ j \in Live /\ \/ users'[j].email = users[j].email
                                  \/ <<j, users'[j].email>> \in proved'
      <3>1. CASE j = id
        BY <1>5, <1>7, <1>9, <1>10, <3>1 DEF id, row
      <3>2. CASE j # id
        BY <1>11, <3>2
      <3> QED BY <3>1, <3>2
    <2>2. unmailed \subseteq unmailed' /\ links \subseteq links'
      OBVIOUS
    <2> QED BY <1>6, <1>7, <1>9, <2>1, <2>2 DEF Kept
  <1>13. PICK next \in Request : next = Idle /\ RecordOK(next) /\ next.id = NoId
    BY IdleFacts
  <1>14. TypeOK'
    <2>1. users' \in [Ids -> Row \cup {Gone}]
      BY <1>1, <1>2, <1>4 DEF TypeOK
    <2> QED BY <1>1, <1>6, <1>7, <1>8, <1>9, <1>13, <2>1, NextRecord DEF TypeOK
  <1>15. RowOK(id, entity)'
    <2>1. row.verified => Answered(id)'
      BY <1>2, <1>7 DEF RowOK, Answered
    <2>2. q.op \in {"verify", "confirm"} => Answered(id)'
      BY <1>2, <1>3, <1>7 DEF Answered
    <2> QED BY <1>5, <1>6, <2>1, <2>2 DEF RowOK
  <1>16. ASSUME id \notin overrun' PROVE Faithful(id)'
    <2>1. users[id] = row /\ id \in Live /\ Faithful(id)
      BY <1>9, <1>16 DEF IInv, AccountOK
    <2>2. entity.verified => <<id, entity.email>> \in proved'
      <3>1. CASE q.op \in {"email", "move"}
        BY <1>5, <1>7, <3>1
      <3>2. CASE q.op = "verify"
        BY <1>5, <1>7, <3>2
      <3>3. CASE q.op = "confirm"
        <4>1. row.email = q.email \/ <<id, row.email>> \in proved
          BY <1>1, <1>9, <1>16, <3>3 DEF RecordOK, id, row
        <4> QED BY <1>5, <1>7, <3>3, <4>1
      <3>4. CASE q.op \notin {"email", "move", "verify", "confirm"}
        BY <1>5, <1>7, <2>1, <3>4 DEF Faithful
      <3> QED BY <3>1, <3>2, <3>3, <3>4
    <2>3. entity.locked <=> id \in shut'
      BY <1>5, <1>8, <2>1 DEF Faithful
    <2>4. Latest(entity.password)'
      <3>1. CASE q.op \in Rehash
        BY <1>2, <1>5, <1>6, <3>1, NullsAreNoValues DEF Latest
      <3>2. CASE q.op \notin Rehash
        BY <1>5, <1>6, <2>1, <3>2 DEF Faithful, Latest
      <3> QED BY <3>1, <3>2
    <2>5. \/ crashed' \/ id \in unmailed' \/ Invited(id)'
          \/ \E s \in Requests : Sponsors(requests[s], id)'
      <3>1. ASSUME NEW s \in Requests, Sponsors(requests[s], id)
            PROVE  Invited(id)' \/ Sponsors(requests[s], id)'
        <4>1. CASE s = r
          BY <1>2, <1>7, <3>1, <4>1 DEF Sponsors, Invited, Answered, id, row
        <4>2. CASE s # r
          BY <1>1, <1>13, <3>1, <4>2, NextRecord DEF Others, Sponsors
        <4> QED BY <4>1, <4>2
      <3> QED BY <1>1, <1>2, <1>12, <2>1, <3>1, InvitedKept DEF Faithful
    <2> QED BY <1>10, <2>1, <2>2, <2>3, <2>4, <2>5 DEF Faithful, Latest
  <1>17. ASSUME NEW j \in Live' PROVE AccountOK(j)'
    <2>1. CASE j = id
      BY <1>10, <1>15, <1>16, <2>1 DEF AccountOK, RowOK, Answered
    <2>2. CASE j # id
      <3>1. j \in Live /\ users'[j] = users[j] /\ AccountOK(j) /\ j \in Ids
        BY <1>11, <2>2 DEF IInv
      <3>2. \A g \in Hashes : owner'[g] = j => owner[g] = j
        BY <1>6, <2>2, <3>1
      <3>3. j \in shut' <=> j \in shut
        BY <1>8, <2>2, <3>1
      <3>4. ~Sponsors(requests[r], j)
        BY <2>2 DEF Sponsors, id
      <3> QED BY <1>12, <1>13, <3>1, <3>2, <3>3, <3>4, AccountKept
    <2> QED BY <2>1, <2>2
  <1>18. Unique'
    <2>1. \A j \in Live : users[j].email = entity.email => j = id
      BY <1>4 DEF Free, At, id
    <2> QED BY <1>10, <1>11, <2>1 DEF IInv, Unique
  <1>19. \A j \in (shut \cup removed)' : Born(j)
    BY <1>2, <1>8 DEF IInv
  <1>20. \A j \in tokens' : Answered(j)'
    BY <1>7 DEF IInv, Answered
  <1>21. RecordOK(next)'
    BY <1>12, <1>13, RecordKept
  <1> QED BY <1>12, <1>13, <1>14, <1>17, <1>18, <1>19, <1>20, <1>21, Carry DEF IInv

LEMMA SaveOK ==
  ASSUME IInv, NEW r \in Requests, Save(r)
  PROVE  IInv'
  <1>1. PICK q \in Request : q = requests[r]
    BY DEF IInv, TypeOK
  <1>2. /\ RecordOK(q) /\ q.pc = "found" /\ q.op \in Saving /\ Go(r, Idle)
        /\ UNCHANGED <<links, changes, tokens, unmailed, removed, crashed>>
    BY <1>1 DEF IInv, Save
  <1>3. PICK h \in Hashes :
          /\ IF q.op \in Rehash THEN NextHash(h) ELSE h = 1
          /\ IF Free(r, Edited(r, h).email)
             THEN /\ users' = [users EXCEPT ![q.id] = Edited(r, h)]
                  /\ owner' = IF q.op \in Rehash THEN [owner EXCEPT ![h] = q.id] ELSE owner
                  /\ proved' = proved \cup Vouched(r)
                  /\ shut' = CASE q.op = "lock" -> shut \cup {q.id}
                               [] q.op = "unlock" -> shut \ {q.id}
                               [] OTHER -> shut
                  /\ overrun' = IF users[q.id] = q.row THEN overrun
                                ELSE overrun \cup {q.id}
             ELSE UNCHANGED <<users, owner, proved, shut, overrun>>
    BY <1>1, Zenon DEF Save
  <1>4. CASE Free(r, Edited(r, h).email)
    BY <1>1, <1>2, <1>3, <1>4, SaveStep
  <1>5. CASE ~Free(r, Edited(r, h).email)
    <2>1. UNCHANGED <<users, owner, proved, shut, overrun>>
      BY <1>3, <1>5
    <2>2. ASSUME NEW j \in Live, Sponsors(q, j) PROVE Invited(j)' \/ j \in overrun
      <3>1. q.op = "verify" /\ j = q.id /\ q.row \in Row /\ Keeps(j, q.row.email)
        BY <1>2, <2>2 DEF Sponsors, RecordOK, RowOK
      <3>2. Edited(r, h).email = q.row.email
        BY <1>1, <3>1, EditedFacts DEF IInv
      <3>3. users[j].email # q.row.email
        BY <1>1, <1>5, <2>2, <3>1, <3>2 DEF Free, At, IInv, Unique
      <3>4. <<j, users[j].email>> \in proved' \/ j \in overrun
        BY <2>1, <2>2, <3>1, <3>3 DEF Keeps
      <3> QED BY <2>2, <3>4, LiveBorn DEF Invited, Answered
    <2> QED BY <1>1, <1>2, <2>1, <2>2, AnswerStep DEF IInv, TypeOK, history
  <1> QED BY <1>4, <1>5

-----------------------------------------------------------------------------
(* Theorems.                                                               *)

LEMMA InitOK == Init => IInv
  <1> SUFFICES ASSUME Init PROVE IInv
    OBVIOUS
  <1>1. TypeOK
    <2>1. requests \in [Requests -> Request]
      BY IdleFacts DEF Init
    <2>2. users \in [Ids -> Row \cup {Gone}] /\ owner \in [Hashes -> Ids \cup {NoId}]
      BY DEF Init
    <2>3. begun \in 0 .. MaxBegun
      BY BoundsAreNumbers DEF Init
    <2> QED BY <2>1, <2>2, <2>3 DEF Init, TypeOK
  <1>2. Live = {}
    BY DEF Init, Live
  <1>3. \A r \in Requests : RecordOK(requests[r])
    BY IdleFacts DEF Init
  <1> QED BY <1>1, <1>2, <1>3 DEF Init, IInv, Unique

LEMMA StutterOK ==
  ASSUME IInv, UNCHANGED vars
  PROVE  IInv'
  <1>1. UNCHANGED <<users, links, changes, tokens, requests, begun, owner, proved, shut,
                    unmailed, removed, crashed, overrun>>
    BY DEF vars, history
  <1>2. TypeOK'
    BY <1>1 DEF IInv, TypeOK
  <1>3. Live' = Live /\ Unique'
    BY <1>1 DEF IInv, Unique, Live
  <1>4. ASSUME NEW j \in Live PROVE AccountOK(j)'
    <2>1. AccountOK(j)
      BY DEF IInv
    <2>2. Invited(j) => Invited(j)'
      BY <1>1 DEF Invited, Answered
    <2>3. RowOK(j, users[j])'
      BY <1>1, <2>1 DEF AccountOK, RowOK, Answered
    <2>4. ASSUME j \notin overrun' PROVE Faithful(j)'
      BY <1>1, <2>1, <2>2, <2>4 DEF AccountOK, Faithful, Latest, Sponsors
    <2> QED BY <2>3, <2>4 DEF AccountOK
  <1>5. \A r \in Requests : RecordOK(requests[r])'
    BY <1>1 DEF IInv, RecordOK, RowOK, Born, Keeps, Answered, Live
  <1> QED BY <1>1, <1>2, <1>3, <1>4, <1>5 DEF IInv, Born, Answered

\* The invariant: every row, stored or held by a request, is its account's own;
\* and an account that no save went over is as its requests left it.
THEOREM Invariant == Spec => []IInv
  <1>1. IInv /\ [Next]_vars => IInv'
    <2> SUFFICES ASSUME IInv, [Next]_vars PROVE IInv'
      OBVIOUS
    <2>1. ASSUME NEW r \in Requests, Begin(r) PROVE IInv'
      BY <2>1, BeginCreationOK, BeginLinkOK, BeginMoveOK, BeginMineOK, BeginAdminOK,
         BeginLoginOK DEF Begin
    <2>2. ASSUME NEW r \in Requests, Continue(r) PROVE IInv'
      BY <2>2, InsertOK, WelcomeOK, GreetOK, AskOK, PermitOK, ReachOK, FindOK, SaveOK,
         RemoveOK, LoginOK DEF Continue
    <2>3. ASSUME NEW e \in Emails, Forgot(e) PROVE IInv'
      BY <2>3, ForgotOK
    <2>4. CASE Crash
      BY <2>4, CrashOK
    <2>5. CASE UNCHANGED vars
      BY <2>5, StutterOK
    <2> QED BY <2>1, <2>2, <2>3, <2>4, <2>5 DEF Next
  <1> QED BY <1>1, InitOK, PTL DEF Spec

\* Tables, links and local variables keep their types.
THEOREM TypeCorrect == Spec => []TypeOK
  <1>1. IInv => TypeOK
    BY DEF IInv
  <1> QED BY <1>1, Invariant, PTL

\* The address of a verified account answered, or an administrator entered it,
\* whatever changes of address, verifications and deletions overlap; and so it
\* is for every account that was ever given a token.
THEOREM VerifiedMeansReached == Spec => []VerifiedWasReached
  <1>1. IInv => VerifiedWasReached
    BY DEF IInv, AccountOK, Faithful, Answered, VerifiedWasReached
  <1> QED BY <1>1, Invariant, PTL

\* A password belongs to the account it was made for, and a reset that was let
\* through is for the account its link was signed for.
THEOREM ResetStaysWithOwner == Spec => []ResetReachesItsOwner
  <1>1. IInv => ResetReachesItsOwner
    BY DEF IInv, AccountOK, RowOK, RecordOK, ResetReachesItsOwner
  <1> QED BY <1>1, Invariant, PTL

\* Locks, passwords and deletions last, except where a save went over a row that
\* had changed since it was read.
THEOREM WritesAreKept == Spec => []OnlyOverlapsLoseWrites
  <1>1. IInv => OnlyOverlapsLoseWrites
    BY DEF IInv, AccountOK, Faithful, OnlyOverlapsLoseWrites
  <1> QED BY <1>1, Invariant, PTL

\* While the server runs, an account is vouched for, was mailed a link, or has a
\* request that is to do one of them or to remove it, unless it was made for a
\* new member or by an onboarding that failed: so is what registrations leave.
THEOREM NobodyIsForgotten == Spec => []InvitedOrVouched
  <1>1. IInv => InvitedOrVouched
    BY DEF IInv, AccountOK, Faithful, Invited, Answered, Awaited, InvitedOrVouched
  <1> QED BY <1>1, Invariant, PTL

=============================================================================
