------------------------------ MODULE KeyRotation ------------------------------
(***************************************************************************)
(* The signing keys of one tenant: creation, rotation, the limit on active *)
(* keys, the cron job that retires superseded keys, and the tokens that    *)
(* are signed meanwhile.                                                   *)
(*                                                                         *)
(* rotateKey uses no transaction: it supersedes the current key with one   *)
(* conditional UPDATE, then reads the highest version, inserts the next    *)
(* key and deactivates the oldest ones, with an await after each.  Two     *)
(* administrators, the cron job of every replica and any number of token   *)
(* requests may run between those steps, and the process may stop there.   *)
(* A task is one such call; its position is the field pc.                  *)
(*                                                                         *)
(* The key id is a hash of the tenant and the version, so within a tenant  *)
(* a key is named by its version.                                          *)
(***************************************************************************)
EXTENDS Naturals, FiniteSets

CONSTANTS
    Tasks,          \* slots for calls in flight
    MaxKeys,        \* JWKS_MAX_ACTIVE_KEYS_PER_TENANT
    Overlap,        \* TOKEN_EXPIRATION_TIME_IN_SECONDS, the cron job's window
    TokenLifetime,  \* TOKEN_EXPIRATION_TIME, the expiresIn of signed tokens
    MaxVersion,     \* bound of the model: no rotation of a later key starts
    MaxTokens,      \* bound of the model: tokens signed
    MaxTime,        \* bound of the model: the clock stops here
    Never           \* superseded_at IS NULL

ASSUME KeyConstants ==
    /\ MaxKeys \in Nat \ {0}
    /\ Overlap \in Nat
    /\ TokenLifetime \in Nat
    /\ MaxVersion \in Nat
    /\ MaxTokens \in Nat
    /\ MaxTime \in Nat
    /\ Never \notin Nat

\* The deployed settings (srv/envs) give both the same duration.
ASSUME WindowCoversTokens == TokenLifetime <= Overlap

VARIABLES
    now,      \* the clock
    keys,     \* table tenant_keys, a function on the versions stored
    tokens,   \* history: the tokens signed, by key and time
    tasks,    \* the local variables of each call
    crashed   \* history: a rotation stopped between two of its writes

vars == <<now, keys, tokens, tasks, crashed>>

Versions == Nat \ {0}

\* gone is deactivated_at, as the reason of the first deactivation.  supersededAt
\* is the time rotateKey took when it began; leftAt is history, the time of the
\* UPDATE that stored it, from which no token request finds the key.
Key == [current : BOOLEAN,
        supersededAt : Nat \cup {Never},
        leftAt : Nat,
        gone : {"no", "expired", "limit"}]

\* found is history: when the token request found its key current.
Token == [kid : Versions, found : Nat, iat : Nat]

Steps == {"idle", "supersede", "version", "insert", "list", "evict", "sweep", "retire", "sign"}

\* at: the time the call took as its now, and of a token request, when it found its
\* key; version: the one read or computed; due: the keys to deactivate.
Task == [pc : Steps, at : Nat, version : Nat, due : SUBSET Versions]

TypeOK ==
    /\ now \in Nat
    /\ DOMAIN keys \subseteq Versions
    /\ keys \in [DOMAIN keys -> Key]
    /\ tokens \subseteq Token
    /\ tasks \in [Tasks -> Task]
    /\ crashed \in BOOLEAN

-----------------------------------------------------------------------------
Idle == [pc |-> "idle", at |-> 0, version |-> 0, due |-> {}]

Init ==
    /\ now = 0
    /\ keys = [v \in {} |-> Never]
    /\ tokens = {}
    /\ tasks = [t \in Tasks |-> Idle]
    /\ crashed = FALSE

Stored == DOMAIN keys

Current == {v \in Stored : keys[v].current}

\* WHERE deactivated_at IS NULL: what the JWKS endpoint publishes and what
\* getPublicKeyByKid accepts.
Active == {v \in Stored : keys[v].gone = "no"}

\* Faulty forms of some of the operators that follow, which show that the
\* properties can fail: an UPDATE whose count is not looked at, a limit that
\* drops the newest keys or one too few, a cron job without the overlap window,
\* a new key that is not marked current.
AnyCount == TRUE

NewestOverLimit(S) == {v \in S : Cardinality({u \in S : u < v}) >= MaxKeys}

OneTooFew(S) == {v \in S : Cardinality({u \in S : u > v}) > MaxKeys}

SupersededBefore(v, time) == keys[v].supersededAt < time

UnmarkedKey == [current |-> FALSE, supersededAt |-> Never, leftAt |-> 0, gone |-> "no"]

\* affected > 0
Superseding == Current # {}

\* The oldest of the active keys S, beyond the limit.
OverLimit(S) == {v \in S : Cardinality({u \in S : u > v}) >= MaxKeys}

PastOverlap(v, time) == keys[v].supersededAt + Overlap < time

NewKey == [current |-> TRUE, supersededAt |-> Never, leftAt |-> 0, gone |-> "no"]

Insert(v) == keys' = [u \in Stored \cup {v} |-> IF u = v THEN NewKey ELSE keys[u]]

\* UPDATE tenant_keys SET deactivated_at = now WHERE id = :id
Deactivate(v, why) ==
    keys' = [keys EXCEPT ![v].gone = IF @ = "no" THEN why ELSE @]

At(t, step) == tasks[t].pc = step

\* The call goes on, with no local that it still needs.
Goto(t, step) == tasks' = [tasks EXCEPT ![t] = [Idle EXCEPT !.pc = step]]

End(t) == tasks' = [tasks EXCEPT ![t] = Idle]

-----------------------------------------------------------------------------
\* TenantService.create stores the tenant first and its key two writes later.
CreateInitialKey ==
    /\ Stored = {}
    /\ Insert(1)
    /\ UNCHANGED <<now, tokens, tasks, crashed>>

\* rotateKey takes its time before the first statement.
RotateKey(t) ==
    /\ At(t, "idle")
    /\ \A v \in Stored : v < MaxVersion
    /\ tasks' = [tasks EXCEPT ![t] = [Idle EXCEPT !.pc = "supersede", !.at = now]]
    /\ UNCHANGED <<now, keys, tokens, crashed>>

\* The compare-and-swap; with no current key the call fails.
Supersede(t) ==
    /\ At(t, "supersede")
    /\ keys' = [v \in Stored |->
          IF keys[v].current
            THEN [keys[v] EXCEPT !.current = FALSE, !.supersededAt = tasks[t].at, !.leftAt = now]
            ELSE keys[v]]
    /\ IF Superseding THEN Goto(t, "version") ELSE End(t)
    /\ UNCHANGED <<now, tokens, crashed>>

\* ORDER BY key_version DESC LIMIT 1, ?? 0
ReadVersion(t) ==
    /\ At(t, "version")
    /\ \E n \in Stored \cup {0} :
          /\ \A v \in Stored : v <= n
          /\ tasks' = [tasks EXCEPT ![t].pc = "insert", ![t].version = n + 1]
    /\ UNCHANGED <<now, keys, tokens, crashed>>

\* (tenant_id, key_version) is UNIQUE: a version that exists makes save throw.
InsertKey(t) ==
    LET v == tasks[t].version IN
    /\ At(t, "insert")
    /\ IF v \in Stored
         THEN /\ End(t)
              /\ crashed' = TRUE
              /\ UNCHANGED keys
         ELSE /\ Insert(v)
              /\ Goto(t, "list")
              /\ UNCHANGED crashed
    /\ UNCHANGED <<now, tokens>>

\* enforceMaxKeys reads the active keys and chooses the oldest ones.
ListActive(t) ==
    /\ At(t, "list")
    /\ IF OverLimit(Active) = {}
         THEN End(t)
         ELSE tasks' = [tasks EXCEPT ![t].pc = "evict", ![t].due = OverLimit(Active)]
    /\ UNCHANGED <<now, keys, tokens, crashed>>

\* One iteration of either loop of updates.
DeactivateNext(t, step, why) ==
    /\ At(t, step)
    /\ \E v \in tasks[t].due :
          /\ step = "evict" => \A u \in tasks[t].due : v <= u
          /\ Deactivate(v, why)
          /\ IF tasks[t].due = {v}
               THEN End(t)
               ELSE tasks' = [tasks EXCEPT ![t].due = @ \ {v}]
    /\ UNCHANGED <<now, tokens, crashed>>

Evict(t) == DeactivateNext(t, "evict", "limit")

-----------------------------------------------------------------------------
\* The cron job: the query, and the time taken after its answer.
Sweep(t) ==
    LET expired == {v \in Active : /\ ~keys[v].current
                                   /\ keys[v].supersededAt # Never
                                   /\ PastOverlap(v, now)}
    IN /\ At(t, "idle")
       /\ IF expired = {}
            THEN UNCHANGED tasks
            ELSE tasks' = [tasks EXCEPT ![t] = [Idle EXCEPT !.pc = "retire", !.due = expired]]
       /\ UNCHANGED <<now, keys, tokens, crashed>>

Retire(t) == DeactivateNext(t, "retire", "expired")

\* getSigningKeyWithKid, and the signature after it.
ReadSigningKey(t) ==
    /\ At(t, "idle")
    /\ Cardinality(tokens) + Cardinality({u \in Tasks : At(u, "sign")}) < MaxTokens
    /\ \E v \in Current :
          tasks' = [tasks EXCEPT ![t] = [Idle EXCEPT !.pc = "sign", !.at = now, !.version = v]]
    /\ UNCHANGED <<now, keys, tokens, crashed>>

Sign(t) ==
    /\ At(t, "sign")
    /\ tokens' = tokens \cup {[kid |-> tasks[t].version, found |-> tasks[t].at, iat |-> now]}
    /\ End(t)
    /\ UNCHANGED <<now, keys, crashed>>

\* A call stops between two awaits: the process restarts or a statement fails.
Abort(t) ==
    /\ ~At(t, "idle")
    /\ End(t)
    /\ crashed' = (crashed \/ tasks[t].pc \in {"version", "insert", "list", "evict"})
    /\ UNCHANGED <<now, keys, tokens>>

Tick ==
    /\ now < MaxTime
    /\ now' = now + 1
    /\ UNCHANGED <<keys, tokens, tasks, crashed>>

Continue(t) ==
    \/ Supersede(t)
    \/ ReadVersion(t)
    \/ InsertKey(t)
    \/ ListActive(t)
    \/ Evict(t)
    \/ Retire(t)
    \/ Sign(t)

Next ==
    \/ Tick
    \/ CreateInitialKey
    \/ \E t \in Tasks :
          RotateKey(t) \/ Sweep(t) \/ ReadSigningKey(t) \/ Continue(t) \/ Abort(t)

Spec == Init /\ [][Next]_vars

\* A call that is not cut short gets the answers of the database.
FairSpec == Spec /\ \A t \in Tasks : WF_vars(Continue(t))

-----------------------------------------------------------------------------
(* Properties.                                                             *)

Rotating(t) == tasks[t].pc \in {"version", "insert"}

\* Between the awaits of any number of rotations there is never more than one
\* current key, it is the newest one, and verifiers accept it: neither a limit
\* nor a cron pass that decided on an older table can take it away.
CurrentKeyIsUsable ==
    \A v \in Current : /\ v \in Active
                       /\ \A u \in Stored : u <= v

\* The UPDATE's count lets one rotation in at a time, so that no rotation that
\* superseded a key meets the unique index when it inserts the next one, which
\* would leave the tenant without a current key.
VersionIsFree ==
    \A t \in Tasks : At(t, "insert") => tasks[t].version \notin Stored

\* A tenant that got its key has a current one, or a rotation is about to insert
\* it, unless a rotation was cut short in between: then nothing repairs it.
KeylessOnlyInRotation ==
    Stored # {} /\ Current = {} => crashed \/ \E t \in Tasks : Rotating(t)

\* The cron job takes no key away before the tokens signed with it have expired,
\* whoever signed them and however old the list is it works from, but for two
\* delays the code does not reckon with: waiting, from a token request's read of the
\* key to its signature, and late, from the time rotateKey takes to its UPDATE, for
\* a request that finds the key current in between.  No token loses more.
OverlapIsKept ==
    \A k \in tokens :
        LET key     == keys[k.kid]
            late    == IF k.found <= key.supersededAt THEN 0 ELSE key.leftAt - key.supersededAt
            waiting == k.iat - k.found
        IN key.gone = "expired" => now + late + waiting > k.iat + TokenLifetime

\* However rotations overlap, once they are done the limit holds: the last one to
\* insert also counts last.
LimitIsEnforced ==
    ~crashed /\ (\A t \in Tasks : tasks[t].pc \notin {"list", "evict"}) =>
        Cardinality(Active) <= MaxKeys

\* A rotation that is not cut short gives the tenant its next key.
KeyComesBack == Stored # {} /\ Current = {} ~> Current # {} \/ crashed

-----------------------------------------------------------------------------
(* The table seen as a ring of keys.                                       *)

PhaseOf(v) ==
    IF v \notin Stored THEN "absent"
    ELSE IF keys[v].current THEN "current"
    ELSE IF keys[v].gone # "no" THEN "retired"
    ELSE "superseded"

Ring == INSTANCE KeyRing WITH phase <- [v \in Versions |-> PhaseOf(v)]

\* Whatever calls overlap or are cut short, each key only moves the way KeyRing
\* allows, one at a time.
ImplementsKeyRing == Ring!Spec

-----------------------------------------------------------------------------
(* What the documentation says and the code does not do: these do not hold. *)

\* docs/jwks-endpoint.md: a superseded key remains in the JWKS until all tokens
\* signed with it have expired.
PublishedUntilExpiry ==
    \A k \in tokens : now <= k.iat + TokenLifetime => k.kid \in Active

\* The same of the cron job alone.  A token signed after rotateKey took its time,
\* even while the key was current, can lose its key early.
CronOutwaitsEveryToken ==
    \A k \in tokens : keys[k.kid].gone = "expired" => now > k.iat + TokenLifetime
=============================================================================
