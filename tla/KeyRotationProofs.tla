--------------------------- MODULE KeyRotationProofs ---------------------------
(***************************************************************************)
(* Proofs about KeyRotation, for any number of calls in flight, any limit  *)
(* and any window.                                                         *)
(*                                                                         *)
(* rotateKey works without a transaction because its conditional UPDATE    *)
(* acts as a lock: the tenant has no current key exactly while one         *)
(* rotation is between its UPDATE and its INSERT (Exclusive), so the       *)
(* version it computes stays free.  The loops that deactivate keys work    *)
(* from an old list, and may, because what put a key on it does not change *)
(* any more: a superseded key is never current again (LocalsOK).           *)
(*                                                                         *)
(* The limit on active keys needs one more thing to count: what is active  *)
(* and on no list is within the limit unless somebody has still to count   *)
(* (LimitInv).                                                             *)
(***************************************************************************)
EXTENDS KeyRotation, FiniteSetTheorems, WellFoundedInduction, TLAPS

\* A key is current until it is superseded, and the cron job waits.
KeyOK(v) ==
    /\ keys[v].current <=> keys[v].supersededAt = Never
    /\ keys[v].gone = "expired" =>
          keys[v].supersededAt # Never /\ keys[v].supersededAt + Overlap < now

KeysOK == \A v \in Stored : KeyOK(v)

TokensOK == \A k \in tokens : k.kid \in Stored

\* A call takes its time before it acts, and a token request finds no key that is
\* superseded: what makes the window of a key start soon enough for its tokens.
FoundInTime(v, time) ==
    time <= now /\ (keys[v].supersededAt # Never => time <= keys[v].leftAt)

TimesInv ==
    /\ \A k \in tokens : FoundInTime(k.kid, k.found) /\ k.found <= k.iat
    /\ \A t \in Tasks : At(t, "sign") => FoundInTime(tasks[t].version, tasks[t].at)
    /\ \A t \in Tasks : At(t, "supersede") => tasks[t].at <= now
    /\ \A v \in Stored : keys[v].supersededAt # Never => keys[v].supersededAt <= keys[v].leftAt

Exclusive ==
    \A t \in Tasks : Rotating(t) =>
        Current = {} /\ Stored # {} /\ \A u \in Tasks : Rotating(u) => u = t

\* What a call may rely on between two awaits.
LocalsOK(q) ==
    /\ q.pc = "insert" =>
          q.version \in Versions /\ \A v \in Stored : v < q.version
    /\ q.pc = "sign" => q.version \in Stored
    /\ \A v \in q.due : v \in Stored /\ v \notin Current
    /\ q.pc = "retire" =>
          \A v \in q.due : /\ keys[v].supersededAt # Never
                           /\ keys[v].supersededAt + Overlap < now

IInv ==
    /\ TypeOK
    /\ KeysOK
    /\ TokensOK
    /\ CurrentKeyIsUsable
    /\ Exclusive
    /\ KeylessOnlyInRotation
    /\ \A t \in Tasks : LocalsOK(tasks[t])

-----------------------------------------------------------------------------
LEMMA IdleOK == Idle \in Task /\ LocalsOK(Idle)
  BY DEF Idle, Task, Steps, LocalsOK

LEMMA GotoType ==
  ASSUME NEW step \in Steps
  PROVE  [Idle EXCEPT !.pc = step] \in Task
  BY DEF Idle, Task, Steps

\* The newest of the active keys is within any limit.
LEMMA NewestStays ==
  ASSUME NEW S \in SUBSET Versions, NEW v \in S, \A u \in S : u <= v
  PROVE  v \notin OverLimit(S)
  <1>1. {u \in S : u > v} = {}
    <2>1. \A u \in S : u \in Nat /\ u <= v
      BY DEF Versions
    <2>2. \A u \in S : ~(u > v)
      BY <2>1
    <2> QED BY <2>2
  <1>2. Cardinality({u \in S : u > v}) = 0
    BY <1>1, FS_EmptySet
  <1> QED BY <1>2, KeyConstants DEF OverLimit

LEMMA InsertType ==
  ASSUME TypeOK, NEW v \in Versions, v \notin Stored, Insert(v)
  PROVE  /\ DOMAIN keys' = Stored \cup {v}
         /\ DOMAIN keys' \subseteq Versions
         /\ keys' \in [DOMAIN keys' -> Key]
         /\ keys'[v] = NewKey
         /\ \A u \in Stored : keys'[u] = keys[u]
  <1>1. NewKey \in Key
    BY DEF NewKey, Key
  <1> QED BY <1>1 DEF TypeOK, Insert, Stored

\* A superseded key stays as it is, up to its deactivation, and time passes:
\* what a call relies on survives the steps of all the others.
LEMMA LocalsSurvive ==
  ASSUME TypeOK, now' \in Nat, now' >= now,
         DOMAIN keys' = Stored,
         \A v \in Stored : /\ keys[v].supersededAt # Never =>
                                 keys'[v].supersededAt = keys[v].supersededAt
                           /\ keys'[v].current => keys[v].current,
         NEW q \in Task, LocalsOK(q)
  PROVE  LocalsOK(q)'
  <1>1. ASSUME NEW v \in q.due PROVE v \in DOMAIN keys' /\ v \notin Current'
    BY <1>1 DEF LocalsOK, Current, Stored
  <1>2. ASSUME q.pc = "retire", NEW v \in q.due
        PROVE  keys'[v].supersededAt # Never /\ keys'[v].supersededAt + Overlap < now'
    <2>1. /\ v \in Stored /\ keys[v].supersededAt # Never
          /\ keys[v].supersededAt + Overlap < now
      BY <1>2 DEF LocalsOK
    <2>2. keys[v].supersededAt \in Nat
      BY <2>1 DEF TypeOK, Key, Stored
    <2> QED BY <2>1, <2>2, KeyConstants DEF TypeOK
  <1> QED BY <1>1, <1>2 DEF LocalsOK, Stored

\* The part of a step that is the same for all: one call moves on, and neither
\* it nor the keys enter or leave a rotation.
LEMMA OneTaskMoves ==
  ASSUME IInv, NEW t \in Tasks, NEW q \in Task, tasks' = [tasks EXCEPT ![t] = q],
         LocalsOK(q), UNCHANGED <<now, keys>>,
         ~Rotating(t) => q.pc \notin {"version", "insert"},
         Rotating(t) => q.pc \in {"version", "insert"} \/ crashed',
         crashed => crashed', crashed' \in BOOLEAN,
         tokens' \subseteq Token, \A k \in tokens' : k.kid \in Stored
  PROVE  IInv'
  <1>1. TypeOK'
    BY DEF IInv, TypeOK
  <1>2. \A u \in Tasks : tasks'[u] = IF u = t THEN q ELSE tasks[u]
    BY DEF IInv, TypeOK
  <1>3. KeysOK' /\ TokensOK' /\ CurrentKeyIsUsable'
    BY DEF IInv, KeysOK, KeyOK, TokensOK, CurrentKeyIsUsable, Current, Active, Stored
  <1>4. \A u \in Tasks : Rotating(u)' => Rotating(u)
    BY <1>2 DEF Rotating
  <1>5. Exclusive'
    BY <1>4 DEF IInv, Exclusive, Current, Stored
  <1>6. KeylessOnlyInRotation'
    BY <1>2 DEF IInv, KeylessOnlyInRotation, Current, Stored, Rotating
  <1>7. ASSUME NEW u \in Tasks PROVE LocalsOK(tasks[u])'
    BY <1>2 DEF IInv, LocalsOK, Stored, Current
  <1> QED BY <1>1, <1>3, <1>5, <1>6, <1>7 DEF IInv

-----------------------------------------------------------------------------
(* The invariant is inductive.                                             *)

LEMMA InitIInv == Init => IInv
  <1> SUFFICES ASSUME Init PROVE IInv
    OBVIOUS
  <1>1. Stored = {}
    BY DEF Init, Stored
  <1>2. \A t \in Tasks : tasks[t] = Idle
    BY DEF Init
  <1>3. TypeOK
    BY <1>1, IdleOK DEF Init, TypeOK, Stored
  <1>4. \A t \in Tasks : ~Rotating(t)
    BY <1>2 DEF Rotating, Idle
  <1>5. \A t \in Tasks : LocalsOK(tasks[t])
    BY <1>2, IdleOK
  <1> QED BY <1>1, <1>3, <1>4, <1>5
          DEF Init, IInv, KeysOK, TokensOK, CurrentKeyIsUsable, Exclusive, KeylessOnlyInRotation, Current

LEMMA CreateKeeps ==
  ASSUME IInv, CreateInitialKey
  PROVE  IInv'
  <1>1. /\ DOMAIN keys' = {1}
        /\ keys' \in [DOMAIN keys' -> Key]
        /\ keys'[1] = NewKey
        /\ UNCHANGED <<now, tokens, tasks, crashed>>
        /\ Stored = {}
    BY InsertType DEF CreateInitialKey, IInv, Versions
  <1>2. tokens = {} /\ \A t \in Tasks : ~Rotating(t)
    BY <1>1 DEF IInv, TokensOK, Exclusive
  <1>3. TypeOK'
    BY <1>1 DEF IInv, TypeOK, Versions
  <1>4. KeysOK' /\ CurrentKeyIsUsable'
    BY <1>1 DEF KeysOK, KeyOK, CurrentKeyIsUsable, Current, Active, Stored, NewKey
  <1>5. 1 \in Current'
    BY <1>1 DEF Current, Stored, NewKey
  <1>6. ASSUME NEW t \in Tasks PROVE LocalsOK(tasks[t])'
    BY <1>1, <1>2 DEF IInv, LocalsOK, Rotating, Stored
  <1> QED BY <1>1, <1>2, <1>3, <1>4, <1>5, <1>6
          DEF IInv, TokensOK, Exclusive, KeylessOnlyInRotation, Rotating

LEMMA SupersedeKeeps ==
  ASSUME IInv, NEW t \in Tasks, Supersede(t)
  PROVE  IInv'
  <1>1. /\ DOMAIN keys' = Stored
        /\ \A v \in Stored : keys'[v] = IF keys[v].current
                                 THEN [keys[v] EXCEPT !.current = FALSE, !.supersededAt = tasks[t].at,
                                                      !.leftAt = now]
                                 ELSE keys[v]
        /\ keys' = [v \in Stored |-> keys'[v]]
        /\ now' = now /\ tokens' = tokens /\ crashed' = crashed
    BY DEF Supersede
  <1>2. tasks[t].pc = "supersede" /\ tasks[t].at \in Nat /\ tasks[t] \in Task
    BY DEF Supersede, At, IInv, TypeOK, Task
  <1>3. \A v \in Stored : /\ keys'[v] \in Key
                          /\ ~keys'[v].current
                          /\ keys'[v].gone = keys[v].gone
                          /\ keys[v].current => keys'[v].supersededAt = tasks[t].at
                          /\ ~keys[v].current => keys'[v] = keys[v]
    BY <1>1, <1>2 DEF IInv, TypeOK, Key, Stored
  <1>4. Current' = {}
    BY <1>1, <1>3 DEF Current, Stored
  <1>5. PICK q \in Task : /\ q = IF Superseding THEN [Idle EXCEPT !.pc = "version"] ELSE Idle
                          /\ tasks' = [tasks EXCEPT ![t] = q]
    BY IdleOK, GotoType DEF Supersede, Goto, End, Steps
  <1>6. \A u \in Tasks : tasks'[u] = IF u = t THEN q ELSE tasks[u]
    BY <1>5 DEF IInv, TypeOK
  <1>7. TypeOK'
    <2>1. keys' \in [Stored -> Key] /\ DOMAIN keys' = Stored
      BY <1>1, <1>3
    <2>2. tasks' \in [Tasks -> Task]
      BY <1>5 DEF IInv, TypeOK
    <2> QED BY <1>1, <2>1, <2>2 DEF IInv, TypeOK, Stored
  <1>8. KeysOK'
    <2>1. SUFFICES ASSUME NEW v \in Stored PROVE KeyOK(v)'
      BY <1>1 DEF KeysOK, Stored
    <2>2. KeyOK(v)
      BY DEF IInv, KeysOK
    <2>3. CASE keys[v].current
      <3>1. keys[v].gone # "expired"
        BY <2>2, <2>3 DEF KeyOK
      <3>2. /\ ~keys'[v].current /\ keys'[v].gone = keys[v].gone
            /\ keys'[v].supersededAt = tasks[t].at
        BY <1>3, <2>3
      <3>3. tasks[t].at # Never
        BY <1>2, KeyConstants
      <3> QED BY <3>1, <3>2, <3>3 DEF KeyOK
    <2>4. CASE ~keys[v].current
      <3>1. keys'[v] = keys[v] /\ now' = now
        BY <1>1, <1>3, <2>4
      <3> QED BY <2>2, <3>1 DEF KeyOK
    <2> QED BY <2>3, <2>4
  <1>9. TokensOK' /\ CurrentKeyIsUsable'
    BY <1>1, <1>4 DEF IInv, TokensOK, CurrentKeyIsUsable, Stored
  <1>10. LocalsOK(q)
    BY <1>5 DEF Idle, LocalsOK
  <1>11. ASSUME NEW u \in Tasks PROVE LocalsOK(tasks[u])'
    <2>1. PICK o \in Task : o = tasks'[u] /\ LocalsOK(o)
      BY <1>5, <1>6, <1>10 DEF IInv, TypeOK
    <2>2. \A v \in Stored : /\ keys[v].supersededAt # Never =>
                                  keys'[v].supersededAt = keys[v].supersededAt
                            /\ keys'[v].current => keys[v].current
      BY <1>3 DEF IInv, KeysOK, KeyOK
    <2>3. TypeOK /\ now' \in Nat /\ now' >= now
      <3>1. TypeOK /\ now \in Nat /\ now' = now
        BY <1>1 DEF IInv, TypeOK
      <3> QED BY <3>1
    <2>4. LocalsOK(o)'
      BY <1>1, <2>1, <2>2, <2>3, LocalsSurvive
    <2> QED BY <2>1, <2>4 DEF LocalsOK
  <1>12. CASE Superseding
    <2>1. Stored # {} /\ \A u \in Tasks : ~Rotating(u)
      BY <1>12 DEF Superseding, Current, IInv, Exclusive
    <2>2. Rotating(t)' /\ \A u \in Tasks : Rotating(u)' => u = t
      BY <1>5, <1>6, <1>12, <2>1 DEF Rotating, Idle
    <2>3. Exclusive' /\ KeylessOnlyInRotation'
      BY <1>1, <1>4, <2>1, <2>2 DEF Exclusive, KeylessOnlyInRotation, Stored
    <2> QED BY <1>7, <1>8, <1>9, <1>11, <2>3 DEF IInv
  <1>13. CASE ~Superseding
    <2>1. Current = {} /\ q = Idle
      BY <1>5, <1>13 DEF Superseding
    <2>2. \A u \in Tasks : Rotating(u)' <=> Rotating(u)
      BY <1>2, <1>6, <2>1 DEF Rotating, Idle
    <2>3. Exclusive' /\ KeylessOnlyInRotation'
      BY <1>1, <1>4, <2>1, <2>2 DEF IInv, Exclusive, KeylessOnlyInRotation, Stored
    <2> QED BY <1>7, <1>8, <1>9, <1>11, <2>3 DEF IInv
  <1> QED BY <1>12, <1>13

LEMMA ReadVersionKeeps ==
  ASSUME IInv, NEW t \in Tasks, ReadVersion(t)
  PROVE  IInv'
  <1>1. PICK n \in Stored \cup {0} :
           /\ \A v \in Stored : v <= n
           /\ tasks' = [tasks EXCEPT ![t].pc = "insert", ![t].version = n + 1]
    BY DEF ReadVersion
  <1>2. n \in Nat /\ n + 1 \in Versions /\ \A v \in Stored : v < n + 1
    BY <1>1 DEF IInv, TypeOK, Versions, Stored
  <1>3. PICK o \in Task : o = tasks[t] /\ LocalsOK(o) /\ o.pc = "version"
    BY DEF IInv, TypeOK, ReadVersion, At
  <1>4. [o EXCEPT !.pc = "insert", !.version = n + 1] \in Task
    BY <1>2 DEF Task, Steps, Versions
  <1>5. PICK q \in Task : /\ q = [o EXCEPT !.pc = "insert", !.version = n + 1]
                          /\ tasks' = [tasks EXCEPT ![t] = q]
    BY <1>1, <1>3, <1>4
  <1>6. q.pc = "insert" /\ q.version = n + 1 /\ q.due = o.due
    BY <1>5 DEF Task
  <1>7. LocalsOK(q)
    BY <1>2, <1>3, <1>6 DEF LocalsOK
  <1>8. Rotating(t)
    BY <1>3 DEF Rotating
  <1> QED BY <1>5, <1>6, <1>7, <1>8, OneTaskMoves DEF ReadVersion, IInv, TypeOK, TokensOK

LEMMA InsertKeeps ==
  ASSUME IInv, NEW t \in Tasks, InsertKey(t)
  PROVE  IInv'
  <1> DEFINE v == tasks[t].version
  <1>1. /\ v \in Versions /\ \A u \in Stored : u < v
        /\ Rotating(t) /\ Current = {}
        /\ \A u \in Tasks : Rotating(u) => u = t
    BY DEF InsertKey, At, IInv, LocalsOK, Rotating, Exclusive
  <1>2. v \notin Stored
    BY <1>1 DEF Versions
  <1>3. /\ DOMAIN keys' = Stored \cup {v}
        /\ DOMAIN keys' \subseteq Versions
        /\ keys' \in [DOMAIN keys' -> Key]
        /\ keys'[v] = NewKey
        /\ \A u \in Stored : keys'[u] = keys[u]
        /\ UNCHANGED <<now, tokens, crashed>>
    BY <1>1, <1>2, InsertType DEF InsertKey, IInv
  <1>4. PICK q \in Task : /\ q = [Idle EXCEPT !.pc = "list"]
                          /\ tasks' = [tasks EXCEPT ![t] = q]
    BY <1>2, GotoType DEF InsertKey, Goto, Steps
  <1>5. \A u \in Tasks : tasks'[u] = IF u = t THEN q ELSE tasks[u]
    BY <1>4 DEF IInv, TypeOK
  <1>6. TypeOK'
    BY <1>3, <1>4 DEF IInv, TypeOK
  <1>7. Current' = {v}
    BY <1>1, <1>3 DEF Current, Stored, NewKey
  <1>8. KeysOK' /\ TokensOK'
    BY <1>3 DEF IInv, KeysOK, KeyOK, TokensOK, Stored, NewKey
  <1>9. CurrentKeyIsUsable'
    BY <1>1, <1>3, <1>7 DEF CurrentKeyIsUsable, Active, Stored, NewKey, Versions
  <1>10. \A u \in Tasks : ~Rotating(u)'
    BY <1>1, <1>4, <1>5 DEF Rotating, Idle
  <1>11. ASSUME NEW u \in Tasks PROVE LocalsOK(tasks[u])'
    <2>1. CASE u = t
      BY <1>4, <1>5, <2>1 DEF LocalsOK, Idle
    <2>2. CASE u # t
      <3>1. tasks'[u] = tasks[u] /\ LocalsOK(tasks[u]) /\ tasks[u].pc # "insert"
        BY <1>1, <1>5, <2>2 DEF IInv, Rotating
      <3> QED BY <1>2, <1>3, <1>7, <3>1 DEF LocalsOK, Stored
    <2> QED BY <2>1, <2>2
  <1> QED BY <1>6, <1>7, <1>8, <1>9, <1>10, <1>11
          DEF IInv, Exclusive, KeylessOnlyInRotation

\* One UPDATE that deactivates a key: the first reason stays.
LEMMA DeactivateEffect ==
  ASSUME IInv, NEW v \in Stored, NEW why \in {"limit", "expired"}, Deactivate(v, why)
  PROVE  /\ DOMAIN keys' = Stored
         /\ keys' \in [DOMAIN keys' -> Key]
         /\ \A u \in Stored : /\ keys'[u].current = keys[u].current
                              /\ keys'[u].supersededAt = keys[u].supersededAt
                              /\ u # v => keys'[u] = keys[u]
                              /\ u = v => keys'[u].gone = keys[u].gone \/ keys'[u].gone = why
  <1>1. PICK k \in Key : k = keys[v]
    BY DEF IInv, TypeOK, Stored
  <1> DEFINE d == [k EXCEPT !.gone = IF @ = "no" THEN why ELSE @]
  <1>2. /\ d \in Key
        /\ d.current = k.current /\ d.supersededAt = k.supersededAt
        /\ d.gone = k.gone \/ d.gone = why
    BY DEF Key
  <1>3. keys' = [keys EXCEPT ![v] = d]
    BY <1>1 DEF Deactivate
  <1> HIDE DEF d
  <1>4. keys \in [Stored -> Key]
    BY DEF IInv, TypeOK, Stored
  <1>5. DOMAIN keys' = Stored /\ keys' \in [Stored -> Key]
    BY <1>2, <1>3, <1>4
  <1>6. \A u \in Stored : keys'[u] = IF u = v THEN d ELSE keys[u]
    BY <1>3, <1>4
  <1> QED BY <1>1, <1>2, <1>5, <1>6

LEMMA DeactivateKeeps ==
  ASSUME IInv, NEW t \in Tasks, Evict(t) \/ Retire(t)
  PROVE  IInv'
  <1>1. PICK why \in {"limit", "expired"}, v \in tasks[t].due :
           /\ why = "expired" => tasks[t].pc = "retire"
           /\ tasks[t].pc \in {"evict", "retire"}
           /\ Deactivate(v, why)
           /\ \/ End(t)
              \/ tasks' = [tasks EXCEPT ![t].due = @ \ {v}]
           /\ UNCHANGED <<now, tokens, crashed>>
    BY DEF Evict, Retire, DeactivateNext, At
  <1>2. PICK o \in Task : o = tasks[t] /\ LocalsOK(o)
    BY DEF IInv, TypeOK
  <1>3. /\ v \in Stored /\ v \notin Current
        /\ o.pc = "retire" => /\ keys[v].supersededAt # Never
                              /\ keys[v].supersededAt + Overlap < now
    BY <1>1, <1>2 DEF LocalsOK
  <1>4. /\ DOMAIN keys' = Stored
        /\ keys' \in [DOMAIN keys' -> Key]
        /\ \A u \in Stored : /\ keys'[u].current = keys[u].current
                             /\ keys'[u].supersededAt = keys[u].supersededAt
                             /\ u # v => keys'[u] = keys[u]
                             /\ u = v => keys'[u].gone = keys[u].gone \/ keys'[u].gone = why
    BY <1>1, <1>3, DeactivateEffect
  <1>5. Current' = Current
    BY <1>4 DEF Current, Stored
  <1>6. PICK q \in Task : /\ tasks' = [tasks EXCEPT ![t] = q]
                          /\ LocalsOK(q)
                          /\ q.pc \in {"idle", "evict", "retire"}
    <2>1. CASE End(t)
      BY <2>1, IdleOK DEF End, Idle
    <2>2. CASE tasks' = [tasks EXCEPT ![t].due = @ \ {v}]
      <3>1. [o EXCEPT !.due = @ \ {v}] \in Task
        BY DEF Task
      <3>2. PICK q \in Task : q = [o EXCEPT !.due = @ \ {v}] /\ tasks' = [tasks EXCEPT ![t] = q]
        BY <1>2, <2>2, <3>1
      <3>3. q.pc = o.pc /\ q.version = o.version /\ q.due = o.due \ {v}
        BY <3>2 DEF Task
      <3>4. LocalsOK(q)
        BY <1>2, <3>3 DEF LocalsOK
      <3> QED BY <1>1, <1>2, <3>2, <3>3, <3>4
    <2> QED BY <1>1, <2>1, <2>2
  <1>7. \A u \in Tasks : tasks'[u] = IF u = t THEN q ELSE tasks[u]
    BY <1>6 DEF IInv, TypeOK
  <1>8. TypeOK'
    BY <1>1, <1>4, <1>6 DEF IInv, TypeOK, Stored
  <1>9. KeysOK' /\ TokensOK'
    BY <1>1, <1>2, <1>3, <1>4 DEF IInv, KeysOK, KeyOK, TokensOK, Stored
  <1>10. CurrentKeyIsUsable'
    BY <1>3, <1>4, <1>5 DEF IInv, CurrentKeyIsUsable, Current, Active, Stored
  <1>11. \A u \in Tasks : Rotating(u)' <=> Rotating(u)
    BY <1>1, <1>6, <1>7 DEF Rotating
  <1>12. Exclusive' /\ KeylessOnlyInRotation'
    BY <1>1, <1>4, <1>5, <1>11 DEF IInv, Exclusive, KeylessOnlyInRotation, Stored
  <1>13. ASSUME NEW u \in Tasks PROVE LocalsOK(tasks[u])'
    <2>1. PICK p \in Task : p = tasks'[u] /\ LocalsOK(p)
      BY <1>6, <1>7 DEF IInv, TypeOK
    <2>2. LocalsOK(p)'
      BY <1>1, <1>4, <2>1, LocalsSurvive DEF IInv, TypeOK
    <2> QED BY <2>1, <2>2 DEF LocalsOK
  <1> QED BY <1>8, <1>9, <1>10, <1>12, <1>13 DEF IInv

LEMMA TimeKeeps ==
  ASSUME IInv, Tick \/ UNCHANGED vars
  PROVE  IInv'
  <1>1. now' \in Nat /\ now' >= now /\ UNCHANGED <<keys, tokens, tasks, crashed>>
    BY DEF Tick, vars, IInv, TypeOK
  <1>2. ASSUME NEW u \in Tasks PROVE LocalsOK(tasks[u])'
    <2>1. PICK p \in Task : p = tasks[u] /\ LocalsOK(p)
      BY DEF IInv, TypeOK
    <2>2. LocalsOK(p)'
      BY <1>1, <2>1, LocalsSurvive DEF IInv, Stored
    <2> QED BY <1>1, <2>1, <2>2 DEF LocalsOK
  <1>3. KeysOK'
    <2>1. SUFFICES ASSUME NEW v \in Stored PROVE KeyOK(v)'
      BY <1>1 DEF KeysOK, Stored
    <2>2. KeyOK(v) /\ keys[v].supersededAt \in Nat \cup {Never}
      BY DEF IInv, KeysOK, TypeOK, Key, Stored
    <2> QED BY <1>1, <2>2, KeyConstants DEF KeyOK, IInv, TypeOK
  <1> QED BY <1>1, <1>2, <1>3
          DEF IInv, TypeOK, TokensOK, CurrentKeyIsUsable, Exclusive, KeylessOnlyInRotation,
              Current, Active, Stored, Rotating

\* The calls that start, and the steps that only read.
LEMMA OthersKeep ==
  ASSUME IInv, NEW t \in Tasks,
         RotateKey(t) \/ Sweep(t) \/ ReadSigningKey(t) \/ ListActive(t) \/ Sign(t) \/ Abort(t)
  PROVE  IInv'
  <1>1. PICK o \in Task : o = tasks[t] /\ LocalsOK(o)
    BY DEF IInv, TypeOK
  <1>2. ASSUME NEW q \in Task, tasks' = [tasks EXCEPT ![t] = q], LocalsOK(q),
               UNCHANGED <<now, keys, tokens, crashed>>, ~Rotating(t),
               q.pc \notin {"version", "insert"}
        PROVE  IInv'
    BY <1>2, OneTaskMoves DEF IInv, TypeOK, TokensOK
  <1>3. CASE RotateKey(t)
    <2>1. [Idle EXCEPT !.pc = "supersede", !.at = now] \in Task
      BY DEF Idle, Task, Steps, IInv, TypeOK
    <2>2. PICK q \in Task : q = [Idle EXCEPT !.pc = "supersede", !.at = now] /\ tasks' = [tasks EXCEPT ![t] = q]
      BY <1>3, <2>1 DEF RotateKey
    <2>3. q.pc = "supersede" /\ q.due = {}
      BY <2>2 DEF Idle
    <2> QED BY <1>2, <1>3, <2>2, <2>3 DEF RotateKey, LocalsOK, At, Rotating
  <1>4. CASE Sweep(t)
    <2> DEFINE expired == {v \in Active : /\ ~keys[v].current
                                          /\ keys[v].supersededAt # Never
                                          /\ PastOverlap(v, now)}
    <2>1. CASE UNCHANGED tasks
      BY <1>4, <2>1, TimeKeeps DEF Sweep, vars
    <2>2. CASE tasks' = [tasks EXCEPT ![t] = [Idle EXCEPT !.pc = "retire", !.due = expired]]
      <3>1. [Idle EXCEPT !.pc = "retire", !.due = expired] \in Task
        BY DEF Idle, Task, Steps, IInv, TypeOK, Active, Stored
      <3>2. PICK q \in Task : /\ q = [Idle EXCEPT !.pc = "retire", !.due = expired]
                              /\ tasks' = [tasks EXCEPT ![t] = q]
        BY <2>2, <3>1
      <3>3. q.pc = "retire" /\ q.due = expired
        BY <3>2 DEF Idle
      <3>4. LocalsOK(q)
        BY <3>3 DEF LocalsOK, Active, Current, PastOverlap
      <3> QED BY <1>2, <1>4, <3>2, <3>3, <3>4 DEF Sweep, At, Rotating
    <2> QED BY <1>4, <2>1, <2>2 DEF Sweep
  <1>5. CASE ReadSigningKey(t)
    <2>1. PICK v \in Current :
             tasks' = [tasks EXCEPT ![t] = [Idle EXCEPT !.pc = "sign", !.at = now, !.version = v]]
      BY <1>5 DEF ReadSigningKey
    <2>2. [Idle EXCEPT !.pc = "sign", !.at = now, !.version = v] \in Task
      BY DEF Idle, Task, Steps, IInv, TypeOK, Current, Stored, Versions
    <2>3. PICK q \in Task : /\ q = [Idle EXCEPT !.pc = "sign", !.at = now, !.version = v]
                            /\ tasks' = [tasks EXCEPT ![t] = q]
      BY <2>1, <2>2
    <2>4. q.pc = "sign" /\ q.version = v /\ q.due = {} /\ v \in Stored
      BY <2>3 DEF Idle, Current
    <2> QED BY <1>2, <1>5, <2>3, <2>4 DEF ReadSigningKey, LocalsOK, At, Rotating
  <1>6. CASE ListActive(t)
    <2>1. CASE End(t)
      BY <1>2, <1>6, <2>1, IdleOK DEF ListActive, End, At, Rotating, Idle
    <2>2. CASE tasks' = [tasks EXCEPT ![t].pc = "evict", ![t].due = OverLimit(Active)]
      <3>1. \A v \in OverLimit(Active) : v \in Stored /\ v \notin Current
        <4>1. Active \in SUBSET Versions
          BY DEF IInv, TypeOK, Active, Stored
        <4>2. \A v \in Current : v \in Active /\ \A u \in Active : u <= v
          BY DEF IInv, CurrentKeyIsUsable, Active
        <4>3. \A v \in Current : v \notin OverLimit(Active)
          BY <4>1, <4>2, NewestStays
        <4> QED BY <4>3 DEF OverLimit, Active
      <3>2. [o EXCEPT !.pc = "evict", !.due = OverLimit(Active)] \in Task
        BY <3>1 DEF Task, Steps, IInv, TypeOK, Stored
      <3>3. PICK q \in Task : /\ q = [o EXCEPT !.pc = "evict", !.due = OverLimit(Active)]
                              /\ tasks' = [tasks EXCEPT ![t] = q]
        BY <1>1, <2>2, <3>2
      <3>4. q.pc = "evict" /\ q.due = OverLimit(Active)
        BY <3>3 DEF Task
      <3>5. LocalsOK(q)
        BY <3>1, <3>4 DEF LocalsOK
      <3> QED BY <1>2, <1>6, <3>3, <3>4, <3>5 DEF ListActive, At, Rotating
    <2> QED BY <1>6, <2>1, <2>2 DEF ListActive
  <1>7. CASE Sign(t)
    <2>1. o.version \in Stored /\ o.pc = "sign"
      BY <1>1, <1>7 DEF Sign, At, LocalsOK
    <2>2. [kid |-> o.version, found |-> o.at, iat |-> now] \in Token
      BY <1>1, <2>1 DEF Token, Task, IInv, TypeOK, Stored
    <2>3. tokens' \subseteq Token /\ \A k \in tokens' : k.kid \in Stored
      BY <1>1, <1>7, <2>1, <2>2 DEF Sign, IInv, TypeOK, TokensOK
    <2>4. tasks' = [tasks EXCEPT ![t] = Idle] /\ Idle.pc \notin {"version", "insert"} /\ ~Rotating(t)
      BY <1>1, <1>7, <2>1 DEF Sign, End, Idle, Rotating
    <2> QED BY <1>7, <2>3, <2>4, IdleOK, OneTaskMoves DEF Sign, IInv, TypeOK
  <1>8. CASE Abort(t)
    <2>1. tasks' = [tasks EXCEPT ![t] = Idle] /\ Idle.pc \notin {"version", "insert"}
      BY <1>8 DEF Abort, End, Idle
    <2>2. (Rotating(t) => crashed') /\ (crashed => crashed') /\ crashed' \in BOOLEAN
      BY <1>8 DEF Abort, Rotating, IInv, TypeOK
    <2> QED BY <1>8, <2>1, <2>2, IdleOK, OneTaskMoves DEF Abort, IInv, TypeOK, TokensOK
  <1> QED BY <1>3, <1>4, <1>5, <1>6, <1>7, <1>8

LEMMA NextIInv == IInv /\ [Next]_vars => IInv'
  <1> SUFFICES ASSUME IInv, [Next]_vars PROVE IInv'
    OBVIOUS
  <1>1. CASE Tick \/ UNCHANGED vars
    BY <1>1, TimeKeeps
  <1>2. CASE CreateInitialKey
    BY <1>2, CreateKeeps
  <1>3. ASSUME NEW t \in Tasks, Continue(t) PROVE IInv'
    BY <1>3, SupersedeKeeps, ReadVersionKeeps, InsertKeeps, DeactivateKeeps, OthersKeep DEF Continue
  <1>4. ASSUME NEW t \in Tasks, RotateKey(t) \/ Sweep(t) \/ ReadSigningKey(t) \/ Abort(t) PROVE IInv'
    BY <1>4, OthersKeep
  <1> QED BY <1>1, <1>2, <1>3, <1>4 DEF Next

LEMMA Invariance == Spec => []IInv
  BY InitIInv, NextIInv, PTL DEF Spec

-----------------------------------------------------------------------------
(* The limit on active keys.                                               *)

\* The active keys that no call is about to deactivate for the limit.
Kept == {v \in Active : \A t \in Tasks : At(t, "evict") => v \notin tasks[t].due}

LimitInv ==
    /\ IsFiniteSet(Stored)
    /\ ~crashed /\ (\A t \in Tasks : ~At(t, "list")) => Cardinality(Kept) <= MaxKeys

LEMMA SmallestExists ==
  ASSUME NEW S \in SUBSET Nat, S # {}
  PROVE  \E m \in S : \A n \in S : m <= n
  <1> DEFINE less == {p \in Nat \X Nat : p[1] < p[2]}
  <1>1. IsWellFoundedOn(less, Nat)
    BY NatLessThanWellFounded DEF OpToRel
  <1>2. \A n, m \in Nat : n < m => <<n, m>> \in less
    OBVIOUS
  <1> HIDE DEF less
  <1>3. PICK m \in S : \A n \in S : ~(<<n, m>> \in less)
    BY <1>1, WFMin
  <1>4. \A n \in S : n \in Nat /\ m \in Nat /\ ~(n < m)
    BY <1>2, <1>3
  <1>5. \A n \in S : m <= n
    BY <1>4
  <1> QED BY <1>5

\* What enforceMaxKeys leaves is within the limit: all but the oldest of it is
\* newer than the oldest.
LEMMA OverLimitSuffices ==
  ASSUME NEW S \in SUBSET Versions, IsFiniteSet(S)
  PROVE  Cardinality(S \ OverLimit(S)) <= MaxKeys
  <1> DEFINE left == S \ OverLimit(S)
  <1>1. left \in SUBSET S /\ left \in SUBSET Nat /\ IsFiniteSet(left)
    BY FS_Subset DEF Versions
  <1>2. CASE left = {}
    BY <1>2, FS_EmptySet, KeyConstants
  <1>3. CASE left # {}
    <2>1. PICK m \in left : \A n \in left : m <= n
      BY <1>1, <1>3, SmallestExists
    <2> DEFINE newer == {u \in S : u > m}
    <2>2. IsFiniteSet(newer) /\ Cardinality(newer) \in Nat
      <3>1. newer \in SUBSET S
        OBVIOUS
      <3> QED BY <3>1, FS_Subset, FS_CardinalityType
    <2>3. Cardinality(newer) < MaxKeys
      <3>1. m \in S /\ ~(Cardinality(newer) >= MaxKeys)
        BY <2>1 DEF OverLimit
      <3> HIDE DEF newer
      <3> QED BY <2>2, <3>1, KeyConstants
    <2>4. left \subseteq newer \cup {m}
      <3>1. \A n \in left : n \in S /\ n \in Nat /\ m \in Nat /\ m <= n
        BY <1>1, <2>1
      <3>2. \A n \in left : n # m => n \in S /\ n > m
        <4> HIDE DEF left
        <4> QED BY <3>1
      <3>3. \A n \in left : n # m => n \in newer
        BY <3>2
      <3> QED BY <3>3
    <2>5. IsFiniteSet(newer \cup {m}) /\ Cardinality(newer \cup {m}) <= Cardinality(newer) + 1
      <3>1. m \notin newer
        <4>1. m \in Nat
          BY <1>1, <2>1
        <4> QED BY <4>1
      <3> HIDE DEF newer, left
      <3>2. /\ IsFiniteSet(newer \cup {m})
            /\ Cardinality(newer \cup {m}) = Cardinality(newer) + 1
        BY <2>2, <3>1, FS_AddElement
      <3> QED BY <2>2, <3>2
    <2>6. Cardinality(left) <= Cardinality(newer \cup {m})
      <3> HIDE DEF newer, left
      <3> QED BY <2>4, <2>5, FS_Subset
    <2>7. Cardinality(left) \in Nat /\ Cardinality(newer \cup {m}) \in Nat
      <3> HIDE DEF newer, left
      <3> QED BY <1>1, <2>5, FS_CardinalityType
    <2>8. Cardinality(left) <= MaxKeys
      <3> HIDE DEF newer, left
      <3> QED BY <2>2, <2>3, <2>5, <2>6, <2>7, KeyConstants
    <2> QED BY <2>8
  <1> QED BY <1>2, <1>3

\* The limit is kept by a step that adds no key and takes none from a list, unless
\* somebody has still to count, or it is lost with a crash.
LEMMA KeptShrinks ==
  ASSUME LimitInv, DOMAIN keys' = Stored, crashed => crashed',
         ~crashed' => /\ \A t \in Tasks : At(t, "list") => At(t, "list")'
                      /\ Kept' \subseteq Kept
  PROVE  LimitInv'
  <1>1. IsFiniteSet(Stored')
    BY DEF LimitInv, Stored
  <1>2. ASSUME ~crashed', \A t \in Tasks : ~At(t, "list")'
        PROVE  Cardinality(Kept') <= MaxKeys
    <2>1. Cardinality(Kept) <= MaxKeys /\ Kept' \subseteq Kept
      BY <1>2 DEF LimitInv
    <2>2. IsFiniteSet(Kept)
      BY FS_Subset DEF LimitInv, Kept, Active
    <2>3. Cardinality(Kept') <= Cardinality(Kept) /\ IsFiniteSet(Kept')
      BY <2>1, <2>2, FS_Subset
    <2>4. Cardinality(Kept) \in Nat /\ Cardinality(Kept') \in Nat
      BY <2>2, <2>3, FS_CardinalityType
    <2> QED BY <2>1, <2>3, <2>4, KeyConstants
  <1> QED BY <1>1, <1>2 DEF LimitInv

LEMMA InitLimit == Init => LimitInv
  <1> SUFFICES ASSUME Init PROVE LimitInv
    OBVIOUS
  <1>1. Stored = {} /\ Kept = {}
    BY DEF Init, Stored, Active, Kept
  <1> QED BY <1>1, FS_EmptySet, KeyConstants DEF LimitInv

\* A call outside enforceMaxKeys moves on, and the keys stay or fewer are active.
LEMMA BystandersKeepLimit ==
  ASSUME IInv, LimitInv, NEW t \in Tasks, NEW q \in Task,
         tasks' = [tasks EXCEPT ![t] = q], crashed => crashed',
         ~crashed' => ~At(t, "list") /\ ~At(t, "evict"),
         q.pc # "evict",
         DOMAIN keys' = Stored, \A v \in Stored : keys'[v].gone = "no" => keys[v].gone = "no"
  PROVE  LimitInv'
  <1>1. \A u \in Tasks : tasks'[u] = IF u = t THEN q ELSE tasks[u]
    BY DEF IInv, TypeOK
  <1>2. ASSUME ~crashed' PROVE Kept' \subseteq Kept
    <2>1. \A u \in Tasks : At(u, "evict") => tasks'[u] = tasks[u] /\ At(u, "evict")'
      BY <1>1, <1>2 DEF At
    <2> QED BY <2>1 DEF Kept, Active, Stored
  <1>3. ASSUME ~crashed', NEW u \in Tasks, At(u, "list") PROVE At(u, "list")'
    BY <1>1, <1>3 DEF At
  <1> QED BY <1>2, <1>3, KeptShrinks

LEMMA InsertKeepsLimit ==
  ASSUME IInv, LimitInv, NEW t \in Tasks, InsertKey(t)
  PROVE  LimitInv'
  <1>1. CASE tasks[t].version \in Stored
    BY <1>1 DEF InsertKey, LimitInv, Stored
  <1>2. CASE tasks[t].version \notin Stored
    <2>1. DOMAIN keys' = Stored \cup {tasks[t].version} /\ At(t, "list")'
      BY <1>2 DEF InsertKey, Insert, Goto, At, Idle, IInv, TypeOK
    <2>2. IsFiniteSet(Stored')
      BY <2>1, FS_AddElement DEF LimitInv, Stored
    <2> QED BY <2>1, <2>2 DEF LimitInv
  <1> QED BY <1>1, <1>2

LEMMA CreateKeepsLimit ==
  ASSUME IInv, LimitInv, CreateInitialKey
  PROVE  LimitInv'
  <1>1. DOMAIN keys' = {1}
    BY DEF CreateInitialKey, Insert
  <1>2. IsFiniteSet({1}) /\ Cardinality({1}) = 1
    BY FS_Singleton
  <1>3. Kept' \in SUBSET {1}
    BY <1>1 DEF Kept, Active, Stored
  <1>4. Cardinality(Kept') <= 1 /\ Cardinality(Kept') \in Nat
    BY <1>2, <1>3, FS_Subset, FS_CardinalityType
  <1>5. Cardinality(Kept') <= MaxKeys
    BY <1>4, KeyConstants
  <1> QED BY <1>1, <1>2, <1>5 DEF LimitInv, Stored

LEMMA ListKeepsLimit ==
  ASSUME IInv, LimitInv, NEW t \in Tasks, ListActive(t)
  PROVE  LimitInv'
  <1>1. Active \in SUBSET Versions /\ IsFiniteSet(Active)
    BY FS_Subset DEF IInv, TypeOK, LimitInv, Active, Stored
  <1>2. Active' = Active /\ Stored' = Stored /\ crashed' = crashed
    BY DEF ListActive, Active, Stored
  <1>3. Kept' \subseteq Active \ OverLimit(Active)
    <2>1. CASE OverLimit(Active) = {}
      BY <1>2, <2>1 DEF Kept
    <2>2. CASE OverLimit(Active) # {}
      <3>1. At(t, "evict")' /\ tasks'[t].due = OverLimit(Active)
        BY <2>2 DEF ListActive, At, IInv, TypeOK, Task
      <3> QED BY <1>2, <3>1 DEF Kept
    <2> QED BY <2>1, <2>2
  <1>4. Cardinality(Active \ OverLimit(Active)) <= MaxKeys
    BY <1>1, OverLimitSuffices
  <1>5. IsFiniteSet(Active \ OverLimit(Active))
    BY <1>1, FS_Subset
  <1>6. Cardinality(Kept') <= Cardinality(Active \ OverLimit(Active)) /\ IsFiniteSet(Kept')
    BY <1>3, <1>5, FS_Subset
  <1>7. Cardinality(Kept') \in Nat /\ Cardinality(Active \ OverLimit(Active)) \in Nat
    BY <1>5, <1>6, FS_CardinalityType
  <1>8. Cardinality(Kept') <= MaxKeys
    BY <1>4, <1>6, <1>7, KeyConstants
  <1> QED BY <1>2, <1>8 DEF LimitInv

\* A key leaves a list when it is deactivated.
LEMMA EvictKeepsLimit ==
  ASSUME IInv, LimitInv, NEW t \in Tasks, Evict(t)
  PROVE  LimitInv'
  <1>1. PICK v \in tasks[t].due :
           /\ Deactivate(v, "limit")
           /\ IF tasks[t].due = {v} THEN End(t)
                                    ELSE tasks' = [tasks EXCEPT ![t].due = @ \ {v}]
           /\ At(t, "evict") /\ crashed' = crashed
    BY DEF Evict, DeactivateNext
  <1>2. v \in Stored
    BY <1>1 DEF IInv, LocalsOK
  <1>3. /\ DOMAIN keys' = Stored
        /\ keys'[v].gone # "no"
        /\ \A u \in Stored : u # v => keys'[u] = keys[u]
    BY <1>1, <1>2 DEF Deactivate, IInv, TypeOK, Key, Stored
  <1>4. \A u \in Tasks : u # t => tasks'[u] = tasks[u]
    BY <1>1 DEF End, IInv, TypeOK
  <1>5. (At(t, "evict")' /\ tasks'[t].due = tasks[t].due \ {v}) \/ tasks[t].due = {v}
    BY <1>1 DEF At, IInv, TypeOK, Task
  <1>6. Kept' \subseteq Kept
    <2> SUFFICES ASSUME NEW w \in Kept' PROVE w \in Kept
      OBVIOUS
    <2>1. w \in Active /\ w # v
      BY <1>3 DEF Kept, Active, Stored
    <2>2. w \notin tasks[t].due
      BY <1>5, <2>1 DEF Kept
    <2>3. \A u \in Tasks : u # t /\ At(u, "evict") => w \notin tasks[u].due
      BY <1>4 DEF Kept, At
    <2> QED BY <2>1, <2>2, <2>3 DEF Kept
  <1>7. \A u \in Tasks : At(u, "list") => At(u, "list")'
    BY <1>1, <1>4 DEF At
  <1> QED BY <1>1, <1>3, <1>6, <1>7, KeptShrinks

LEMMA OthersKeepLimit ==
  ASSUME IInv, LimitInv, NEW t \in Tasks,
         \/ RotateKey(t) \/ Supersede(t) \/ ReadVersion(t) \/ Sweep(t)
         \/ Retire(t) \/ ReadSigningKey(t) \/ Sign(t) \/ Abort(t)
  PROVE  LimitInv'
  <1>1. tasks' \in [Tasks -> Task]
    <2>1. IInv'
      BY NextIInv DEF Next, Continue
    <2> QED BY <2>1 DEF IInv, TypeOK
  <1>2. PICK q \in Task : q = tasks'[t]
    BY <1>1
  <1>3. \A u \in Tasks : u # t => tasks'[u] = tasks[u]
    BY DEF RotateKey, Supersede, ReadVersion, Sweep, Retire, DeactivateNext, ReadSigningKey,
           Sign, Abort, Goto, End, IInv, TypeOK
  <1>4. tasks' = [tasks EXCEPT ![t] = q]
    BY <1>1, <1>2, <1>3 DEF IInv, TypeOK
  <1>5. q.pc # "evict"
    <2>1. CASE RotateKey(t)
      BY <1>2, <2>1 DEF RotateKey, Idle, IInv, TypeOK
    <2>2. CASE Sweep(t)
      BY <1>2, <2>2 DEF Sweep, At, Idle, IInv, TypeOK
    <2>3. CASE ReadSigningKey(t)
      BY <1>2, <2>3 DEF ReadSigningKey, Idle, IInv, TypeOK
    <2>4. CASE Supersede(t)
      <3>1. q = Idle \/ q = [Idle EXCEPT !.pc = "version"]
        BY <1>2, <2>4 DEF Supersede, Goto, End, IInv, TypeOK
      <3> QED BY <3>1 DEF Idle
    <2>5. CASE Sign(t) \/ Abort(t)
      BY <1>2, <2>5 DEF Sign, Abort, End, Idle, IInv, TypeOK
    <2>6. CASE ReadVersion(t)
      BY <1>2, <2>6 DEF ReadVersion, IInv, TypeOK, Task
    <2>7. CASE Retire(t)
      BY <1>2, <2>7 DEF Retire, DeactivateNext, At, End, Idle, IInv, TypeOK, Task
    <2> QED BY <2>1, <2>4, <2>6, <2>7, <2>2, <2>3, <2>5
  <1>6. (crashed => crashed') /\ (~crashed' => ~At(t, "list") /\ ~At(t, "evict"))
    <2>1. CASE Abort(t)
      BY <2>1 DEF Abort, At, IInv, TypeOK
    <2>2. CASE ~Abort(t)
      <3>1. crashed' = crashed
        BY <2>2 DEF RotateKey, Sweep, ReadSigningKey, Supersede, ReadVersion, Retire,
                    DeactivateNext, Sign
      <3>2. tasks[t].pc \in {"idle", "supersede", "version", "retire", "sign"}
        BY <2>2 DEF RotateKey, Sweep, ReadSigningKey, Supersede, ReadVersion, Retire,
                    DeactivateNext, Sign, At
      <3> QED BY <3>1, <3>2 DEF At
    <2> QED BY <2>1, <2>2
  <1>7. DOMAIN keys' = Stored /\ \A v \in Stored : keys'[v].gone = "no" => keys[v].gone = "no"
    <2>1. CASE UNCHANGED keys
      BY <2>1 DEF Stored
    <2>2. CASE Supersede(t)
      BY <2>2 DEF Supersede, IInv, TypeOK, Key, Stored
    <2>3. CASE Retire(t)
      BY <2>3 DEF Retire, DeactivateNext, Deactivate, IInv, TypeOK, Key, Stored
    <2> QED BY <2>1, <2>2, <2>3 DEF RotateKey, ReadVersion, Sweep, ReadSigningKey, Sign, Abort
  <1> QED BY <1>4, <1>5, <1>6, <1>7, BystandersKeepLimit

LEMMA NextLimit == IInv /\ LimitInv /\ [Next]_vars => LimitInv'
  <1> SUFFICES ASSUME IInv, LimitInv, [Next]_vars PROVE LimitInv'
    OBVIOUS
  <1>1. CASE Tick \/ UNCHANGED vars
    BY <1>1 DEF Tick, vars, LimitInv, Kept, Active, Stored, At
  <1>2. CASE CreateInitialKey
    BY <1>2, CreateKeepsLimit
  <1>3. ASSUME NEW t \in Tasks,
               RotateKey(t) \/ Sweep(t) \/ ReadSigningKey(t) \/ Continue(t) \/ Abort(t)
        PROVE  LimitInv'
    BY <1>3, InsertKeepsLimit, ListKeepsLimit, EvictKeepsLimit, OthersKeepLimit DEF Continue
  <1> QED BY <1>1, <1>2, <1>3 DEF Next

LEMMA LimitInvariance == Spec => []LimitInv
  BY InitLimit, NextLimit, Invariance, PTL DEF Spec

-----------------------------------------------------------------------------
(* The times of keys and tokens.                                           *)

LEMMA InitTimes == Init => TimesInv
  BY DEF Init, TimesInv, At, Idle, Stored

\* Steps that leave tokens and superseded keys as they are, and start no call that
\* acts on a time.
LEMMA BystandersKeepTimes ==
  ASSUME IInv, TimesInv, now' \in Nat, now' >= now, UNCHANGED tokens, Stored \subseteq DOMAIN keys',
         \A v \in Stored : /\ keys'[v].supersededAt = keys[v].supersededAt
                           /\ keys'[v].leftAt = keys[v].leftAt,
         \A v \in DOMAIN keys' \ Stored : keys'[v].supersededAt = Never,
         \A t \in Tasks : \/ tasks'[t] = tasks[t]
                          \/ tasks'[t].pc \notin {"sign", "supersede"}
  PROVE  TimesInv'
  <1>1. ASSUME NEW v \in Stored, NEW time \in Nat, FoundInTime(v, time)
        PROVE  time <= now' /\ (keys'[v].supersededAt # Never => time <= keys'[v].leftAt)
    BY <1>1 DEF FoundInTime, IInv, TypeOK
  <1>2. ASSUME NEW k \in tokens'
        PROVE  /\ k.found <= now' /\ (keys'[k.kid].supersededAt # Never => k.found <= keys'[k.kid].leftAt)
               /\ k.found <= k.iat
    <2>1. k \in tokens /\ k.kid \in Stored /\ k.found \in Nat
      BY <1>2 DEF IInv, TokensOK, TypeOK, Token
    <2> QED BY <1>1, <2>1 DEF TimesInv
  <1>3. ASSUME NEW t \in Tasks, tasks'[t].pc = "sign"
        PROVE  /\ tasks'[t].at <= now'
               /\ keys'[tasks'[t].version].supersededAt # Never =>
                     tasks'[t].at <= keys'[tasks'[t].version].leftAt
    <2>1. tasks'[t] = tasks[t] /\ tasks[t] \in Task
      BY <1>3 DEF IInv, TypeOK
    <2>2. tasks[t].version \in Stored /\ tasks[t].at \in Nat
      BY <1>3, <2>1 DEF IInv, LocalsOK, Task
    <2>3. FoundInTime(tasks[t].version, tasks[t].at)
      BY <1>3, <2>1 DEF TimesInv, At
    <2> QED BY <1>1, <2>1, <2>2, <2>3
  <1>4. ASSUME NEW t \in Tasks, tasks'[t].pc = "supersede" PROVE tasks'[t].at <= now'
    <2>1. tasks'[t] = tasks[t] /\ tasks[t].at \in Nat
      BY <1>4 DEF IInv, TypeOK, Task
    <2>2. tasks[t].at <= now
      BY <1>4, <2>1 DEF TimesInv, At
    <2> QED BY <2>1, <2>2 DEF IInv, TypeOK
  <1>5. ASSUME NEW v \in DOMAIN keys', keys'[v].supersededAt # Never
        PROVE  keys'[v].supersededAt <= keys'[v].leftAt
    <2>1. v \in Stored
      BY <1>5
    <2> QED BY <1>5, <2>1 DEF TimesInv
  <1> QED BY <1>2, <1>3, <1>4, <1>5 DEF TimesInv, FoundInTime, At, Stored

\* The UPDATE comes after everyone who found the key current.
LEMMA SupersedeKeepsTimes ==
  ASSUME IInv, TimesInv, NEW t \in Tasks, Supersede(t)
  PROVE  TimesInv'
  <1>1. /\ DOMAIN keys' = Stored /\ now \in Nat /\ UNCHANGED <<now, tokens>>
        /\ \A v \in Stored :
              \/ keys'[v] = keys[v]
              \/ keys'[v].supersededAt = tasks[t].at /\ keys'[v].leftAt = now
    BY DEF Supersede, IInv, TypeOK, Key, Stored
  <1>2. tasks[t].at <= now
    BY DEF Supersede, TimesInv
  <1>3. ASSUME NEW v \in Stored, NEW time, FoundInTime(v, time)
        PROVE  time <= now' /\ (keys'[v].supersededAt # Never => time <= keys'[v].leftAt)
    BY <1>1, <1>3 DEF FoundInTime
  <1>4. \A u \in Tasks : tasks'[u] = tasks[u] \/ tasks'[u].pc \notin {"sign", "supersede"}
    <2>1. PICK q : tasks' = [tasks EXCEPT ![t] = q] /\ q.pc \in {"version", "idle"}
      <3>1. Goto(t, "version") \/ End(t)
        BY DEF Supersede
      <3>2. [Idle EXCEPT !.pc = "version"].pc = "version" /\ Idle.pc = "idle"
        BY DEF Idle
      <3> QED BY <3>1, <3>2 DEF Goto, End
    <2> QED BY <2>1 DEF IInv, TypeOK
  <1>5. \A k \in tokens : k.kid \in Stored
    BY DEF IInv, TokensOK
  <1>6. \A u \in Tasks : At(u, "sign") => tasks[u].version \in Stored
    BY DEF IInv, LocalsOK, At
  <1>7. \A k \in tokens' : FoundInTime(k.kid, k.found)' /\ k.found <= k.iat
    BY <1>1, <1>3, <1>5 DEF TimesInv, FoundInTime
  <1>8. ASSUME NEW u \in Tasks, At(u, "sign")'
        PROVE  FoundInTime(tasks[u].version, tasks[u].at)'
    <2>1. PICK q : q = tasks[u] /\ tasks'[u] = q /\ At(u, "sign")
      BY <1>4, <1>8 DEF At
    <2>2. q.version \in Stored /\ FoundInTime(q.version, q.at)
      BY <1>6, <2>1 DEF TimesInv
    <2> QED BY <1>3, <2>1, <2>2 DEF FoundInTime
  <1>9. \A u \in Tasks : At(u, "supersede")' => tasks'[u].at <= now'
    BY <1>1, <1>4 DEF TimesInv, At
  <1>10. \A v \in Stored : keys'[v].supersededAt # Never => keys'[v].supersededAt <= keys'[v].leftAt
    BY <1>1, <1>2 DEF TimesInv
  <1> QED BY <1>1, <1>7, <1>8, <1>9, <1>10 DEF TimesInv, Stored

LEMMA SignKeepsTimes ==
  ASSUME IInv, TimesInv, NEW t \in Tasks, Sign(t)
  PROVE  TimesInv'
  <1>1. PICK q \in Task : q = tasks[t] /\ FoundInTime(q.version, q.at) /\ q.at <= now
    BY DEF Sign, TimesInv, FoundInTime, IInv, TypeOK
  <1>2. /\ tokens' = tokens \cup {[kid |-> q.version, found |-> q.at, iat |-> now]}
        /\ UNCHANGED <<now, keys>>
    BY <1>1 DEF Sign
  <1>3. \A u \in Tasks : tasks'[u] = tasks[u] \/ tasks'[u].pc = "idle"
    BY DEF Sign, End, Idle, IInv, TypeOK
  <1>4. \A k \in tokens' : FoundInTime(k.kid, k.found)' /\ k.found <= k.iat
    BY <1>1, <1>2 DEF TimesInv, FoundInTime
  <1>5. ASSUME NEW u \in Tasks, At(u, "sign")' PROVE FoundInTime(tasks[u].version, tasks[u].at)'
    <2>1. PICK p : p = tasks[u] /\ tasks'[u] = p /\ At(u, "sign")
      BY <1>3, <1>5 DEF At
    <2> QED BY <1>2, <2>1 DEF TimesInv, FoundInTime
  <1>6. \A u \in Tasks : At(u, "supersede")' => tasks'[u].at <= now'
    BY <1>2, <1>3 DEF TimesInv, At
  <1> QED BY <1>2, <1>4, <1>5, <1>6 DEF TimesInv, Stored

\* A call that takes its time takes the present one.
LEMMA StartKeepsTimes ==
  ASSUME IInv, TimesInv, NEW t \in Tasks, RotateKey(t) \/ ReadSigningKey(t)
  PROVE  TimesInv'
  <1>1. PICK q : /\ tasks' = [tasks EXCEPT ![t] = q]
                 /\ q.at = now
                 /\ q.pc = "supersede" \/ (q.pc = "sign" /\ q.version \in Current)
    <2>1. CASE RotateKey(t)
      <3>1. PICK q : q = [Idle EXCEPT !.pc = "supersede", !.at = now]
        OBVIOUS
      <3>2. q.pc = "supersede" /\ q.at = now
        BY <3>1 DEF Idle
      <3> QED BY <2>1, <3>1, <3>2 DEF RotateKey
    <2>2. CASE ReadSigningKey(t)
      <3>1. PICK v \in Current : tasks' = [tasks EXCEPT ![t] =
               [Idle EXCEPT !.pc = "sign", !.at = now, !.version = v]]
        BY <2>2 DEF ReadSigningKey
      <3>2. PICK q : q = [Idle EXCEPT !.pc = "sign", !.at = now, !.version = v]
        OBVIOUS
      <3>3. q.pc = "sign" /\ q.at = now /\ q.version = v
        BY <3>2 DEF Idle
      <3> QED BY <3>1, <3>2, <3>3
    <2> QED BY <2>1, <2>2
  <1>2. UNCHANGED <<now, keys, tokens>> /\ now \in Nat
    BY DEF RotateKey, ReadSigningKey, IInv, TypeOK
  <1>3. \A u \in Tasks : tasks'[u] = IF u = t THEN q ELSE tasks[u]
    BY <1>1 DEF IInv, TypeOK
  <1>4. q.pc = "sign" => keys[q.version].supersededAt = Never
    BY <1>1 DEF IInv, KeysOK, KeyOK, Current
  <1>5. ASSUME NEW u \in Tasks, At(u, "sign")' PROVE FoundInTime(tasks[u].version, tasks[u].at)'
    <2>1. PICK p : p = tasks'[u] /\ p.pc = "sign"
      BY <1>5 DEF At
    <2>2. FoundInTime(p.version, p.at)
      BY <1>1, <1>2, <1>3, <1>4, <2>1 DEF TimesInv, FoundInTime, At
    <2> QED BY <1>2, <2>1, <2>2 DEF FoundInTime
  <1>6. \A u \in Tasks : At(u, "supersede")' => tasks'[u].at <= now'
    BY <1>1, <1>2, <1>3 DEF TimesInv, At
  <1> QED BY <1>2, <1>5, <1>6 DEF TimesInv, FoundInTime, Stored

LEMMA OthersKeepTimes ==
  ASSUME IInv, TimesInv, NEW t \in Tasks,
         \/ ReadVersion(t) \/ InsertKey(t) \/ ListActive(t) \/ Evict(t)
         \/ Retire(t) \/ Sweep(t) \/ Abort(t)
  PROVE  TimesInv'
  <1>1. UNCHANGED <<now, tokens>> /\ now \in Nat
    BY DEF ReadVersion, InsertKey, ListActive, Evict, Retire, DeactivateNext, Sweep, Abort,
           IInv, TypeOK
  <1>2. ASSUME NEW u \in Tasks
        PROVE  tasks'[u] = tasks[u] \/ tasks'[u].pc \notin {"sign", "supersede"}
    <2>1. PICK q : /\ tasks' = tasks \/ tasks' = [tasks EXCEPT ![t] = q]
                   /\ q.pc \in {"insert", "idle", "list", "evict", "retire"}
      <3>1. Idle.pc = "idle" /\ [Idle EXCEPT !.pc = "list"].pc = "list" /\ tasks[t] \in Task
        BY DEF Idle, IInv, TypeOK
      <3>2. CASE ReadVersion(t)
        <4>1. PICK n, q : /\ q = [tasks[t] EXCEPT !.pc = "insert", !.version = n]
                          /\ tasks' = [tasks EXCEPT ![t] = q]
          BY <3>2 DEF ReadVersion
        <4>2. q.pc = "insert"
          BY <3>1, <4>1 DEF Task
        <4> QED BY <4>1, <4>2
      <3>3. CASE InsertKey(t) \/ Abort(t)
        BY <3>1, <3>3 DEF InsertKey, Abort, Goto, End
      <3>4. CASE ListActive(t)
        <4>1. PICK q : q = [tasks[t] EXCEPT !.pc = "evict", !.due = OverLimit(Active)]
          OBVIOUS
        <4>2. End(t) \/ tasks' = [tasks EXCEPT ![t] = q]
          BY <3>4, <4>1 DEF ListActive
        <4>3. q.pc = "evict"
          BY <3>1, <4>1 DEF Task
        <4> QED BY <3>1, <4>2, <4>3 DEF End
      <3>5. CASE Evict(t) \/ Retire(t)
        <4>1. PICK v : \/ End(t)
                       \/ tasks' = [tasks EXCEPT ![t].due = @ \ {v}]
          BY <3>5 DEF Evict, Retire, DeactivateNext
        <4>2. PICK q : q = [tasks[t] EXCEPT !.due = @ \ {v}]
          OBVIOUS
        <4>3. q.pc \in {"evict", "retire"}
          BY <3>1, <3>5, <4>2 DEF Evict, Retire, DeactivateNext, At, Task
        <4> QED BY <3>1, <4>1, <4>2, <4>3 DEF End
      <3>6. CASE Sweep(t)
        <4>1. PICK due, q : /\ q = [Idle EXCEPT !.pc = "retire", !.due = due]
                            /\ tasks' = tasks \/ tasks' = [tasks EXCEPT ![t] = q]
          BY <3>6 DEF Sweep
        <4>2. q.pc = "retire"
          BY <4>1 DEF Idle
        <4> QED BY <4>1, <4>2
      <3> QED BY <3>2, <3>3, <3>4, <3>5, <3>6
    <2> QED BY <2>1 DEF IInv, TypeOK
  <1>3. CASE UNCHANGED keys
    BY <1>1, <1>2, <1>3, BystandersKeepTimes DEF Stored
  <1>4. CASE InsertKey(t) /\ tasks[t].version \notin Stored
    <2>1. /\ DOMAIN keys' = Stored \cup {tasks[t].version}
          /\ \A v \in Stored : keys'[v] = keys[v]
          /\ \A v \in DOMAIN keys' \ Stored : keys'[v].supersededAt = Never
      BY <1>4 DEF InsertKey, Insert, NewKey
    <2> QED BY <1>1, <1>2, <2>1, BystandersKeepTimes
  <1>5. CASE Evict(t) \/ Retire(t)
    <2>1. PICK why, v : Deactivate(v, why)
      BY <1>5 DEF Evict, Retire, DeactivateNext
    <2>2. /\ DOMAIN keys' = Stored
          /\ \A u \in Stored : /\ keys'[u].supersededAt = keys[u].supersededAt
                               /\ keys'[u].leftAt = keys[u].leftAt
      BY <2>1 DEF Deactivate, IInv, TypeOK, Key, Stored
    <2> QED BY <1>1, <1>2, <2>2, BystandersKeepTimes
  <1> QED BY <1>3, <1>4, <1>5 DEF ReadVersion, InsertKey, ListActive, Sweep, Abort

LEMMA NextTimes == IInv /\ TimesInv /\ [Next]_vars => TimesInv'
  <1> SUFFICES ASSUME IInv, TimesInv, [Next]_vars PROVE TimesInv'
    OBVIOUS
  <1>1. CASE Tick \/ UNCHANGED vars
    <2>1. now' \in Nat /\ now' >= now /\ UNCHANGED <<keys, tokens, tasks>>
      BY <1>1 DEF Tick, vars, IInv, TypeOK
    <2> QED BY <2>1, BystandersKeepTimes DEF Stored
  <1>2. CASE CreateInitialKey
    <2>1. /\ Stored = {} /\ UNCHANGED <<now, tokens, tasks>> /\ now \in Nat
          /\ \A v \in DOMAIN keys' : keys'[v].supersededAt = Never
      BY <1>2 DEF CreateInitialKey, Insert, NewKey, IInv, TypeOK
    <2> QED BY <2>1, BystandersKeepTimes
  <1>3. ASSUME NEW t \in Tasks,
               RotateKey(t) \/ Sweep(t) \/ ReadSigningKey(t) \/ Continue(t) \/ Abort(t)
        PROVE  TimesInv'
    BY <1>3, SupersedeKeepsTimes, SignKeepsTimes, StartKeepsTimes, OthersKeepTimes DEF Continue
  <1> QED BY <1>1, <1>2, <1>3 DEF Next

LEMMA TimesInvariance == Spec => []TimesInv
  BY InitTimes, NextTimes, Invariance, PTL DEF Spec

-----------------------------------------------------------------------------
(* The theorems.                                                           *)

\* The keys, the signed tokens and the locals of every task keep their types.
THEOREM TypeCorrect == Spec => []TypeOK
  <1>1. IInv => TypeOK
    BY DEF IInv
  <1> QED BY <1>1, Invariance, PTL

\* However many rotations, cron passes and signatures overlap, the tenant has at
\* most one current key, the newest, and it is published.
THEOREM SigningKeyIsUsable == Spec => []CurrentKeyIsUsable
  <1>1. IInv => CurrentKeyIsUsable
    BY DEF IInv
  <1> QED BY <1>1, Invariance, PTL

\* The insert of a rotation never fails on the unique index.
THEOREM RotationInsertsItsKey == Spec => []VersionIsFree
  <1>1. IInv => VersionIsFree
    BY DEF IInv, LocalsOK, VersionIsFree, At, TypeOK, Stored, Versions
  <1> QED BY <1>1, Invariance, PTL

\* A tenant without a current key is in the middle of a rotation, or one was cut
\* short.
THEOREM OnlyACrashLeavesNoKey == Spec => []KeylessOnlyInRotation
  <1>1. IInv => KeylessOnlyInRotation
    BY DEF IInv
  <1> QED BY <1>1, Invariance, PTL

\* The cron job outwaits every token, but for the time rotateKey took to its UPDATE
\* and the time the token took to be signed.
THEOREM CronWaitsForTokens == Spec => []OverlapIsKept
  <1>1. IInv /\ TimesInv => OverlapIsKept
    <2> SUFFICES ASSUME IInv, TimesInv, NEW k \in tokens, keys[k.kid].gone = "expired"
                 PROVE  now + (IF k.found <= keys[k.kid].supersededAt
                                 THEN 0 ELSE keys[k.kid].leftAt - keys[k.kid].supersededAt)
                            + (k.iat - k.found) > k.iat + TokenLifetime
      BY DEF OverlapIsKept
    <2>1. k.kid \in Stored /\ k.iat \in Nat /\ k.found \in Nat
      BY DEF IInv, TokensOK, TypeOK, Token
    <2>2. /\ keys[k.kid].supersededAt \in Nat /\ keys[k.kid].leftAt \in Nat
          /\ keys[k.kid].supersededAt # Never
          /\ keys[k.kid].supersededAt + Overlap < now
      BY <2>1, KeyConstants DEF IInv, KeysOK, KeyOK, TypeOK, Key, Stored
    <2>3. k.found <= keys[k.kid].leftAt
      BY <2>2 DEF TimesInv, FoundInTime
    <2> QED BY <2>1, <2>2, <2>3, KeyConstants, WindowCoversTokens DEF IInv, TypeOK
  <1> QED BY <1>1, Invariance, TimesInvariance, PTL

\* Whatever rotations overlap, and whatever limit is set, the number of active
\* keys is within it once they are done, unless one of them was cut short.
THEOREM LimitHolds == Spec => []LimitIsEnforced
  <1>1. IInv /\ LimitInv => LimitIsEnforced
    <2> SUFFICES ASSUME IInv, LimitInv, ~crashed,
                        \A t \in Tasks : tasks[t].pc \notin {"list", "evict"}
                 PROVE  Cardinality(Active) <= MaxKeys
      BY DEF LimitIsEnforced
    <2>1. Kept = Active
      BY DEF Kept, At
    <2> QED BY <2>1 DEF LimitInv, At
  <1> QED BY <1>1, Invariance, LimitInvariance, PTL

-----------------------------------------------------------------------------
(* The refinement.                                                         *)

LEMMA SamePhases ==
  ASSUME \A v \in Versions : PhaseOf(v)' = PhaseOf(v)
  PROVE  UNCHANGED [v \in Versions |-> PhaseOf(v)]
  OBVIOUS

LEMMA SameKeys ==
  ASSUME UNCHANGED keys
  PROVE  UNCHANGED [v \in Versions |-> PhaseOf(v)]
  <1>1. \A v \in Versions : PhaseOf(v)' = PhaseOf(v)
    BY DEF PhaseOf, Stored
  <1> QED BY <1>1, SamePhases

\* Either INSERT: there is no current key, and none as new as this one.
LEMMA InsertAdds ==
  ASSUME TypeOK, NEW v \in Versions, v \notin Stored, Insert(v), Current = {},
         \A u \in Stored : u < v
  PROVE  Ring!Next
  <1>1. /\ DOMAIN keys' = Stored \cup {v} /\ keys'[v] = NewKey
        /\ \A u \in Stored : keys'[u] = keys[u]
    BY InsertType
  <1>2. keys'[v].current
    BY <1>1 DEF NewKey
  <1>3. \A u \in Versions : PhaseOf(u)' = IF u = v THEN "current" ELSE PhaseOf(u)
    BY <1>1, <1>2 DEF PhaseOf, Stored
  <1>4. PhaseOf(v) = "absent"
    BY DEF PhaseOf
  <1>5. \A u \in Versions : /\ PhaseOf(u) # "current"
                            /\ PhaseOf(u) # "absent" => u < v
    BY DEF PhaseOf, Current
  <1>6. Ring!Add(v)
    BY <1>3, <1>4, <1>5 DEF Ring!Add
  <1> QED BY <1>6 DEF Ring!Next

\* The conditional UPDATE finds one current key, which is published, or none.
LEMMA SupersedeRefines ==
  ASSUME IInv, NEW t \in Tasks, Supersede(t)
  PROVE  Ring!Next \/ UNCHANGED [v \in Versions |-> PhaseOf(v)]
  <1>1. /\ DOMAIN keys' = Stored
        /\ \A u \in Stored : keys'[u] = IF keys[u].current
                                 THEN [keys[u] EXCEPT !.current = FALSE, !.supersededAt = tasks[t].at,
                                                      !.leftAt = now]
                                 ELSE keys[u]
    BY DEF Supersede
  <1>2. \A u \in Stored : /\ ~keys'[u].current
                          /\ keys'[u].gone = keys[u].gone
    BY <1>1 DEF IInv, TypeOK, Key, Stored
  <1>3. \A u \in Versions \ Current : PhaseOf(u)' = PhaseOf(u)
    BY <1>1 DEF PhaseOf, Current, Stored
  <1>4. CASE Current = {}
    BY <1>3, <1>4, SamePhases
  <1>5. CASE Current # {}
    <2>1. PICK v \in Current : TRUE
      BY <1>5
    <2>2. v \in Versions /\ keys[v].current /\ keys[v].gone = "no" /\ v \in Stored
      BY DEF IInv, TypeOK, CurrentKeyIsUsable, Active, Current, Stored
    <2>3. Current = {v}
      BY <2>1 DEF IInv, TypeOK, CurrentKeyIsUsable, Current, Stored, Versions
    <2>4. PhaseOf(v) = "current" /\ PhaseOf(v)' = "superseded"
      BY <1>1, <1>2, <2>2 DEF PhaseOf, Stored
    <2>5. Ring!Supersede(v)
      BY <1>3, <2>2, <2>3, <2>4 DEF Ring!Supersede
    <2> QED BY <2>2, <2>5 DEF Ring!Next
  <1> QED BY <1>4, <1>5

\* A deactivation is of a superseded key, or changes no phase: that of a key an
\* overlapping call has deactivated already.
LEMMA DeactivateRefines ==
  ASSUME IInv, NEW t \in Tasks, Evict(t) \/ Retire(t)
  PROVE  Ring!Next \/ UNCHANGED [v \in Versions |-> PhaseOf(v)]
  <1>1. PICK why \in {"limit", "expired"}, v \in tasks[t].due :
           Deactivate(v, why) /\ tasks[t].pc \in {"evict", "retire"}
    BY DEF Evict, Retire, DeactivateNext, At
  <1>2. v \in Stored /\ v \notin Current /\ v \in Versions
    BY <1>1 DEF IInv, TypeOK, LocalsOK, Stored
  <1>3. /\ DOMAIN keys' = Stored
        /\ \A u \in Stored : u # v => keys'[u] = keys[u]
        /\ ~keys'[v].current /\ ~keys[v].current
        /\ keys'[v].gone = keys[v].gone \/ keys'[v].gone = why
    BY <1>1, <1>2, DeactivateEffect DEF Current
  <1>4. \A u \in Versions : u # v => PhaseOf(u)' = PhaseOf(u)
    BY <1>3 DEF PhaseOf, Stored
  <1>5. CASE PhaseOf(v)' = PhaseOf(v)
    BY <1>4, <1>5, SamePhases
  <1>6. CASE PhaseOf(v)' # PhaseOf(v)
    <2>1. PhaseOf(v) = "superseded" /\ PhaseOf(v)' = "retired"
      BY <1>1, <1>2, <1>3, <1>6 DEF PhaseOf, Stored
    <2>2. Ring!Retire(v)
      BY <1>2, <1>4, <2>1 DEF Ring!Retire
    <2> QED BY <1>2, <2>2 DEF Ring!Next
  <1> QED BY <1>5, <1>6

LEMMA StepRefinesRing ==
  ASSUME IInv, [Next]_vars
  PROVE  Ring!Next \/ UNCHANGED [v \in Versions |-> PhaseOf(v)]
  <1>1. ASSUME CreateInitialKey PROVE Ring!Next
    <2>1. 1 \in Versions /\ Insert(1) /\ Stored = {} /\ Current = {}
      BY <1>1 DEF CreateInitialKey, Versions, Current
    <2> QED BY <2>1, InsertAdds DEF IInv
  <1>2. ASSUME NEW t \in Tasks, InsertKey(t)
        PROVE  Ring!Next \/ UNCHANGED [v \in Versions |-> PhaseOf(v)]
    <2>1. PICK v : v = tasks[t].version
      OBVIOUS
    <2>2. /\ v \in Versions /\ v \notin Stored /\ Current = {}
          /\ \A u \in Stored : u < v
      BY <1>2, <2>1 DEF InsertKey, At, IInv, LocalsOK, Rotating, Exclusive, Versions
    <2>3. Insert(v)
      BY <1>2, <2>1, <2>2 DEF InsertKey
    <2> QED BY <2>2, <2>3, InsertAdds DEF IInv
  <1>3. ASSUME NEW t \in Tasks,
               \/ RotateKey(t) \/ Sweep(t) \/ ReadSigningKey(t) \/ Abort(t)
               \/ ReadVersion(t) \/ ListActive(t) \/ Sign(t)
        PROVE  UNCHANGED keys
    BY <1>3 DEF RotateKey, Sweep, ReadSigningKey, Abort, ReadVersion, ListActive, Sign
  <1>4. ASSUME Tick \/ UNCHANGED vars PROVE UNCHANGED keys
    BY <1>4 DEF Tick, vars
  <1> QED BY <1>1, <1>2, <1>3, <1>4, SupersedeRefines, DeactivateRefines, SameKeys
          DEF Next, Continue

LEMMA InitRefinesRing == Init => Ring!Init
  BY DEF Init, Ring!Init, PhaseOf, Stored

\* Any number of overlapping rotations, cron passes and crashes implements the ring
\* of keys that signers and verifiers rely on: every step moves one key on, or none.
THEOREM RotationImplementsKeyRing == Spec => ImplementsKeyRing
  BY InitRefinesRing, StepRefinesRing, Invariance, PTL DEF Spec, ImplementsKeyRing, Ring!Spec

LEMMA RingStepsForward ==
  ASSUME [Ring!Next]_[v \in Versions |-> PhaseOf(v)]
  PROVE  Ring!NoKeyReturns
  <1> DEFINE Forward(v) ==
        /\ PhaseOf(v) = "retired" => PhaseOf(v)' = "retired"
        /\ PhaseOf(v) = "superseded" => PhaseOf(v)' \in {"superseded", "retired"}
        /\ PhaseOf(v) = "current" => PhaseOf(v)' \in {"current", "superseded"}
  <1>1. ASSUME NEW u \in Versions, Ring!Add(u) PROVE \A v \in Versions : Forward(v)
    BY <1>1 DEF Ring!Add
  <1>2. ASSUME NEW u \in Versions, Ring!Supersede(u) PROVE \A v \in Versions : Forward(v)
    BY <1>2 DEF Ring!Supersede
  <1>3. ASSUME NEW u \in Versions, Ring!Retire(u) PROVE \A v \in Versions : Forward(v)
    BY <1>3 DEF Ring!Retire
  <1>4. ASSUME UNCHANGED [v \in Versions |-> PhaseOf(v)] PROVE \A v \in Versions : Forward(v)
    <2>1. \A v \in Versions : PhaseOf(v)' = PhaseOf(v)
      BY <1>4
    <2> QED BY <2>1
  <1>5. \A v \in Versions : Forward(v)
    BY <1>1, <1>2, <1>3, <1>4 DEF Ring!Next
  <1> QED BY <1>5 DEF Ring!NoKeyReturns

\* No call, however old the table it decided on, brings a key back: a superseded
\* key never signs again, and a retired one is never published again.
THEOREM NoKeyComesBack == Spec => [][Ring!NoKeyReturns]_[v \in Versions |-> PhaseOf(v)]
  BY RingStepsForward, RotationImplementsKeyRing, PTL DEF ImplementsKeyRing, Ring!Spec
=============================================================================
