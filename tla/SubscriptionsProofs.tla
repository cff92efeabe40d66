-------------------------- MODULE SubscriptionsProofs --------------------------
(***************************************************************************)
(* Proofs about Subscriptions, for any tenants, applications, users and    *)
(* requests and any number of subscriptions.                               *)
(*                                                                         *)
(* Handlers keep the id of a subscription across their calls of web hooks, *)
(* while others change or delete the row.  The argument is that an id      *)
(* never changes its meaning: there is a log that gives each id the pair   *)
(* it was created for, the request that created it and its last status;    *)
(* only the creator changes a status, once, from pending.  Every row of    *)
(* the table and every local variable that holds an id agrees with the log.*)
(***************************************************************************)
EXTENDS Subscriptions, TLAPS

Fate == [pair : Pairs, status : Status, by : Requests]
Log == [1 .. rows -> Fate]

Names(log, id, p, status) ==
    /\ id \in 1 .. rows
    /\ log[id].pair = p
    /\ log[id].status = status

Acked(a, id) == a \in Hooked => id \in acked
Released(a, id) == a \in Hooked => id \in released

TableOK(log) ==
    \A p \in Pairs :
        subs[p] # NoSub =>
            /\ Names(log, subs[p].id, p, subs[p].status)
            /\ subs[p].status = "success" => Acked(p[2], subs[p].id)

Shape(r) ==
    LET q == requests[r] IN
    /\ q.op = "subscribe" => q.pc \in {"clear", "create", "call", "finish", "fail"}
    /\ q.op \in {"subscribe", "unsubscribe", "onboard"} =>
          q.tenant \in Tenants /\ q.app \in Apps
    /\ q.op = "delete" => q.app \in Apps
    /\ /\ q.op = "onboard"
       /\ \/ q.pc \in {"find", "user", "member", "roles"}
          \/ Making(r)
       => HasUser(r)

SubscribeOK(r, log) ==
    LET q == requests[r] IN
    /\ Is(r, "subscribe", "create") => q.row = 0
    /\ q.op = "subscribe" /\ q.pc \in {"call", "finish"} => q.row # 0
    /\ Is(r, "subscribe", "clear") => Names(log, q.row, PairOf(r), "failed")
    /\ Calling(r) => Names(log, q.row, PairOf(r), "pending") /\ log[q.row].by = r
    /\ Is(r, "subscribe", "finish") => Acked(q.app, q.row)

UnsubscribeOK(r, log) ==
    LET q == requests[r] IN
    q.op = "unsubscribe" =>
        /\ q.pc \in {"call", "named", "roles", "fail"} =>
              Names(log, q.row, PairOf(r), "success") /\ Acked(q.app, q.row)
        /\ q.pc \in {"named", "roles"} => Released(q.app, q.row)
        /\ q.pc = "drop" =>
              \/ Names(log, q.row, PairOf(r), "failed")
              \/ Names(log, q.row, PairOf(r), "success") /\ Released(q.app, q.row)
        /\ q.outer # NoApp =>
              /\ q.outer \in Apps
              /\ Names(log, q.outerRow, <<q.tenant, q.outer>>, "success")
              /\ Acked(q.outer, q.outerRow) /\ Released(q.outer, q.outerRow)

\* What an onboardCustomer call has stored by the time it reaches each statement.
Provisioned(r) ==
    LET q == requests[r] IN
    q.op = "onboard" =>
        /\ q.pc = "seek" => ~q.fresh
        /\ q.pc \in {"member", "roles", "ok"} \/ (q.pc \in {"find", "user"} /\ ~q.fresh) =>
              r \in missed \/ SubOf(r) # NoSub
        /\ HasUser(r) =>
              /\ \/ q.pc \in {"member", "roles", "ok"}
                 \/ q.pc = "sub" /\ q.fresh
                 \/ q.pc = "tenant"
                 \/ Making(r)
                 => q.user \in users
              /\ q.pc = "tenant" => q.fresh
              /\ \/ q.pc \in {"kinds", "admin", "roles", "ok"}
                 \/ q.pc = "sub" /\ q.fresh
                 => <<q.tenant, q.user>> \in members
              /\ q.pc = "ok" => r \in missed \/ <<q.tenant, q.user, q.app>> \in roles

RequestOK(r, log) ==
    Shape(r) /\ SubscribeOK(r, log) /\ UnsubscribeOK(r, log) /\ Provisioned(r)

LogOK(log) ==
    /\ log \in Log
    /\ TableOK(log)
    /\ \A r \in Requests : RequestOK(r, log)

IInv ==
    /\ TypeOK
    /\ PendingHasAWorker
    /\ \E log \in Log : LogOK(log)

-----------------------------------------------------------------------------
(* What a step of one request may do.                                      *)

Others(r) == \A s \in Requests \ {r} : requests'[s] = requests[s]

\* The log that explains the next state: it keeps every id, and changes the
\* status of a pending subscription of the request alone.
Follows(log, next, r) ==
    /\ rows' >= rows
    /\ next \in [1 .. rows' -> Fate]
    /\ \A id \in 1 .. rows :
          /\ next[id].pair = log[id].pair
          /\ next[id].by = log[id].by
          /\ next[id].status # log[id].status =>
                log[id].status = "pending" /\ log[id].by = r

Grows ==
    /\ users \subseteq users'
    /\ members \subseteq members'
    /\ acked \subseteq acked'
    /\ released \subseteq released'
    /\ orphans \subseteq orphans'
    /\ \A s \in missed : s \in missed' \/ requests'[s].op = "none"
    /\ \A s \in Requests :
          requests[s].op = "onboard" /\ PairOf(s) \in Losing => s \in missed'

\* A row becomes pending only for the request, and a successful one is left only
\* as the web hook allows.
TableStep(r) ==
    \A p \in Pairs :
        /\ subs'[p] # subs[p] /\ subs'[p] # NoSub =>
              \/ subs'[p].status # "pending"
              \/ Calling(r)' /\ PairOf(r)' = p /\ requests'[r].row = subs'[p].id
        /\ /\ subs[p] # NoSub /\ subs[p].status = "success" /\ subs'[p] # subs[p]
           /\ p[2] \in Hooked \cap apps'
           => subs[p].id \in released

\* The creator of a pending row works on until the row is settled or gone.
WorksOn(r) ==
    Calling(r) =>
        \/ Calling(r)' /\ PairOf(r)' = PairOf(r) /\ requests'[r].row = requests[r].row
        \/ LET new == subs'[PairOf(r)] IN
              new = NoSub \/ new.status # "pending" \/ new.id # requests[r].row

StepOK(r, log, next) ==
    /\ TypeOK'
    /\ Others(r)
    /\ Follows(log, next, r)
    /\ Grows
    /\ RequestOK(r, next)'
    /\ TableOK(next)'
    /\ TableStep(r)
    /\ WorksOn(r)

LEMMA NamesKept ==
  ASSUME NEW log \in Log, NEW next, NEW r \in Requests, Follows(log, next, r),
         TypeOK, TypeOK', NEW id, NEW q, NEW status, Names(log, id, q, status),
         status # "pending" \/ log[id].by # r
  PROVE  Names(next, id, q, status)' /\ next[id].by = log[id].by
  <1>1. id \in 1 .. rows /\ rows \in Nat /\ rows' \in Nat /\ rows' >= rows
    BY RowsAreCounted DEF Names, Follows, TypeOK
  <1>2. id \in 1 .. rows'
    BY <1>1
  <1>3. next[id].pair = log[id].pair /\ next[id].by = log[id].by
    BY <1>1 DEF Follows
  <1>4. next[id].status = log[id].status
    BY <1>1 DEF Follows, Names
  <1> QED BY <1>2, <1>3, <1>4 DEF Names

LEMMA OthersKept ==
  ASSUME NEW log \in Log, LogOK(log), TypeOK, NEW next, NEW r \in Requests,
         StepOK(r, log, next), NEW s \in Requests, s # r
  PROVE  RequestOK(s, next)'
  <1>1. PICK q \in Request : q = requests[s] /\ q = requests'[s]
    BY DEF TypeOK, StepOK, Others
  <1>2. RequestOK(s, log) /\ Grows /\ Follows(log, next, r) /\ TableStep(r) /\ TypeOK'
    BY DEF LogOK, StepOK
  <1>3. PairOf(s)' = PairOf(s) /\ HasUser(s)' = HasUser(s) /\ Calling(s)' = Calling(s)
    BY <1>1 DEF PairOf, HasUser, Calling
  <1>4. Shape(s)'
    BY <1>1, <1>2, <1>3 DEF Shape, RequestOK, Is, Making
  <1>5. acked \subseteq acked' /\ released \subseteq released'
    BY <1>2 DEF Grows
  <1>6. \A id, p : /\ Names(log, id, p, "success") => Names(next, id, p, "success")'
                   /\ Names(log, id, p, "failed") => Names(next, id, p, "failed")'
    BY <1>2, NamesKept
  <1>7. SubscribeOK(s, next)'
    <2>1. SubscribeOK(s, log)
      BY <1>2 DEF RequestOK
    <2>2. Calling(s) => Names(next, q.row, PairOf(s), "pending")' /\ next[q.row].by = s
      <3> SUFFICES ASSUME Calling(s)
                   PROVE  Names(next, q.row, PairOf(s), "pending")' /\ next[q.row].by = s
        OBVIOUS
      <3>1. Names(log, q.row, PairOf(s), "pending") /\ log[q.row].by = s
        BY <1>1, <2>1 DEF SubscribeOK
      <3>2. Names(next, q.row, PairOf(s), "pending")' /\ next[q.row].by = log[q.row].by
        BY <1>2, <1>3, <3>1, NamesKept DEF Names
      <3> QED BY <3>1, <3>2
    <2> QED BY <1>1, <1>3, <1>5, <1>6, <2>1, <2>2 DEF SubscribeOK, Is, Acked
  <1>8. UnsubscribeOK(s, next)'
    BY <1>1, <1>2, <1>3, <1>5, <1>6 DEF RequestOK, UnsubscribeOK, Acked, Released
  <1>9. Provisioned(s)'
    <2>1. Provisioned(s) /\ Shape(s)
      BY <1>2 DEF RequestOK
    <2>2. q.op = "onboard" => PairOf(s) \in Pairs
      BY <1>1, <2>1 DEF Shape, PairOf, Pairs
    <2>3. q.op = "onboard" /\ SubOf(s) # NoSub => s \in missed' \/ SubOf(s)' # NoSub
      BY <1>1, <1>2, <1>3, <2>2 DEF SubOf, Grows, Losing
    <2>4. q.op = "onboard" /\ <<q.tenant, q.user, q.app>> \in roles =>
             s \in missed' \/ <<q.tenant, q.user, q.app>> \in roles'
      <3> SUFFICES ASSUME q.op = "onboard",
                          <<q.tenant, q.user, q.app>> \in roles \ roles'
                   PROVE  s \in missed'
        OBVIOUS
      <3>1. PairOf(s) \in Losing
        BY <1>1 DEF Losing, PairOf
      <3> QED BY <1>1, <1>2, <3>1 DEF Grows
    <2>5. q.op = "onboard" /\ s \in missed => s \in missed'
      BY <1>1, <1>2 DEF Grows
    <2>6. Making(s)' = Making(s)
      BY <1>1 DEF Making
    <2> QED BY <1>1, <1>2, <1>3, <2>1, <2>3, <2>4, <2>5, <2>6 DEF Provisioned, Grows
  <1> QED BY <1>4, <1>7, <1>8, <1>9 DEF RequestOK

LEMMA WorkersKept ==
  ASSUME NEW r \in Requests, TypeOK, TypeOK', PendingHasAWorker,
         Others(r), Grows, TableStep(r), WorksOn(r)
  PROVE  PendingHasAWorker'
  <1> SUFFICES ASSUME NEW p \in Pairs, subs'[p] # NoSub, subs'[p].status = "pending",
                      subs'[p].id \notin orphans'
               PROVE  \E w \in Requests : /\ Calling(w)'
                                          /\ PairOf(w)' = p
                                          /\ requests'[w].row = subs'[p].id
    BY DEF PendingHasAWorker, Awaited, Rows
  <1>1. CASE subs'[p] # subs[p]
    BY <1>1 DEF TableStep
  <1>2. CASE subs'[p] = subs[p]
    <2>1. PICK w \in Requests : /\ Calling(w)
                                /\ PairOf(w) = p
                                /\ requests[w].row = subs[p].id
      BY <1>2 DEF PendingHasAWorker, Awaited, Rows, Grows
    <2>2. CASE w = r
      BY <1>2, <2>1, <2>2 DEF WorksOn
    <2>3. CASE w # r
      BY <1>2, <2>1, <2>3 DEF Others, Calling, PairOf
    <2> QED BY <2>2, <2>3
  <1> QED BY <1>1, <1>2

\* Enough for a step of a request to keep the invariant.
LEMMA StepKeeps ==
  ASSUME IInv, NEW r \in Requests, NEW log \in Log, LogOK(log),
         NEW next, StepOK(r, log, next)
  PROVE  IInv'
  <1>1. TypeOK' /\ TypeOK /\ PendingHasAWorker
    BY DEF IInv, StepOK
  <1>2. PendingHasAWorker'
    BY <1>1, WorkersKept DEF StepOK
  <1>3. next \in Log'
    BY DEF StepOK, Follows, Log
  <1>4. \A s \in Requests : RequestOK(s, next)'
    BY <1>1, OthersKept DEF StepOK
  <1>5. LogOK(next)'
    BY <1>3, <1>4 DEF LogOK, StepOK
  <1> QED BY <1>1, <1>2, <1>3, <1>5 DEF IInv

-----------------------------------------------------------------------------
(* Steps that leave the subscriptions alone.                               *)

Points == {"idle", "look", "clear", "create", "call", "finish", "fail",
           "named", "roles", "drop", "seek", "find", "user", "tenant",
           "client", "key", "owner", "kinds", "admin", "sub", "member",
           "remove", "ok", "error"}

\* Two states of one request that differ in the program counter only.
SameCall(q, n) ==
    /\ n.op = q.op
    /\ n.tenant = q.tenant
    /\ n.app = q.app
    /\ n.user = q.user
    /\ n.fresh = q.fresh
    /\ n.row = q.row
    /\ n.outer = q.outer
    /\ n.outerRow = q.outerRow

LEMMA SetType ==
  ASSUME TypeOK, NEW r \in Requests, NEW n \in Request,
         requests' = [requests EXCEPT ![r] = n]
  PROVE  requests' \in [Requests -> Request] /\ requests'[r] = n /\ Others(r)
  BY DEF TypeOK, Others

LEMMA ToStep ==
  ASSUME TypeOK, NEW r \in Requests, NEW pc \in Points, To(r, pc)
  PROVE  /\ requests' \in [Requests -> Request]
         /\ Others(r)
         /\ requests'[r] \in Request
         /\ requests'[r].pc = pc
         /\ SameCall(requests[r], requests'[r])
         /\ PairOf(r)' = PairOf(r)
         /\ HasUser(r)' = HasUser(r)
  <1>1. PICK q \in Request : q = requests[r]
    BY DEF TypeOK
  <1>2. Request = [op : {"none", "subscribe", "unsubscribe", "onboard", "delete"},
                   pc : Points,
                   tenant : Tenants \cup {NoTenant}, app : Apps \cup {NoApp},
                   user : Users \cup {NoUser}, fresh : BOOLEAN,
                   row : RowIds \cup {0},
                   outer : Apps \cup {NoApp}, outerRow : RowIds \cup {0}]
    BY Zenon DEF Request, Points
  <1> DEFINE n == [q EXCEPT !.pc = pc]
  <1>3. n \in Request /\ n.pc = pc /\ SameCall(q, n)
    BY <1>2 DEF SameCall
  <1>4. requests' = [requests EXCEPT ![r] = n]
    BY <1>1 DEF To
  <1> HIDE DEF n
  <1> QED BY <1>1, <1>3, <1>4, SetType DEF PairOf, HasUser, SameCall

LEMMA IdleStep ==
  ASSUME TypeOK, NEW r \in Requests, Answer(r)
  PROVE  /\ requests' \in [Requests -> Request]
         /\ Others(r)
         /\ requests'[r] = Idle
  <1>1. Idle \in Request
    BY DEF Idle, Request
  <1> QED BY <1>1, SetType DEF Answer

LEMMA IdleOK ==
  ASSUME NEW r \in Requests, NEW next, requests'[r] = Idle
  PROVE  RequestOK(r, next)'
  BY DEF Idle, RequestOK, Shape, SubscribeOK, UnsubscribeOK, Provisioned, Is, Making, Calling

LEMMA Quiet ==
  ASSUME TypeOK, TypeOK', NEW r \in Requests, NEW log \in Log, LogOK(log),
         UNCHANGED <<subs, rows>>, Others(r), Grows, RequestOK(r, log)',
         Calling(r) => /\ Calling(r)'
                       /\ PairOf(r)' = PairOf(r)
                       /\ requests'[r].row = requests[r].row
  PROVE  StepOK(r, log, log)
  <1>1. Follows(log, log, r)
    BY RowsAreCounted DEF Follows, Log, TypeOK
  <1>2. TableOK(log)'
    BY DEF LogOK, TableOK, Names, Acked, Grows
  <1>3. TableStep(r) /\ WorksOn(r)
    BY DEF TableStep, WorksOn
  <1> QED BY <1>1, <1>2, <1>3 DEF StepOK

-----------------------------------------------------------------------------
(* The beginnings of the four handlers.                                    *)

LEMMA BeginSubscribeOK ==
  ASSUME IInv, NEW r \in Requests, NEW log \in Log, LogOK(log),
         NEW t \in Tenants, NEW a \in Apps, BeginSubscribe(r, t, a)
  PROVE  StepOK(r, log, log)
  <1> DEFINE found == subs[<<t, a>>]
  <1>1. /\ TypeOK /\ requests[r].pc = "idle" /\ UNCHANGED <<tables, history>>
        /\ found # NoSub => found.status = "failed"
    BY DEF IInv, BeginSubscribe
  <1>2. <<t, a>> \in Pairs /\ found \in Sub \cup {NoSub}
    BY <1>1 DEF Pairs, TypeOK
  <1>3. found # NoSub => found.id \in RowIds /\ Names(log, found.id, <<t, a>>, "failed")
    BY <1>1, <1>2 DEF LogOK, TableOK, Sub
  <1> DEFINE pc == IF found = NoSub THEN "create" ELSE "clear"
             row == IF found = NoSub THEN 0 ELSE found.id
             n == [Idle EXCEPT !.op = "subscribe", !.tenant = t, !.app = a,
                               !.pc = pc, !.row = row]
  <1>4. /\ row \in RowIds \cup {0} /\ pc \in {"create", "clear"}
        /\ pc = "create" => row = 0
        /\ pc = "clear" => Names(log, row, <<t, a>>, "failed")
    BY <1>3
  <1>5. requests' = [requests EXCEPT ![r] = n]
    BY DEF BeginSubscribe
  <1> HIDE DEF pc, row
  <1>6. /\ n \in Request /\ n.op = "subscribe" /\ n.tenant = t /\ n.app = a
        /\ n.pc = pc /\ n.row = row
    BY <1>4 DEF Idle, Request
  <1> HIDE DEF n
  <1>7. requests'[r] = n /\ Others(r) /\ requests' \in [Requests -> Request]
    BY <1>1, <1>5, <1>6, SetType
  <1>8. RequestOK(r, log)'
    BY <1>1, <1>4, <1>6, <1>7
    DEF tables, RequestOK, Shape, SubscribeOK, UnsubscribeOK, Provisioned, Is, Making, Calling,
        PairOf, Names
  <1>9. ~Calling(r)
    BY <1>1 DEF LogOK, RequestOK, Shape, Calling
  <1>10. TypeOK' /\ Grows
    BY <1>1, <1>7 DEF TypeOK, tables, history, Grows, Losing
  <1> QED BY <1>1, <1>7, <1>8, <1>9, <1>10, Quiet DEF tables

LEMMA BeginUnsubscribeOK ==
  ASSUME IInv, NEW r \in Requests, NEW log \in Log, LogOK(log),
         NEW t \in Tenants, NEW a \in Apps, BeginUnsubscribe(r, t, a)
  PROVE  StepOK(r, log, log)
  <1>1. TypeOK /\ requests[r].pc = "idle" /\ UNCHANGED <<tables, history>>
    BY DEF IInv, BeginUnsubscribe
  <1> DEFINE n == [Idle EXCEPT !.op = "unsubscribe", !.pc = "look",
                               !.tenant = t, !.app = a]
  <1>2. /\ n \in Request /\ n.op = "unsubscribe" /\ n.tenant = t /\ n.app = a
        /\ n.pc = "look" /\ n.outer = NoApp
    BY DEF Idle, Request
  <1>3. requests' = [requests EXCEPT ![r] = n]
    BY DEF BeginUnsubscribe
  <1> HIDE DEF n
  <1>4. requests'[r] = n /\ Others(r) /\ requests' \in [Requests -> Request]
    BY <1>1, <1>2, <1>3, SetType
  <1>5. RequestOK(r, log)'
    BY <1>2, <1>4
    DEF RequestOK, Shape, SubscribeOK, UnsubscribeOK, Provisioned, Is, Making, Calling
  <1>6. ~Calling(r)
    BY <1>1 DEF LogOK, RequestOK, Shape, Calling
  <1>7. TypeOK' /\ Grows
    BY <1>1, <1>4 DEF TypeOK, tables, history, Grows, Losing
  <1> QED BY <1>1, <1>4, <1>5, <1>6, <1>7, Quiet DEF tables

LEMMA BeginDeleteOK ==
  ASSUME IInv, NEW r \in Requests, NEW log \in Log, LogOK(log),
         NEW a \in Apps, BeginDelete(r, a)
  PROVE  StepOK(r, log, log)
  <1>1. TypeOK /\ requests[r].pc = "idle" /\ UNCHANGED <<tables, history>>
    BY DEF IInv, BeginDelete
  <1> DEFINE n == [Idle EXCEPT !.op = "delete", !.pc = "remove", !.app = a]
  <1>2. n \in Request /\ n.op = "delete" /\ n.app = a
    BY DEF Idle, Request
  <1>3. requests' = [requests EXCEPT ![r] = n]
    BY DEF BeginDelete
  <1> HIDE DEF n
  <1>4. requests'[r] = n /\ Others(r) /\ requests' \in [Requests -> Request]
    BY <1>1, <1>2, <1>3, SetType
  <1>5. RequestOK(r, log)'
    BY <1>2, <1>4
    DEF RequestOK, Shape, SubscribeOK, UnsubscribeOK, Provisioned, Is, Making, Calling
  <1>6. ~Calling(r)
    BY <1>1 DEF LogOK, RequestOK, Shape, Calling
  <1>7. TypeOK' /\ Grows
    BY <1>1, <1>4 DEF TypeOK, tables, history, Grows, Losing
  <1> QED BY <1>1, <1>4, <1>5, <1>6, <1>7, Quiet DEF tables

LEMMA BeginOnboardOK ==
  ASSUME IInv, NEW r \in Requests, NEW log \in Log, LogOK(log),
         NEW t \in Tenants, NEW a \in Apps, NEW u \in Users \cup {NoUser},
         BeginOnboard(r, t, a, u)
  PROVE  StepOK(r, log, log)
  <1>1. TypeOK /\ requests[r].pc = "idle" /\ UNCHANGED <<tables, history>>
    BY DEF IInv, BeginOnboard
  <1> DEFINE fresh == t \notin tenants
             pc == IF ~fresh THEN "seek" ELSE IF u # NoUser THEN "find" ELSE "tenant"
             n == [Idle EXCEPT !.op = "onboard", !.tenant = t, !.app = a, !.user = u,
                               !.fresh = fresh, !.pc = pc]
  <1>2. /\ fresh \in BOOLEAN /\ pc \in {"seek", "find", "tenant"}
        /\ pc = "find" => u # NoUser /\ fresh
        /\ pc = "seek" => ~fresh
        /\ pc = "tenant" => u = NoUser
    OBVIOUS
  <1>3. requests' = [requests EXCEPT ![r] = n]
    BY DEF BeginOnboard
  <1> HIDE DEF fresh, pc
  <1>4. /\ n \in Request /\ n.op = "onboard" /\ n.tenant = t /\ n.app = a
        /\ n.user = u /\ n.fresh = fresh /\ n.pc = pc
    BY <1>2 DEF Idle, Request
  <1> HIDE DEF n
  <1>5. requests'[r] = n /\ Others(r) /\ requests' \in [Requests -> Request]
    BY <1>1, <1>3, <1>4, SetType
  <1>6. RequestOK(r, log)'
    BY <1>2, <1>4, <1>5
    DEF RequestOK, Shape, SubscribeOK, UnsubscribeOK, Provisioned, Is, Making, Calling, HasUser
  <1>7. ~Calling(r)
    BY <1>1 DEF LogOK, RequestOK, Shape, Calling
  <1>8. TypeOK' /\ Grows
    BY <1>1, <1>5 DEF TypeOK, tables, history, Grows, Losing
  <1> QED BY <1>1, <1>5, <1>6, <1>7, <1>8, Quiet DEF tables

-----------------------------------------------------------------------------
(* Calls of the web hooks, and looking for what is there.                  *)

LEMMA CallOnboardOK ==
  ASSUME IInv, NEW r \in Requests, NEW log \in Log, LogOK(log), CallOnboard(r)
  PROVE  StepOK(r, log, log)
  <1>1. /\ TypeOK /\ RequestOK(r, log) /\ Is(r, "subscribe", "call")
        /\ UNCHANGED <<tables, released, missed, orphans, unfinished>>
    BY DEF IInv, LogOK, CallOnboard
  <1>2. PICK pc \in {"finish", "fail"} :
           /\ To(r, pc)
           /\ acked' = acked \/ acked' = acked \cup {requests[r].row}
           /\ pc = "finish" => (requests[r].app \in Hooked => requests[r].row \in acked')
    BY DEF CallOnboard
  <1>3. /\ requests' \in [Requests -> Request] /\ Others(r)
        /\ requests'[r].pc = pc /\ SameCall(requests[r], requests'[r])
        /\ PairOf(r)' = PairOf(r)
    BY <1>1, <1>2, ToStep DEF Points
  <1>4. requests[r].row \in RowIds
    BY <1>1 DEF TypeOK, Request, RequestOK, SubscribeOK, Is
  <1>5. TypeOK' /\ Grows
    BY <1>1, <1>2, <1>3, <1>4 DEF TypeOK, tables, Grows, Losing
  <1>6. RequestOK(r, log)'
    BY <1>1, <1>2, <1>3
    DEF tables, SameCall, Names, Acked, RequestOK, Shape, SubscribeOK, UnsubscribeOK,
        Provisioned, Is, Making, Calling
  <1>7. Calling(r)'
    BY <1>1, <1>2, <1>3 DEF SameCall, RequestOK, SubscribeOK, Is, Calling
  <1> QED BY <1>1, <1>3, <1>5, <1>6, <1>7, Quiet DEF tables, SameCall

LEMMA CallOffboardOK ==
  ASSUME IInv, NEW r \in Requests, NEW log \in Log, LogOK(log), CallOffboard(r)
  PROVE  StepOK(r, log, log)
  <1>1. /\ TypeOK /\ RequestOK(r, log) /\ Is(r, "unsubscribe", "call")
        /\ UNCHANGED <<tables, acked, missed, orphans, unfinished>>
    BY DEF IInv, LogOK, CallOffboard
  <1>2. PICK pc \in {"roles", "fail", "named"} :
           /\ To(r, pc)
           /\ released' = released \/ released' = released \cup {requests[r].row}
           /\ pc # "fail" => (requests[r].app \in Hooked => requests[r].row \in released')
    BY DEF CallOffboard
  <1>3. /\ requests' \in [Requests -> Request] /\ Others(r)
        /\ requests'[r].pc = pc /\ SameCall(requests[r], requests'[r])
        /\ PairOf(r)' = PairOf(r)
    BY <1>1, <1>2, ToStep DEF Points
  <1>4. requests[r].row \in RowIds
    BY <1>1, RowsAreCounted DEF TypeOK, Request, RequestOK, UnsubscribeOK, Is, Names, RowIds
  <1>5. TypeOK' /\ Grows
    BY <1>1, <1>2, <1>3, <1>4 DEF TypeOK, tables, Grows, Losing
  <1>6. RequestOK(r, log)'
    BY <1>1, <1>2, <1>3
    DEF tables, SameCall, Names, Acked, Released, RequestOK, Shape, SubscribeOK,
        UnsubscribeOK, Provisioned, Is, Making, Calling
  <1>7. ~Calling(r)
    BY <1>1 DEF Is, Calling
  <1> QED BY <1>1, <1>3, <1>5, <1>6, <1>7, Quiet DEF tables

LEMMA NextNamedOK ==
  ASSUME IInv, NEW r \in Requests, NEW log \in Log, LogOK(log), NextNamed(r)
  PROVE  StepOK(r, log, log)
  <1>1. /\ TypeOK /\ RequestOK(r, log) /\ Is(r, "unsubscribe", "named")
        /\ UNCHANGED <<tables, history>>
    BY DEF IInv, LogOK, NextNamed
  <1>2. ~Calling(r)
    BY <1>1 DEF Is, Calling
  <1>3. ASSUME NEW pc \in {"roles", "fail"}, To(r, pc)
        PROVE  StepOK(r, log, log)
    <2>1. /\ requests' \in [Requests -> Request] /\ Others(r)
          /\ requests'[r].pc = pc /\ SameCall(requests[r], requests'[r])
          /\ PairOf(r)' = PairOf(r)
      BY <1>1, <1>3, ToStep DEF Points
    <2>2. TypeOK' /\ Grows
      BY <1>1, <2>1 DEF TypeOK, tables, history, Grows, Losing
    <2>3. RequestOK(r, log)'
      BY <1>1, <1>3, <2>1
      DEF tables, history, SameCall, Names, Acked, Released, RequestOK, Shape,
          SubscribeOK, UnsubscribeOK, Provisioned, Is, Making, Calling
    <2> QED BY <1>1, <1>2, <2>1, <2>2, <2>3, Quiet DEF tables
  <1>4. ASSUME NEW b \in apps,
               requests' = [requests EXCEPT
                  ![r].pc = "look", ![r].app = b, ![r].row = 0,
                  ![r].outer = requests[r].app, ![r].outerRow = requests[r].row]
        PROVE  StepOK(r, log, log)
    <2>1. PICK q \in Request : q = requests[r]
      BY <1>1 DEF TypeOK
    <2>2. b \in Apps
      BY <1>1, <1>4 DEF TypeOK
    <2> DEFINE n == [q EXCEPT !.pc = "look", !.app = b, !.row = 0,
                              !.outer = q.app, !.outerRow = q.row]
    <2>3. /\ n \in Request /\ n.op = q.op /\ n.tenant = q.tenant /\ n.app = b
          /\ n.pc = "look" /\ n.outer = q.app /\ n.outerRow = q.row
      BY <2>2 DEF Request
    <2>4. requests' = [requests EXCEPT ![r] = n]
      BY <1>4, <2>1
    <2> HIDE DEF n
    <2>5. requests'[r] = n /\ Others(r) /\ requests' \in [Requests -> Request]
      BY <1>1, <2>3, <2>4, SetType
    <2>6. TypeOK' /\ Grows
      BY <1>1, <2>5 DEF TypeOK, tables, history, Grows, Losing
    <2>7. RequestOK(r, log)'
      BY <1>1, <2>1, <2>2, <2>3, <2>5
      DEF tables, history, Names, Acked, Released, RequestOK, Shape, SubscribeOK,
          UnsubscribeOK, Provisioned, Is, Making, Calling, PairOf
    <2> QED BY <1>1, <1>2, <2>5, <2>6, <2>7, Quiet DEF tables
  <1> QED BY <1>3, <1>4 DEF NextNamed

\* The outer application comes back as it was left.
LEMMA ReturnStep ==
  ASSUME IInv, NEW r \in Requests, NEW log \in Log, LogOK(log),
         requests[r].op = "unsubscribe", NEW pc \in {"named", "fail"}, Return(r, pc),
         NEW next \in Log', Follows(log, next, r), TypeOK', Grows,
         ~Calling(r)
  PROVE  /\ requests' \in [Requests -> Request]
         /\ Others(r)
         /\ RequestOK(r, next)'
  <1>1. TypeOK /\ UnsubscribeOK(r, log)
    BY DEF IInv, LogOK, RequestOK
  <1>2. CASE requests[r].outer = NoApp
    BY <1>1, <1>2, IdleStep, IdleOK DEF Return
  <1>3. CASE requests[r].outer # NoApp
    <2>1. PICK q \in Request : q = requests[r]
      BY <1>1 DEF TypeOK
    <2> DEFINE n == [q EXCEPT !.app = q.outer, !.row = q.outerRow,
                              !.outer = NoApp, !.outerRow = 0, !.pc = pc]
    <2>2. /\ n \in Request /\ n.op = q.op /\ n.tenant = q.tenant /\ n.app = q.outer
          /\ n.row = q.outerRow /\ n.outer = NoApp /\ n.pc = pc
      BY DEF Request
    <2>3. requests' = [requests EXCEPT ![r] = n]
      BY <1>3, <2>1 DEF Return
    <2> HIDE DEF n
    <2>4. requests'[r] = n /\ Others(r) /\ requests' \in [Requests -> Request]
      BY <1>1, <2>2, <2>3, SetType
    <2>5. /\ q.outer \in Apps /\ q.tenant \in Tenants
          /\ Names(log, q.outerRow, <<q.tenant, q.outer>>, "success")
          /\ Acked(q.outer, q.outerRow) /\ Released(q.outer, q.outerRow)
      BY <1>1, <1>3, <2>1 DEF UnsubscribeOK, IInv, LogOK, RequestOK, Shape
    <2>6. Names(next, q.outerRow, <<q.tenant, q.outer>>, "success")'
      BY <1>1, <2>5, NamesKept
    <2>7. PairOf(r)' = <<q.tenant, q.outer>>
      BY <2>2, <2>4 DEF PairOf
    <2> QED
      BY <2>1, <2>2, <2>4, <2>5, <2>6, <2>7
      DEF Acked, Released, Grows, RequestOK, Shape, SubscribeOK, UnsubscribeOK,
          Provisioned, Is, Making, Calling
  <1> QED BY <1>2, <1>3

LEMMA SameLog ==
  ASSUME TypeOK, NEW log \in Log, NEW r \in Requests, UNCHANGED rows
  PROVE  Follows(log, log, r) /\ log \in Log'
  BY RowsAreCounted DEF Follows, Log, TypeOK

LEMMA ReturnType ==
  ASSUME TypeOK, NEW r \in Requests, NEW pc \in {"named", "fail"}, Return(r, pc)
  PROVE  requests' \in [Requests -> Request]
  <1>1. CASE requests[r].outer = NoApp
    BY <1>1, IdleStep DEF Return
  <1>2. CASE requests[r].outer # NoApp
    <2>1. PICK q \in Request : q = requests[r]
      BY DEF TypeOK
    <2> DEFINE n == [q EXCEPT !.app = q.outer, !.row = q.outerRow,
                              !.outer = NoApp, !.outerRow = 0, !.pc = pc]
    <2>2. n \in Request
      BY DEF Request
    <2>3. requests' = [requests EXCEPT ![r] = n]
      BY <1>2, <2>1 DEF Return
    <2> QED BY <2>2, <2>3, SetType
  <1> QED BY <1>1, <1>2

LEMMA LookUnsubscribeOK ==
  ASSUME IInv, NEW r \in Requests, NEW log \in Log, LogOK(log), LookUnsubscribe(r)
  PROVE  StepOK(r, log, log)
  <1> DEFINE found == SubOf(r)
  <1>1. /\ TypeOK /\ RequestOK(r, log) /\ Is(r, "unsubscribe", "look")
        /\ UNCHANGED <<tables, history>>
    BY DEF IInv, LogOK, LookUnsubscribe
  <1>2. ~Calling(r)
    BY <1>1 DEF Is, Calling
  <1>3. CASE Return(r, "named")
    <2>1. TypeOK' /\ Grows
      BY <1>1, <1>3, ReturnType DEF TypeOK, tables, history, Grows, Losing
    <2>2. requests' \in [Requests -> Request] /\ Others(r) /\ RequestOK(r, log)'
      BY <1>1, <1>2, <1>3, <2>1, SameLog, ReturnStep DEF tables, Is
    <2> QED BY <1>1, <1>2, <2>1, <2>2, Quiet DEF tables
  <1>4. ASSUME found # NoSub, found.status # "pending", NEW pc \in {"drop", "call"},
               pc = IF found.status = "failed" THEN "drop" ELSE "call",
               requests' = [requests EXCEPT ![r].pc = pc, ![r].row = found.id]
        PROVE  StepOK(r, log, log)
    <2>1. PICK q \in Request : q = requests[r]
      BY <1>1 DEF TypeOK
    <2>2. PairOf(r) \in Pairs
      BY <1>1 DEF RequestOK, Shape, Is, PairOf, Pairs
    <2>3. found \in Sub /\ found.id \in RowIds
      BY <1>1, <1>4, <2>2 DEF TypeOK, SubOf, Sub
    <2>4. /\ Names(log, found.id, PairOf(r), found.status)
          /\ found.status = "success" => Acked(PairOf(r)[2], found.id)
      BY <1>4, <2>2 DEF LogOK, TableOK, SubOf
    <2>5. found.status \in {"success", "failed"} /\ PairOf(r)[2] = q.app
      BY <1>4, <2>1, <2>3 DEF Sub, Status, PairOf
    <2> DEFINE n == [q EXCEPT !.pc = pc, !.row = found.id]
    <2>6. /\ n \in Request /\ n.op = q.op /\ n.tenant = q.tenant /\ n.app = q.app
          /\ n.row = found.id /\ n.pc = pc /\ n.outer = q.outer /\ n.outerRow = q.outerRow
      BY <2>3 DEF Request
    <2>7. requests' = [requests EXCEPT ![r] = n]
      BY <1>4, <2>1
    <2> HIDE DEF n, found
    <2>8. requests'[r] = n /\ Others(r) /\ requests' \in [Requests -> Request]
      BY <1>1, <2>6, <2>7, SetType
    <2>9. TypeOK' /\ Grows
      BY <1>1, <2>8 DEF TypeOK, tables, history, Grows, Losing
    <2>10. PairOf(r)' = PairOf(r)
      BY <2>1, <2>6, <2>8 DEF PairOf
    <2>11. RequestOK(r, log)'
      <3>1. n.op = "unsubscribe" /\ n.pc \in {"drop", "call"}
        BY <1>1, <1>4, <2>1, <2>6 DEF Is
      <3>2. Shape(r)' /\ Provisioned(r)' /\ SubscribeOK(r, log)'
        BY <1>1, <2>1, <2>6, <2>8, <3>1
        DEF RequestOK, Shape, Provisioned, SubscribeOK, Is, Making, Calling
      <3>3. UnsubscribeOK(r, log)'
        BY <1>1, <1>4, <2>1, <2>4, <2>5, <2>6, <2>8, <2>10
        DEF tables, history, Names, Acked, Released, RequestOK, UnsubscribeOK
      <3> QED BY <3>2, <3>3 DEF RequestOK
    <2> QED BY <1>1, <1>2, <2>8, <2>9, <2>11, Quiet DEF tables
  <1> QED BY <1>3, <1>4 DEF LookUnsubscribe

LEMMA DropRolesOK ==
  ASSUME IInv, NEW r \in Requests, NEW log \in Log, LogOK(log), DropRoles(r)
  PROVE  StepOK(r, log, log)
  <1>1. /\ TypeOK /\ RequestOK(r, log) /\ Is(r, "unsubscribe", "roles") /\ To(r, "drop")
        /\ UNCHANGED <<tenants, parts, apps, users, members, subs, rows, acked, released, orphans, unfinished>>
        /\ roles' \subseteq roles
        /\ NoteLoss
    BY DEF IInv, LogOK, DropRoles
  <1>2. ~Calling(r) /\ PairOf(r) \in Pairs
    BY <1>1 DEF Is, Calling, RequestOK, Shape, PairOf, Pairs
  <1>3. /\ requests' \in [Requests -> Request] /\ Others(r)
        /\ requests'[r].pc = "drop" /\ SameCall(requests[r], requests'[r])
        /\ PairOf(r)' = PairOf(r)
    BY <1>1, ToStep DEF Points
  <1>4. TypeOK' /\ Grows
    BY <1>1, <1>2, <1>3 DEF TypeOK, Grows, NoteLoss
  <1>5. RequestOK(r, log)'
    BY <1>1, <1>3
    DEF SameCall, Names, Acked, Released, RequestOK, Shape, SubscribeOK,
        UnsubscribeOK, Provisioned, Is, Making, Calling
  <1> QED BY <1>1, <1>2, <1>3, <1>4, <1>5, Quiet

-----------------------------------------------------------------------------
(* Provisioning, up to the subscription it creates.                        *)

\* The steps of onboardCustomer that write users, tenants, members or roles.
LEMMA ProvisionStep ==
  ASSUME IInv, NEW r \in Requests, NEW log \in Log, LogOK(log),
         requests[r].op = "onboard", NEW pc \in Points, To(r, pc),
         UNCHANGED <<apps, subs, rows, acked, released, missed, orphans>>,
         tenants' \in SUBSET Tenants, parts' \in [Tenants -> SUBSET Parts],
         unfinished' \in SUBSET Tenants, users' \in SUBSET Users,
         members' \in SUBSET (Tenants \X Users),
         roles' \in SUBSET (Tenants \X Users \X Apps),
         users \subseteq users', members \subseteq members', roles \subseteq roles',
         pc \in {"find", "user", "member", "roles"} \/ Making(r)' => HasUser(r),
         Provisioned(r)'
  PROVE  StepOK(r, log, log)
  <1>1. TypeOK /\ RequestOK(r, log) /\ ~Calling(r)
    BY DEF IInv, LogOK, Calling
  <1>2. /\ requests' \in [Requests -> Request] /\ Others(r)
        /\ requests'[r].pc = pc /\ SameCall(requests[r], requests'[r])
        /\ HasUser(r)' = HasUser(r)
    BY <1>1, ToStep
  <1>3. TypeOK' /\ Grows
    BY <1>1, <1>2 DEF TypeOK, Grows, Losing
  <1>4. RequestOK(r, log)'
    BY <1>1, <1>2
    DEF SameCall, RequestOK, Shape, SubscribeOK, UnsubscribeOK, Is, Making, Calling
  <1> QED BY <1>1, <1>2, <1>3, <1>4, Quiet

\* What the handler knows of its own arguments at each of its statements.
LEMMA OnboardFacts ==
  ASSUME IInv, NEW r \in Requests, requests[r].op = "onboard"
  PROVE  /\ requests[r] \in Request /\ TypeOK
         /\ requests[r].tenant \in Tenants /\ requests[r].app \in Apps
         /\ PairOf(r) \in Pairs
         /\ HasUser(r) => requests[r].user \in Users
         /\ requests[r].pc \in {"find", "user", "member", "roles"} => HasUser(r)
         /\ Making(r) => HasUser(r)
         /\ Provisioned(r)
  <1>1. TypeOK /\ Shape(r) /\ Provisioned(r)
    BY DEF IInv, LogOK, RequestOK
  <1>2. requests[r] \in Request
    BY <1>1 DEF TypeOK
  <1> QED BY <1>1, <1>2 DEF Shape, Is, Making, HasUser, PairOf, Pairs, Request

LEMMA SeekOK ==
  ASSUME IInv, NEW r \in Requests, NEW log \in Log, LogOK(log), Seek(r)
  PROVE  StepOK(r, log, log)
  <1> DEFINE pc == IF SubOf(r) = NoSub THEN "sub" ELSE IF HasUser(r) THEN "find" ELSE "ok"
  <1>1. /\ Is(r, "onboard", "seek") /\ To(r, pc) /\ UNCHANGED <<tables, history>>
    BY DEF Seek
  <1>2. /\ pc \in Points /\ pc \in {"sub", "find", "ok"}
        /\ pc \in {"find", "ok"} => SubOf(r) # NoSub
        /\ pc = "find" => HasUser(r)
        /\ pc = "ok" => ~HasUser(r)
    BY DEF Points
  <1> HIDE DEF pc
  <1>3. /\ requests'[r].pc = pc /\ SameCall(requests[r], requests'[r])
        /\ PairOf(r)' = PairOf(r) /\ HasUser(r)' = HasUser(r)
    BY <1>1, <1>2, OnboardFacts, ToStep DEF Is
  <1>4. Provisioned(r)' /\ ~Making(r)'
    <2>1. ~Making(r)'
      BY <1>2, <1>3 DEF Making
    <2>2. ~requests[r].fresh /\ requests[r].op = "onboard"
      BY <1>1, OnboardFacts DEF Is, Provisioned
    <2> QED
      BY <1>1, <1>2, <1>3, <2>1, <2>2
      DEF SameCall, Provisioned, SubOf, tables, history
  <1> QED
    BY <1>1, <1>2, <1>4, OnboardFacts, ProvisionStep DEF Is, TypeOK, tables, history

LEMMA FindUserOK ==
  ASSUME IInv, NEW r \in Requests, NEW log \in Log, LogOK(log), FindUser(r)
  PROVE  StepOK(r, log, log)
  <1> DEFINE pc == IF requests[r].user \in users THEN AfterUser(r) ELSE "user"
  <1>1. /\ Is(r, "onboard", "find") /\ To(r, pc) /\ UNCHANGED <<tables, history>>
    BY DEF FindUser
  <1>2. /\ pc \in Points /\ pc \in {"user", "tenant", "member"}
        /\ pc # "user" => requests[r].user \in users
        /\ pc = "tenant" => requests[r].fresh
        /\ pc = "member" => ~requests[r].fresh
    BY DEF Points, AfterUser
  <1> HIDE DEF pc
  <1>3. /\ requests'[r].pc = pc /\ SameCall(requests[r], requests'[r])
        /\ PairOf(r)' = PairOf(r) /\ HasUser(r)' = HasUser(r)
    BY <1>1, <1>2, OnboardFacts, ToStep DEF Is
  <1>4. Provisioned(r)' /\ ~Making(r)'
    BY <1>1, <1>2, <1>3, OnboardFacts
    DEF Is, SameCall, Provisioned, Making, SubOf, tables, history
  <1> QED
    BY <1>1, <1>2, <1>4, OnboardFacts, ProvisionStep DEF Is, TypeOK, tables, history

LEMMA CreateUserOK ==
  ASSUME IInv, NEW r \in Requests, NEW log \in Log, LogOK(log), CreateUser(r)
  PROVE  StepOK(r, log, log)
  <1>1. /\ Is(r, "onboard", "user")
        /\ UNCHANGED <<tenants, parts, apps, members, roles, subs, rows, history>>
    BY DEF CreateUser
  <1>2. PICK pc \in {"error", "tenant", "member"} :
           /\ To(r, pc)
           /\ users' = users \/ users' = users \cup {requests[r].user}
           /\ pc # "error" => requests[r].user \in users'
           /\ pc = "tenant" => requests[r].fresh
           /\ pc = "member" => ~requests[r].fresh
    BY DEF CreateUser, AfterUser
  <1>3. pc \in Points
    BY DEF Points
  <1>4. /\ requests'[r].pc = pc /\ SameCall(requests[r], requests'[r])
        /\ PairOf(r)' = PairOf(r) /\ HasUser(r)' = HasUser(r)
    BY <1>1, <1>2, <1>3, OnboardFacts, ToStep DEF Is
  <1>5. Provisioned(r)' /\ ~Making(r)'
    BY <1>1, <1>2, <1>4, OnboardFacts DEF Is, SameCall, Provisioned, Making, SubOf, history
  <1>6. users' \in SUBSET Users /\ users \subseteq users'
    BY <1>1, <1>2, OnboardFacts DEF Is, TypeOK
  <1> QED
    BY <1>1, <1>2, <1>3, <1>5, <1>6, OnboardFacts, ProvisionStep DEF Is, TypeOK, history

LEMMA CreateTenantOK ==
  ASSUME IInv, NEW r \in Requests, NEW log \in Log, LogOK(log), CreateTenant(r)
  PROVE  StepOK(r, log, log)
  <1>1. /\ Is(r, "onboard", "tenant")
        /\ UNCHANGED <<parts, apps, users, members, roles, subs, rows,
                       acked, released, missed, orphans>>
    BY DEF CreateTenant
  <1>2. PICK pc \in {"error", "client", "sub"} :
           /\ To(r, pc)
           /\ tenants' = tenants \/ tenants' = tenants \cup {requests[r].tenant}
           /\ unfinished' = unfinished \/ unfinished' = unfinished \cup {requests[r].tenant}
           /\ pc = "client" => HasUser(r)
           /\ pc = "sub" => ~HasUser(r)
    BY DEF CreateTenant
  <1>3. pc \in Points
    BY DEF Points
  <1>4. /\ requests'[r].pc = pc /\ SameCall(requests[r], requests'[r])
        /\ PairOf(r)' = PairOf(r) /\ HasUser(r)' = HasUser(r)
    BY <1>1, <1>2, <1>3, OnboardFacts, ToStep DEF Is
  <1>5. Provisioned(r)' /\ (Making(r)' => HasUser(r))
    BY <1>1, <1>2, <1>4, OnboardFacts DEF Is, SameCall, Provisioned, Making, SubOf
  <1>6. tenants' \in SUBSET Tenants /\ unfinished' \in SUBSET Tenants
    BY <1>1, <1>2, OnboardFacts DEF Is, TypeOK
  <1> QED
    BY <1>1, <1>2, <1>3, <1>5, <1>6, OnboardFacts, ProvisionStep DEF Is, TypeOK

LEMMA FurnishType ==
  ASSUME TypeOK, NEW t \in Tenants, NEW new \in SUBSET Parts,
         parts' = [parts EXCEPT ![t] = @ \cup new]
  PROVE  /\ parts' \in [Tenants -> SUBSET Parts]
         /\ parts'[t] = parts[t] \cup new
         /\ \A o \in Tenants : o # t => parts'[o] = parts[o]
  BY DEF TypeOK

LEMMA FurnishStep ==
  ASSUME NEW r \in Requests, Furnish(r)
  PROVE  \E step \in {"client", "key", "kinds", "admin"} :
            \E pc \in {"key", "owner", "admin", "sub"}, new \in SUBSET Parts :
               /\ requests[r].pc = step
               /\ To(r, pc)
               /\ parts' = [parts EXCEPT ![requests[r].tenant] = @ \cup new]
               /\ step = "client" => pc = "key"
               /\ step = "key" => pc = "owner" /\ "keys" \in new
               /\ step = "kinds" => pc = "admin"
               /\ step = "admin" => pc = "sub" /\ "admin" \in new
  <1>1. PICK step \in {"client", "key", "kinds", "admin"} :
           /\ requests[r].pc = step
           /\ parts' = [parts EXCEPT ![requests[r].tenant] = @ \cup Completes[step]]
           /\ To(r, After[step])
    BY DEF Furnish, After
  <1>2. /\ After[step] \in {"key", "owner", "admin", "sub"}
        /\ step = "client" => After[step] = "key"
        /\ step = "key" => After[step] = "owner"
        /\ step = "kinds" => After[step] = "admin"
        /\ step = "admin" => After[step] = "sub"
    BY DEF After
  <1>3. /\ Completes[step] \in SUBSET Parts
        /\ step = "key" => "keys" \in Completes[step]
        /\ step = "admin" => "admin" \in Completes[step]
    BY DEF Completes, Parts
  <1> QED BY <1>1, <1>2, <1>3

LEMMA FurnishOK ==
  ASSUME IInv, NEW r \in Requests, NEW log \in Log, LogOK(log), Furnish(r)
  PROVE  StepOK(r, log, log)
  <1>1. /\ requests[r].op = "onboard"
        /\ UNCHANGED <<tenants, apps, users, members, roles, subs, rows, history>>
    BY DEF Furnish
  <1>2. PICK step \in {"client", "key", "kinds", "admin"} :
           \E pc \in {"key", "owner", "admin", "sub"}, new \in SUBSET Parts :
               /\ requests[r].pc = step
               /\ To(r, pc)
               /\ parts' = [parts EXCEPT ![requests[r].tenant] = @ \cup new]
               /\ step = "client" => pc = "key"
               /\ step = "key" => pc = "owner" /\ "keys" \in new
               /\ step = "kinds" => pc = "admin"
               /\ step = "admin" => pc = "sub" /\ "admin" \in new
    BY FurnishStep, Zenon
  <1>a. PICK pc \in {"key", "owner", "admin", "sub"}, new \in SUBSET Parts :
           /\ requests[r].pc = step
           /\ To(r, pc)
           /\ parts' = [parts EXCEPT ![requests[r].tenant] = @ \cup new]
           /\ step = "client" => pc = "key"
           /\ step = "key" => pc = "owner" /\ "keys" \in new
           /\ step = "kinds" => pc = "admin"
           /\ step = "admin" => pc = "sub" /\ "admin" \in new
    BY <1>2, Zenon
  <1>3. pc \in Points /\ Making(r) /\ HasUser(r)
    BY <1>1, <1>a, OnboardFacts DEF Points, Making
  <1>4. /\ requests'[r].pc = pc /\ SameCall(requests[r], requests'[r])
        /\ PairOf(r)' = PairOf(r) /\ HasUser(r)' = HasUser(r)
    BY <1>1, <1>a, <1>3, OnboardFacts, ToStep
  <1>5. Provisioned(r)'
    BY <1>1, <1>a, <1>3, <1>4, OnboardFacts
    DEF SameCall, Provisioned, Making, SubOf, history
  <1>6. parts' \in [Tenants -> SUBSET Parts]
    BY <1>1, <1>a, OnboardFacts, FurnishType
  <1>7. /\ tenants' \in SUBSET Tenants /\ unfinished' \in SUBSET Tenants
        /\ users' \in SUBSET Users /\ members' \in SUBSET (Tenants \X Users)
        /\ roles' \in SUBSET (Tenants \X Users \X Apps)
    BY <1>1, OnboardFacts DEF TypeOK, history
  <1> QED
    BY <1>1, <1>a, <1>3, <1>5, <1>6, <1>7, ProvisionStep DEF history

LEMMA JoinOK ==
  ASSUME IInv, NEW r \in Requests, NEW log \in Log, LogOK(log),
         AddOwner(r) \/ EnsureMember(r)
  PROVE  StepOK(r, log, log)
  <1>1. PICK pc \in {"kinds", "roles"} :
           /\ To(r, pc) /\ Join(r)
           /\ Is(r, "onboard", IF pc = "kinds" THEN "owner" ELSE "member")
           /\ UNCHANGED <<tenants, parts, apps, users, roles, subs, rows, history>>
    BY DEF AddOwner, EnsureMember
  <1>2. pc \in Points /\ HasUser(r)
    BY <1>1, OnboardFacts DEF Points, Is, Making
  <1>3. /\ requests'[r].pc = pc /\ SameCall(requests[r], requests'[r])
        /\ PairOf(r)' = PairOf(r) /\ HasUser(r)' = HasUser(r)
    BY <1>1, <1>2, OnboardFacts, ToStep DEF Is
  <1>4. Provisioned(r)'
    BY <1>1, <1>2, <1>3, OnboardFacts
    DEF Is, SameCall, Provisioned, Making, SubOf, history, Join
  <1>5. members' \in SUBSET (Tenants \X Users) /\ members \subseteq members'
    BY <1>1, <1>2, OnboardFacts DEF Is, TypeOK, Join
  <1> QED
    BY <1>1, <1>2, <1>4, <1>5, OnboardFacts, ProvisionStep DEF Is, TypeOK, history

LEMMA BreakOK ==
  ASSUME IInv, NEW r \in Requests, NEW log \in Log, LogOK(log), Break(r)
  PROVE  StepOK(r, log, log)
  <1>1. /\ requests[r].op = "onboard" /\ To(r, "error") /\ "error" \in Points
        /\ unfinished' = unfinished \cup Made({r})
        /\ UNCHANGED <<tables, acked, released, missed, orphans>>
    BY DEF Break, Points
  <1>2. /\ requests'[r].pc = "error" /\ SameCall(requests[r], requests'[r])
        /\ HasUser(r)' = HasUser(r)
    BY <1>1, OnboardFacts, ToStep
  <1>3. Provisioned(r)' /\ ~Making(r)'
    BY <1>1, <1>2 DEF SameCall, Provisioned, Making
  <1>4. unfinished' \in SUBSET Tenants
    BY <1>1, OnboardFacts DEF Made, TypeOK
  <1> QED
    BY <1>1, <1>3, <1>4, OnboardFacts, ProvisionStep DEF TypeOK, tables

LEMMA AssignRolesOK ==
  ASSUME IInv, NEW r \in Requests, NEW log \in Log, LogOK(log), AssignRoles(r)
  PROVE  StepOK(r, log, log)
  <1>1. /\ Is(r, "onboard", "roles") /\ To(r, "ok")
        /\ roles' = roles \cup {<<requests[r].tenant, requests[r].user, requests[r].app>>}
        /\ UNCHANGED <<tenants, parts, apps, users, members, subs, rows, history>>
    BY DEF AssignRoles
  <1>2. "ok" \in Points /\ HasUser(r)
    BY <1>1, OnboardFacts DEF Points, Is
  <1>3. /\ requests'[r].pc = "ok" /\ SameCall(requests[r], requests'[r])
        /\ PairOf(r)' = PairOf(r) /\ HasUser(r)' = HasUser(r)
    BY <1>1, <1>2, OnboardFacts, ToStep DEF Is
  <1>4. Provisioned(r)' /\ ~Making(r)'
    BY <1>1, <1>2, <1>3, OnboardFacts DEF Is, SameCall, Provisioned, Making, SubOf, history
  <1>5. roles' \in SUBSET (Tenants \X Users \X Apps) /\ roles \subseteq roles'
    BY <1>1, <1>2, OnboardFacts DEF Is, TypeOK
  <1> QED
    BY <1>1, <1>2, <1>4, <1>5, OnboardFacts, ProvisionStep DEF Is, TypeOK, history

LEMMA AnsweredOK ==
  ASSUME IInv, NEW r \in Requests, NEW log \in Log, LogOK(log), Answered(r)
  PROVE  StepOK(r, log, log)
  <1>1. /\ TypeOK /\ RequestOK(r, log) /\ requests[r].pc \in {"ok", "error"}
        /\ Answer(r) /\ missed' = missed \ {r}
        /\ UNCHANGED <<tables, acked, released, orphans, unfinished>>
    BY DEF IInv, LogOK, Answered, Answer
  <1>2. ~Calling(r)
    BY <1>1 DEF Calling, RequestOK, Shape
  <1>3. requests' \in [Requests -> Request] /\ Others(r) /\ RequestOK(r, log)'
    BY <1>1, IdleStep, IdleOK
  <1>4. requests'[r].op = "none"
    BY <1>1, IdleStep DEF Idle
  <1>5. TypeOK' /\ Grows
    BY <1>1, <1>3, <1>4 DEF TypeOK, tables, Grows, Losing
  <1> QED BY <1>1, <1>2, <1>3, <1>5, Quiet DEF tables

-----------------------------------------------------------------------------
(* Rows that come, go and change.                                          *)

Put(p, id, status) == subs' = [subs EXCEPT ![p] = [id |-> id, status |-> status]]

More(log, p, status, r) ==
    [id \in 1 .. rows + 1 |->
        IF id = rows + 1 THEN [pair |-> p, status |-> status, by |-> r] ELSE log[id]]

Settled(log, id, status) ==
    [i \in 1 .. rows |->
        IF i = id THEN [pair |-> log[id].pair, status |-> status, by |-> log[id].by]
                  ELSE log[i]]

LEMMA MoreLog ==
  ASSUME TypeOK, NEW log \in Log, NEW p \in Pairs, NEW status \in Status,
         NEW r \in Requests, NEW id, id = rows + 1, rows' = id,
         NEW next, next = More(log, p, status, r)
  PROVE  /\ Follows(log, next, r)
         /\ Names(next, id, p, status)'
         /\ next[id].by = r
         /\ \A i \in 1 .. rows : next[i] = log[i]
  <1>1. rows \in Nat /\ rows' = rows + 1
    BY RowsAreCounted DEF TypeOK
  <1> DEFINE new == [pair |-> p, status |-> status, by |-> r]
  <1>2. new \in Fate /\ new.pair = p /\ new.status = status /\ new.by = r
    BY DEF Fate
  <1>3. next = [i \in 1 .. rows + 1 |-> IF i = rows + 1 THEN new ELSE log[i]]
    BY DEF More
  <1> HIDE DEF new
  <1>4. \A i \in 1 .. rows : i \in 1 .. rows + 1 /\ i # rows + 1
    BY <1>1
  <1>5. next[id] = new /\ \A i \in 1 .. rows : next[i] = log[i]
    BY <1>1, <1>3, <1>4
  <1>6. next \in [1 .. rows' -> Fate]
    <2>1. \A i \in 1 .. rows + 1 : i # rows + 1 => i \in 1 .. rows
      BY <1>1
    <2> QED BY <1>1, <1>2, <1>3, <2>1 DEF Log
  <1>7. Names(next, id, p, status)'
    BY <1>1, <1>2, <1>5 DEF Names
  <1> QED BY <1>1, <1>2, <1>5, <1>6, <1>7 DEF Follows

LEMMA SettledLog ==
  ASSUME TypeOK, NEW log \in Log, NEW id, NEW p, NEW status \in Status,
         NEW r \in Requests, UNCHANGED rows, NEW next, next = Settled(log, id, status),
         Names(log, id, p, "pending"), log[id].by = r
  PROVE  /\ Follows(log, next, r)
         /\ Names(next, id, p, status)'
         /\ \A i \in 1 .. rows : i # id => next[i] = log[i]
  <1>1. rows \in Nat /\ rows' = rows /\ id \in 1 .. rows /\ log[id] \in Fate
    BY RowsAreCounted DEF TypeOK, Names, Log
  <1> DEFINE new == [pair |-> log[id].pair, status |-> status, by |-> log[id].by]
  <1>2. /\ new \in Fate /\ new.pair = log[id].pair /\ new.status = status
        /\ new.by = log[id].by
    BY <1>1 DEF Fate
  <1>3. next = [i \in 1 .. rows |-> IF i = id THEN new ELSE log[i]]
    BY DEF Settled
  <1> HIDE DEF new
  <1>4. next \in [1 .. rows -> Fate]
    BY <1>2, <1>3 DEF Log
  <1>5. next[id] = new /\ \A i \in 1 .. rows : i # id => next[i] = log[i]
    BY <1>1, <1>3
  <1> QED BY <1>1, <1>2, <1>4, <1>5 DEF Follows, Names

LEMMA PutFacts ==
  ASSUME TypeOK, NEW p \in Pairs, NEW id \in RowIds, NEW status \in Status,
         Put(p, id, status)
  PROVE  /\ subs' \in [Pairs -> Sub \cup {NoSub}]
         /\ subs'[p] # NoSub /\ subs'[p].id = id /\ subs'[p].status = status
         /\ \A o \in Pairs \ {p} : subs'[o] = subs[o]
         /\ subs[p] # NoSub /\ subs[p].id = id /\ subs[p].status = status =>
               subs'[p] = subs[p]
  <1> DEFINE new == [id |-> id, status |-> status]
  <1>1. new \in Sub /\ new.id = id /\ new.status = status
    BY DEF Sub
  <1>2. ASSUME NEW sub \in Sub, sub.id = id, sub.status = status
        PROVE  sub = new
    <2>1. sub = [id |-> sub.id, status |-> sub.status]
      BY DEF Sub
    <2> QED BY <1>2, <2>1
  <1>3. subs' = [subs EXCEPT ![p] = new]
    BY DEF Put
  <1> HIDE DEF new
  <1>4. subs'[p] = new /\ subs[p] \in Sub \cup {NoSub}
    BY <1>3 DEF TypeOK
  <1>5. new # NoSub
    BY <1>1, NoSubIsNoRow
  <1> QED BY <1>1, <1>2, <1>3, <1>4, <1>5 DEF TypeOK

LEMMA WithoutFacts ==
  ASSUME TypeOK, NEW log \in Log, LogOK(log), NEW p \in Pairs, NEW id, id \in 1 .. rows,
         log[id].pair = p, subs' = Without(id)
  PROVE  /\ subs' \in [Pairs -> Sub \cup {NoSub}]
         /\ \A o \in Pairs \ {p} : subs'[o] = subs[o]
         /\ subs'[p] # subs[p] =>
               subs'[p] = NoSub /\ subs[p].id = id /\ subs[p].status = log[id].status
  <1>1. \A o \in Pairs : subs[o] # NoSub => Names(log, subs[o].id, o, subs[o].status)
    BY DEF LogOK, TableOK
  <1>2. \A o \in Stored(id) : o = p /\ subs[o].status = log[id].status
    BY <1>1 DEF Stored, Names
  <1>3. \A o \in Pairs : subs'[o] = IF o \in Stored(id) THEN NoSub ELSE subs[o]
    BY DEF Without
  <1>4. subs' \in [Pairs -> Sub \cup {NoSub}]
    BY DEF Without, TypeOK
  <1> QED BY <1>2, <1>3, <1>4 DEF Stored

\* A row is deleted by its id: by the handler that found it failed, or that was
\* told by the web hook.
LEMMA DeleteRow ==
  ASSUME TypeOK, NEW log \in Log, LogOK(log), NEW r \in Requests,
         NEW p \in Pairs, NEW id, id \in 1 .. rows, log[id].pair = p,
         log[id].status = "failed" \/ Released(p[2], id),
         ~Calling(r), subs' = Without(id), UNCHANGED rows, UNCHANGED acked
  PROVE  /\ subs' \in [Pairs -> Sub \cup {NoSub}]
         /\ TableOK(log)' /\ TableStep(r) /\ WorksOn(r)
  <1>1. /\ subs' \in [Pairs -> Sub \cup {NoSub}]
        /\ \A o \in Pairs \ {p} : subs'[o] = subs[o]
        /\ subs'[p] # subs[p] =>
              subs'[p] = NoSub /\ subs[p].id = id /\ subs[p].status = log[id].status
    BY WithoutFacts
  <1>2. TableOK(log)'
    BY <1>1 DEF LogOK, TableOK, Names, Acked
  <1>3. TableStep(r)
    BY <1>1 DEF TableStep, Released
  <1> QED BY <1>1, <1>2, <1>3 DEF WorksOn

\* A new row: the pair had none.
LEMMA InsertRow ==
  ASSUME TypeOK, NEW log \in Log, LogOK(log), NEW r \in Requests,
         NEW p \in Pairs, subs[p] = NoSub, NEW status \in Status,
         NEW id, id = rows + 1, rows < MaxRows, rows' = id, Put(p, id, status),
         acked \subseteq acked', status = "success" => Acked(p[2], id)',
         NEW next, next = More(log, p, status, r), ~Calling(r),
         status = "pending" => Calling(r)' /\ PairOf(r)' = p /\ requests'[r].row = id
  PROVE  /\ subs' \in [Pairs -> Sub \cup {NoSub}]
         /\ rows' \in 0 .. MaxRows /\ id \in RowIds
         /\ Follows(log, next, r) /\ Names(next, id, p, status)' /\ next[id].by = r
         /\ TableOK(next)' /\ TableStep(r) /\ WorksOn(r)
         /\ \A o \in Pairs : subs[o] # NoSub => subs'[o] # NoSub
  <1>1. rows' \in 0 .. MaxRows /\ id \in RowIds /\ rows \in Nat
    BY RowsAreCounted DEF TypeOK, RowIds
  <1>2. /\ Follows(log, next, r) /\ Names(next, id, p, status)' /\ next[id].by = r
        /\ \A i \in 1 .. rows : next[i] = log[i]
    BY MoreLog
  <1>3. /\ subs' \in [Pairs -> Sub \cup {NoSub}]
        /\ subs'[p] # NoSub /\ subs'[p].id = id /\ subs'[p].status = status
        /\ \A o \in Pairs \ {p} : subs'[o] = subs[o]
    BY <1>1, PutFacts
  <1>4. ASSUME NEW o \in Pairs, o # p, subs[o] # NoSub
        PROVE  /\ Names(next, subs[o].id, o, subs[o].status)'
               /\ subs[o].status = "success" => Acked(o[2], subs[o].id)'
    <2>1. /\ Names(log, subs[o].id, o, subs[o].status)
          /\ subs[o].status = "success" => Acked(o[2], subs[o].id)
      BY <1>4 DEF LogOK, TableOK
    <2>2. subs'[o] = subs[o]
      BY <1>3, <1>4
    <2>3. \A i \in 1 .. rows : i \in 1 .. rows'
      BY <1>1
    <2> QED BY <1>2, <2>1, <2>2, <2>3 DEF Names, Acked
  <1>5. TableOK(next)'
    BY <1>2, <1>3, <1>4 DEF TableOK
  <1>6. TableStep(r)
    BY <1>3 DEF TableStep
  <1>7. \A o \in Pairs : subs[o] # NoSub => subs'[o] # NoSub
    BY <1>3
  <1> QED BY <1>1, <1>2, <1>3, <1>5, <1>6, <1>7 DEF WorksOn

\* The creator of a pending row stores the result of its call.
LEMMA SettleRow ==
  ASSUME TypeOK, NEW log \in Log, LogOK(log), NEW r \in Requests,
         NEW p \in Pairs, NEW id, NEW status \in {"success", "failed"},
         Names(log, id, p, "pending"), log[id].by = r, PairOf(r) = p, requests[r].row = id,
         subs[p] # NoSub => subs[p].id = id, Put(p, id, status),
         UNCHANGED <<rows, acked>>, status = "success" => Acked(p[2], id),
         NEW next, next = Settled(log, id, status)
  PROVE  /\ subs' \in [Pairs -> Sub \cup {NoSub}]
         /\ Follows(log, next, r)
         /\ TableOK(next)' /\ TableStep(r) /\ WorksOn(r)
         /\ \A o \in Pairs : subs[o] # NoSub => subs'[o] # NoSub
  <1>1. id \in RowIds /\ status \in Status
    BY RowsAreCounted DEF Names, RowIds, TypeOK, Status
  <1>2. /\ Follows(log, next, r) /\ Names(next, id, p, status)'
        /\ \A i \in 1 .. rows : i # id => next[i] = log[i]
    <2>1. UNCHANGED rows /\ UNCHANGED acked
      OBVIOUS
    <2>2. Names(log, id, p, "pending") /\ log[id].by = r /\ next = Settled(log, id, status)
      OBVIOUS
    <2>3. PICK st \in Status : st = status
      BY <1>1
    <2>4. Names(log, id, p, "pending") /\ log[id].by = r /\ next = Settled(log, id, st)
      BY <2>2, <2>3
    <2>5. Follows(log, next, r)
      BY ONLY TypeOK, <2>1, <2>4, SettledLog
    <2>6. Names(next, id, p, st)'
      BY ONLY TypeOK, <2>1, <2>4, SettledLog
    <2>7. \A i \in 1 .. rows : i # id => next[i] = log[i]
      BY ONLY TypeOK, <2>1, <2>4, SettledLog
    <2> QED BY <2>3, <2>5, <2>6, <2>7
  <1>3. /\ subs' \in [Pairs -> Sub \cup {NoSub}]
        /\ subs'[p] # NoSub /\ subs'[p].id = id /\ subs'[p].status = status
        /\ \A o \in Pairs \ {p} : subs'[o] = subs[o]
    BY <1>1, PutFacts
  <1>4. \A o \in Pairs : subs[o] # NoSub =>
           /\ Names(log, subs[o].id, o, subs[o].status)
           /\ subs[o].status = "success" => Acked(o[2], subs[o].id)
    BY DEF LogOK, TableOK
  <1>5. TableOK(next)'
    BY <1>2, <1>3, <1>4 DEF TableOK, Names, Acked
  <1>6. TableStep(r)
    BY <1>3, <1>4 DEF TableStep, Names
  <1>7. \A o \in Pairs : subs[o] # NoSub => subs'[o] # NoSub
    BY <1>3
  <1> QED BY <1>2, <1>3, <1>5, <1>6, <1>7 DEF WorksOn

\* unsubscribe writes the successful subscription it read over itself.
LEMMA RestoreRow ==
  ASSUME TypeOK, NEW log \in Log, LogOK(log),
         NEW p \in Pairs, NEW id, Names(log, id, p, "success"),
         subs[p] # NoSub, subs[p].id = id, Put(p, id, "success")
  PROVE  UNCHANGED subs
  <1>1. id \in RowIds /\ "success" \in Status
    BY RowsAreCounted DEF Names, RowIds, TypeOK, Status
  <1>2. subs[p].status = "success"
    BY DEF LogOK, TableOK, Names
  <1>3. /\ subs' \in [Pairs -> Sub \cup {NoSub}]
        /\ \A o \in Pairs : subs'[o] = subs[o]
    BY <1>1, <1>2, PutFacts
  <1> QED BY <1>3 DEF TypeOK

-----------------------------------------------------------------------------
(* The steps of subscribeApp.                                              *)

LEMMA ClearOK ==
  ASSUME IInv, NEW r \in Requests, NEW log \in Log, LogOK(log), Clear(r)
  PROVE  StepOK(r, log, log)
  <1>1. /\ TypeOK /\ RequestOK(r, log) /\ Is(r, "subscribe", "clear")
        /\ UNCHANGED <<tenants, parts, apps, users, members, roles, rows, acked, released, orphans, unfinished>>
        /\ subs' \in {Without(requests[r].row), subs} /\ NoteLoss
        /\ requests' = [requests EXCEPT ![r].pc = "create", ![r].row = 0]
    BY DEF IInv, LogOK, Clear
  <1>2. PICK q \in Request : q = requests[r]
    BY <1>1 DEF TypeOK
  <1>3. /\ ~Calling(r) /\ PairOf(r) \in Pairs
        /\ Names(log, q.row, PairOf(r), "failed")
    BY <1>1, <1>2 DEF Is, Calling, RequestOK, Shape, SubscribeOK, PairOf, Pairs
  <1>4. /\ subs' \in [Pairs -> Sub \cup {NoSub}]
        /\ TableOK(log)' /\ TableStep(r) /\ WorksOn(r)
    <2>1. CASE subs' = Without(q.row)
      BY <1>1, <1>2, <1>3, <2>1, DeleteRow DEF Names
    <2>2. CASE UNCHANGED subs
      BY <1>1, <1>3, <2>2 DEF TypeOK, LogOK, TableOK, Names, Acked, TableStep, WorksOn
    <2> QED BY <1>1, <1>2, <2>1, <2>2
  <1> DEFINE n == [q EXCEPT !.pc = "create", !.row = 0]
  <1>5. /\ n \in Request /\ n.op = q.op /\ n.tenant = q.tenant /\ n.app = q.app
        /\ n.row = 0 /\ n.pc = "create"
    BY DEF Request
  <1>6. requests' = [requests EXCEPT ![r] = n]
    BY <1>1, <1>2
  <1> HIDE DEF n
  <1>7. requests'[r] = n /\ Others(r) /\ requests' \in [Requests -> Request]
    BY <1>1, <1>5, <1>6, SetType
  <1>8. TypeOK' /\ Grows
    BY <1>1, <1>3, <1>4, <1>7 DEF TypeOK, Grows, NoteLoss
  <1>9. RequestOK(r, log)'
    BY <1>1, <1>2, <1>5, <1>7
    DEF RequestOK, Shape, SubscribeOK, UnsubscribeOK, Provisioned, Is, Making, Calling
  <1> QED BY <1>1, <1>4, <1>7, <1>8, <1>9, SameLog DEF StepOK

LEMMA CreatePendingOK ==
  ASSUME IInv, NEW r \in Requests, NEW log \in Log, LogOK(log), CreatePending(r)
  PROVE  \E next : StepOK(r, log, next)
  <1>1. /\ TypeOK /\ RequestOK(r, log) /\ Is(r, "subscribe", "create")
        /\ UNCHANGED <<tenants, parts, apps, users, members, roles, history>>
        /\ requests[r].row = 0
    BY DEF IInv, LogOK, CreatePending, RequestOK, SubscribeOK
  <1>2. ~Calling(r) /\ PairOf(r) \in Pairs
    BY <1>1 DEF Is, Calling, RequestOK, Shape, PairOf, Pairs
  <1>3. CASE Insertable(PairOf(r))
    <2>1. PICK id : id = rows + 1
      OBVIOUS
    <2>2. /\ rows < MaxRows /\ rows' = id /\ Put(PairOf(r), id, "pending")
          /\ requests' = [requests EXCEPT ![r].pc = "call", ![r].row = id]
          /\ subs[PairOf(r)] = NoSub
      BY <1>3, <2>1 DEF CreatePending, Put, Insertable
    <2>3. PICK q \in Request : q = requests[r]
      BY <1>1 DEF TypeOK
    <2>4. id \in RowIds /\ id # 0
      BY <1>1, <2>1, <2>2, RowsAreCounted DEF TypeOK, RowIds
    <2> DEFINE n == [q EXCEPT !.pc = "call", !.row = id]
    <2>5. /\ n \in Request /\ n.op = q.op /\ n.tenant = q.tenant /\ n.app = q.app
          /\ n.row = id /\ n.pc = "call"
      BY <2>4 DEF Request
    <2>6. requests' = [requests EXCEPT ![r] = n]
      BY <2>2, <2>3
    <2> HIDE DEF n
    <2>7. requests'[r] = n /\ Others(r) /\ requests' \in [Requests -> Request]
      BY <1>1, <2>5, <2>6, SetType
    <2>8. Calling(r)' /\ PairOf(r)' = PairOf(r) /\ requests'[r].row = id
      BY <1>1, <2>3, <2>4, <2>5, <2>7 DEF Is, Calling, PairOf
    <2>9. PICK p \in Pairs : p = PairOf(r)
      BY <1>2
    <2>10. PICK next : next = More(log, p, "pending", r) /\ "pending" \in Status
      BY DEF Status
    <2>11. /\ subs' \in [Pairs -> Sub \cup {NoSub}] /\ rows' \in 0 .. MaxRows
           /\ Follows(log, next, r) /\ Names(next, id, p, "pending")' /\ next[id].by = r
           /\ TableOK(next)' /\ TableStep(r) /\ WorksOn(r)
           /\ \A o \in Pairs : subs[o] # NoSub => subs'[o] # NoSub
      <3>1. /\ subs[p] = NoSub /\ Put(p, id, "pending") /\ acked \subseteq acked'
            /\ PairOf(r)' = p /\ rows' = id /\ rows < MaxRows
        BY <1>1, <2>2, <2>8, <2>9 DEF history
      <3> QED BY <1>1, <1>2, <2>1, <2>8, <2>10, <3>1, InsertRow
    <2>12. TypeOK' /\ Grows
      BY <1>1, <2>7, <2>11 DEF TypeOK, Grows, Losing, history
    <2>13. RequestOK(r, next)'
      BY <1>1, <2>3, <2>4, <2>5, <2>7, <2>8, <2>9, <2>11
      DEF RequestOK, Shape, SubscribeOK, UnsubscribeOK, Provisioned, Is
    <2> QED BY <2>7, <2>11, <2>12, <2>13 DEF StepOK
  <1>4. CASE ~Insertable(PairOf(r))
    <2>1. To(r, "fail") /\ UNCHANGED <<rows, subs>>
      BY <1>4 DEF CreatePending
    <2>2. /\ requests' \in [Requests -> Request] /\ Others(r)
          /\ requests'[r].pc = "fail" /\ SameCall(requests[r], requests'[r])
      BY <1>1, <2>1, ToStep DEF Points
    <2>3. TypeOK' /\ Grows
      BY <1>1, <2>1, <2>2 DEF TypeOK, Grows, Losing, history
    <2>4. RequestOK(r, log)'
      BY <1>1, <2>2
      DEF SameCall, RequestOK, Shape, SubscribeOK, UnsubscribeOK, Provisioned, Is, Making, Calling
    <2> QED BY <1>1, <1>2, <2>1, <2>2, <2>3, <2>4, Quiet
  <1> QED BY <1>3, <1>4

\* A stored answer ends the call.
LEMMA StoreResult ==
  ASSUME IInv, NEW r \in Requests, NEW log \in Log, LogOK(log), Calling(r),
         Accepts(r), NEW status \in {"success", "failed"}, SaveAs(r, status), Answer(r),
         status = "success" => Acked(requests[r].app, requests[r].row),
         UNCHANGED <<tenants, parts, apps, users, members, roles, rows, history>>
  PROVE  \E next : StepOK(r, log, next)
  <1>1. TypeOK /\ RequestOK(r, log)
    BY DEF IInv, LogOK
  <1>2. PICK q \in Request : q = requests[r]
    BY <1>1 DEF TypeOK
  <1>3. PICK p \in Pairs : p = PairOf(r) /\ p[2] = q.app
    <2>1. q.tenant \in Tenants /\ q.app \in Apps
      BY <1>1, <1>2 DEF RequestOK, Shape, Calling
    <2>2. PairOf(r) = <<q.tenant, q.app>>
      BY <1>2 DEF PairOf
    <2>3. <<q.tenant, q.app>> \in Pairs /\ <<q.tenant, q.app>>[2] = q.app
      BY <2>1 DEF Pairs
    <2> QED BY <2>2, <2>3
  <1>4. Names(log, q.row, p, "pending") /\ log[q.row].by = r
    BY <1>1, <1>2, <1>3 DEF RequestOK, SubscribeOK
  <1>5. subs[p] # NoSub => subs[p].id = q.row
    BY <1>2, <1>3 DEF Accepts, Stored, SubOf
  <1>6. Put(p, q.row, status)
    BY <1>2, <1>3 DEF SaveAs, Put
  <1>7. PICK next : next = Settled(log, q.row, status)
    OBVIOUS
  <1>8. /\ subs' \in [Pairs -> Sub \cup {NoSub}]
        /\ Follows(log, next, r)
        /\ TableOK(next)' /\ TableStep(r) /\ WorksOn(r)
        /\ \A o \in Pairs : subs[o] # NoSub => subs'[o] # NoSub
    BY <1>1, <1>2, <1>3, <1>4, <1>5, <1>6, <1>7, SettleRow DEF history
  <1>9. /\ requests' \in [Requests -> Request] /\ Others(r) /\ RequestOK(r, next)'
    BY <1>1, IdleStep, IdleOK
  <1>10. TypeOK' /\ Grows
    BY <1>1, <1>8, <1>9 DEF TypeOK, Grows, Losing, history
  <1> QED BY <1>8, <1>9, <1>10 DEF StepOK

LEMMA FinishOK ==
  ASSUME IInv, NEW r \in Requests, NEW log \in Log, LogOK(log), Finish(r)
  PROVE  \E next : StepOK(r, log, next)
  <1>1. /\ TypeOK /\ RequestOK(r, log) /\ Is(r, "subscribe", "finish")
        /\ UNCHANGED <<tenants, parts, apps, users, members, roles, rows, history>>
    BY DEF IInv, LogOK, Finish
  <1>2. Calling(r) /\ Acked(requests[r].app, requests[r].row)
    BY <1>1 DEF RequestOK, SubscribeOK, Is, Calling
  <1>3. CASE Accepts(r)
    <2>1. SaveAs(r, "success") /\ Answer(r)
      BY <1>3 DEF Finish
    <2> QED BY <1>1, <1>2, <1>3, <2>1, StoreResult
  <1>4. CASE ~Accepts(r)
    <2>1. To(r, "fail") /\ UNCHANGED subs
      BY <1>4 DEF Finish
    <2>2. /\ requests' \in [Requests -> Request] /\ Others(r)
          /\ requests'[r].pc = "fail" /\ SameCall(requests[r], requests'[r])
          /\ PairOf(r)' = PairOf(r)
      BY <1>1, <2>1, ToStep DEF Points
    <2>3. TypeOK' /\ Grows
      BY <1>1, <2>1, <2>2 DEF TypeOK, Grows, Losing, history
    <2>4. Calling(r)' /\ requests'[r].row = requests[r].row
      BY <1>1, <1>2, <2>2 DEF Is, Calling, SameCall
    <2>5. RequestOK(r, log)'
      BY <1>1, <2>2
      DEF SameCall, Names, RequestOK, Shape, SubscribeOK, UnsubscribeOK, Provisioned, Is, Making, Calling
    <2> QED BY <1>1, <2>1, <2>2, <2>3, <2>4, <2>5, Quiet
  <1> QED BY <1>3, <1>4

LEMMA FailSubscribeOK ==
  ASSUME IInv, NEW r \in Requests, NEW log \in Log, LogOK(log), FailSubscribe(r)
  PROVE  \E next : StepOK(r, log, next)
  <1>1. /\ TypeOK /\ RequestOK(r, log) /\ Is(r, "subscribe", "fail") /\ Answer(r)
        /\ UNCHANGED <<tenants, parts, apps, users, members, roles, history>>
    BY DEF IInv, LogOK, FailSubscribe
  <1>2. PairOf(r) \in Pairs
    BY <1>1 DEF Is, RequestOK, Shape, PairOf, Pairs
  <1>3. requests' \in [Requests -> Request] /\ Others(r) /\ requests'[r] = Idle
    BY <1>1, IdleStep
  <1>4. \A next : RequestOK(r, next)'
    BY <1>3, IdleOK
  <1>5. CASE requests[r].row # 0 /\ Accepts(r)
    <2>1. Calling(r) /\ SaveAs(r, "failed") /\ UNCHANGED rows
      BY <1>1, <1>5 DEF Is, Calling, FailSubscribe
    <2> QED BY <1>1, <1>5, <2>1, StoreResult
  <1>6. CASE requests[r].row # 0 /\ ~Accepts(r)
    <2>1. UNCHANGED <<subs, rows>>
      BY <1>6 DEF FailSubscribe
    <2>2. TypeOK' /\ Grows
      BY <1>1, <1>3, <2>1 DEF TypeOK, Grows, Losing, history
    <2>3. TableOK(log)' /\ TableStep(r)
      BY <1>1, <2>1 DEF LogOK, TableOK, Names, Acked, TableStep, history
    <2>4. WorksOn(r)
      BY <1>2, <1>6, <2>1 DEF WorksOn, Accepts, Stored
    <2> QED BY <1>1, <1>3, <1>4, <2>1, <2>2, <2>3, <2>4, SameLog DEF StepOK
  <1>7. CASE requests[r].row = 0 /\ Insertable(PairOf(r)) /\ rows < MaxRows
    <2>1. PICK id : id = rows + 1
      OBVIOUS
    <2>2. PICK p \in Pairs : p = PairOf(r)
      BY <1>2
    <2>3. /\ rows' = id /\ Put(p, id, "failed") /\ subs[p] = NoSub
          /\ acked \subseteq acked' /\ ~Calling(r) /\ "failed" \in Status
      BY <1>1, <1>7, <2>1, <2>2 DEF FailSubscribe, Put, Insertable, history, Calling, Status
    <2>4. PICK next : next = More(log, p, "failed", r)
      OBVIOUS
    <2>5. /\ subs' \in [Pairs -> Sub \cup {NoSub}] /\ rows' \in 0 .. MaxRows
          /\ Follows(log, next, r) /\ TableOK(next)' /\ TableStep(r) /\ WorksOn(r)
          /\ \A o \in Pairs : subs[o] # NoSub => subs'[o] # NoSub
      BY <1>1, <1>7, <2>1, <2>3, <2>4, InsertRow
    <2>6. TypeOK' /\ Grows
      BY <1>1, <1>3, <2>5 DEF TypeOK, Grows, Losing, history
    <2> QED BY <1>3, <1>4, <2>5, <2>6 DEF StepOK
  <1>8. CASE requests[r].row = 0 /\ ~(Insertable(PairOf(r)) /\ rows < MaxRows)
    <2>1. UNCHANGED <<subs, rows>> /\ ~Calling(r)
      BY <1>8 DEF FailSubscribe, Calling
    <2>2. TypeOK' /\ Grows
      BY <1>1, <1>3, <2>1 DEF TypeOK, Grows, Losing, history
    <2> QED BY <1>1, <1>3, <1>4, <2>1, <2>2, Quiet
  <1> QED BY <1>5, <1>6, <1>7, <1>8

-----------------------------------------------------------------------------
(* The steps that end unsubscribe, deleteApp, and the subscription that an *)
(* application asks for.                                                   *)

LEMMA DropSubOK ==
  ASSUME IInv, NEW r \in Requests, NEW log \in Log, LogOK(log), DropSub(r)
  PROVE  StepOK(r, log, log)
  <1>1. /\ TypeOK /\ RequestOK(r, log) /\ Is(r, "unsubscribe", "drop")
        /\ UNCHANGED <<tenants, parts, apps, users, members, roles, rows, acked, released, orphans, unfinished>>
        /\ subs' = Without(requests[r].row) /\ NoteLoss
        /\ Return(r, "named")
    BY DEF IInv, LogOK, DropSub
  <1>2. PICK q \in Request : q = requests[r]
    BY <1>1 DEF TypeOK
  <1>3. PICK p \in Pairs : p = PairOf(r) /\ p[2] = q.app
    <2>1. q.tenant \in Tenants /\ q.app \in Apps
      BY <1>1, <1>2 DEF RequestOK, Shape, Is
    <2>2. PairOf(r) = <<q.tenant, q.app>>
      BY <1>2 DEF PairOf
    <2>3. <<q.tenant, q.app>> \in Pairs /\ <<q.tenant, q.app>>[2] = q.app
      BY <2>1 DEF Pairs
    <2> QED BY <2>2, <2>3
  <1>4. /\ q.row \in 1 .. rows /\ log[q.row].pair = p
        /\ log[q.row].status = "failed" \/ Released(p[2], q.row)
    BY <1>1, <1>2, <1>3 DEF Is, RequestOK, UnsubscribeOK, Names
  <1>5. ~Calling(r)
    BY <1>1 DEF Is, Calling
  <1>6. /\ subs' \in [Pairs -> Sub \cup {NoSub}]
        /\ TableOK(log)' /\ TableStep(r) /\ WorksOn(r)
    <2>1. UNCHANGED rows /\ UNCHANGED acked /\ subs' = Without(q.row)
      BY <1>1, <1>2, <1>3
    <2> QED BY <1>1, <1>4, <1>5, <2>1, DeleteRow
  <1>7. TypeOK' /\ Grows
    BY <1>1, <1>2, <1>3, <1>6, ReturnType DEF TypeOK, Grows, NoteLoss
  <1>8. requests' \in [Requests -> Request] /\ Others(r) /\ RequestOK(r, log)'
    BY <1>1, <1>5, <1>7, SameLog, ReturnStep DEF Is
  <1> QED BY <1>1, <1>6, <1>7, <1>8, SameLog DEF StepOK

LEMMA FailUnsubscribeOK ==
  ASSUME IInv, NEW r \in Requests, NEW log \in Log, LogOK(log), FailUnsubscribe(r)
  PROVE  StepOK(r, log, log)
  <1>1. /\ TypeOK /\ RequestOK(r, log) /\ Is(r, "unsubscribe", "fail")
        /\ UNCHANGED <<tenants, parts, apps, users, members, roles, rows, history>>
        /\ Return(r, "fail")
    BY DEF IInv, LogOK, FailUnsubscribe
  <1>2. PICK q \in Request : q = requests[r]
    BY <1>1 DEF TypeOK
  <1>3. PICK p \in Pairs : p = PairOf(r) /\ p[2] = q.app
    <2>1. q.tenant \in Tenants /\ q.app \in Apps
      BY <1>1, <1>2 DEF RequestOK, Shape, Is
    <2>2. PairOf(r) = <<q.tenant, q.app>>
      BY <1>2 DEF PairOf
    <2>3. <<q.tenant, q.app>> \in Pairs /\ <<q.tenant, q.app>>[2] = q.app
      BY <2>1 DEF Pairs
    <2> QED BY <2>2, <2>3
  <1>4. Names(log, q.row, p, "success") /\ Acked(p[2], q.row)
    BY <1>1, <1>2, <1>3 DEF Is, RequestOK, UnsubscribeOK
  <1>5. ~Calling(r) /\ UNCHANGED <<rows, acked>>
    BY <1>1 DEF Is, Calling, history
  <1>6. /\ UNCHANGED subs /\ TableOK(log)' /\ TableStep(r) /\ WorksOn(r)
    <2>1. UNCHANGED subs
      <3>1. CASE p \in Stored(q.row)
        <4>1. subs[p] # NoSub /\ subs[p].id = q.row
          BY <3>1 DEF Stored
        <4>2. Put(p, q.row, "success")
          BY <1>2, <1>3, <3>1 DEF FailUnsubscribe, SaveAs, Put
        <4> QED BY <1>1, <1>4, <4>1, <4>2, RestoreRow
      <3>2. CASE p \notin Stored(q.row)
        BY <1>2, <1>3, <3>2 DEF FailUnsubscribe
      <3> QED BY <3>1, <3>2
    <2> QED
      BY <1>1, <1>5, <2>1 DEF TypeOK, LogOK, TableOK, Names, Acked, TableStep, WorksOn
  <1>7. TypeOK' /\ Grows
    BY <1>1, <1>6, ReturnType DEF TypeOK, Grows, Losing, history
  <1>8. requests' \in [Requests -> Request] /\ Others(r) /\ RequestOK(r, log)'
    BY <1>1, <1>5, <1>7, SameLog, ReturnStep DEF Is
  <1> QED BY <1>5, <1>6, <1>7, <1>8, <1>1, SameLog DEF StepOK

LEMMA RemoveAppOK ==
  ASSUME IInv, NEW r \in Requests, NEW log \in Log, LogOK(log), RemoveApp(r)
  PROVE  StepOK(r, log, log)
  <1> DEFINE a == requests[r].app
  <1>1. /\ TypeOK /\ RequestOK(r, log) /\ Is(r, "delete", "remove") /\ Answer(r)
        /\ apps' = apps \ {a}
        /\ subs' = [p \in Pairs |-> IF p[2] = a THEN NoSub ELSE subs[p]]
        /\ NoteLoss
        /\ UNCHANGED <<tenants, parts, users, members, roles, rows, acked, released, orphans, unfinished>>
    BY DEF IInv, LogOK, RemoveApp
  <1>2. ~Calling(r)
    BY <1>1 DEF Is, Calling
  <1>3. requests' \in [Requests -> Request] /\ Others(r) /\ RequestOK(r, log)'
    BY <1>1, IdleStep, IdleOK
  <1>4. subs' \in [Pairs -> Sub \cup {NoSub}]
    BY <1>1 DEF TypeOK
  <1>5. TypeOK' /\ Grows
    BY <1>1, <1>3, <1>4 DEF TypeOK, Grows, NoteLoss
  <1>6. TableOK(log)'
    BY <1>1 DEF LogOK, TableOK, Names, Acked
  <1>7. TableStep(r)
    BY <1>1 DEF TableStep
  <1> QED BY <1>1, <1>2, <1>3, <1>5, <1>6, <1>7, SameLog DEF StepOK, WorksOn

LEMMA CreateSubscriptionOK ==
  ASSUME IInv, NEW r \in Requests, NEW log \in Log, LogOK(log), CreateSubscription(r)
  PROVE  \E next : StepOK(r, log, next)
  <1>1. /\ TypeOK /\ Is(r, "onboard", "sub") /\ PairOf(r) \in Pairs /\ ~Calling(r)
        /\ UNCHANGED <<tenants, parts, apps, users, members, roles, released, missed, orphans,
                       unfinished>>
    BY OnboardFacts DEF CreateSubscription, Is, Calling
  <1>2. CASE Insertable(PairOf(r))
    <2>1. PICK id : id = rows + 1
      OBVIOUS
    <2>2. PICK p \in Pairs : p = PairOf(r)
      BY <1>1
    <2>3. /\ rows < MaxRows /\ rows' = id /\ Put(p, id, "success") /\ subs[p] = NoSub
          /\ acked' = IF requests[r].app \in Hooked THEN acked \cup {id} ELSE acked
          /\ p[2] = requests[r].app /\ "success" \in Status
      BY <1>2, <2>1, <2>2 DEF CreateSubscription, Put, Insertable, Status, PairOf
    <2>4. PICK next : next = More(log, p, "success", r)
      OBVIOUS
    <2>5. /\ subs' \in [Pairs -> Sub \cup {NoSub}] /\ rows' \in 0 .. MaxRows
          /\ id \in RowIds
          /\ Follows(log, next, r) /\ TableOK(next)' /\ TableStep(r) /\ WorksOn(r)
          /\ \A o \in Pairs : subs[o] # NoSub => subs'[o] # NoSub
      BY <1>1, <2>1, <2>3, <2>4, InsertRow DEF Acked
    <2>6. PICK pc \in {"ok", "roles", "find"} :
             /\ To(r, pc)
             /\ pc = "ok" => ~HasUser(r)
             /\ pc = "roles" => HasUser(r) /\ requests[r].fresh
             /\ pc = "find" => HasUser(r) /\ ~requests[r].fresh
      BY <1>2 DEF CreateSubscription
    <2>7. pc \in Points
      BY DEF Points
    <2>8. /\ requests' \in [Requests -> Request] /\ Others(r)
          /\ requests'[r].pc = pc /\ SameCall(requests[r], requests'[r])
          /\ PairOf(r)' = PairOf(r) /\ HasUser(r)' = HasUser(r)
      BY <1>1, <2>6, <2>7, ToStep
    <2>9. TypeOK' /\ Grows
      BY <1>1, <2>3, <2>5, <2>8 DEF TypeOK, Grows, Losing
    <2>10. subs'[p] # NoSub
      BY <1>1, <2>3, <2>5, PutFacts
    <2>11. RequestOK(r, next)'
      BY <1>1, <2>2, <2>6, <2>8, <2>10, OnboardFacts
      DEF SameCall, RequestOK, Shape, SubscribeOK, UnsubscribeOK, Provisioned, Is, Making, Calling,
          SubOf
    <2> QED BY <2>5, <2>8, <2>9, <2>11 DEF StepOK
  <1>3. CASE ~Insertable(PairOf(r))
    <2>1. To(r, "error") /\ UNCHANGED <<rows, subs, acked>>
      BY <1>3 DEF CreateSubscription
    <2>2. /\ requests'[r].pc = "error" /\ SameCall(requests[r], requests'[r])
          /\ HasUser(r)' = HasUser(r) /\ "error" \in Points
      BY <1>1, <2>1, ToStep DEF Points
    <2>3. Provisioned(r)' /\ ~Making(r)'
      BY <1>1, <2>2 DEF Provisioned, Making
    <2> QED
      BY <1>1, <2>1, <2>2, <2>3, ProvisionStep DEF Is, TypeOK, history
  <1> QED BY <1>2, <1>3

-----------------------------------------------------------------------------
(* The theorems.                                                           *)

LEMMA InitOK ==
  ASSUME Init
  PROVE  IInv
  <1>1. TypeOK
    <2>1. Idle \in Request
      BY DEF Idle, Request
    <2> QED BY <2>1, RowsAreCounted DEF Init, TypeOK
  <1>2. PendingHasAWorker
    BY DEF Init, PendingHasAWorker, Awaited, Rows
  <1>3. PICK log : log = [id \in 1 .. 0 |-> id]
    OBVIOUS
  <1>4. log \in Log /\ TableOK(log)
    BY <1>3 DEF Init, Log, TableOK
  <1>5. \A r \in Requests : RequestOK(r, log)
    BY DEF Init, Idle, RequestOK, Shape, SubscribeOK, UnsubscribeOK, Provisioned, Is, Making, Calling
  <1> QED BY <1>1, <1>2, <1>4, <1>5 DEF IInv, LogOK

LEMMA RequestSteps ==
  ASSUME IInv, NEW r \in Requests, Begin(r) \/ Work(r) \/ Break(r) \/ Answered(r),
         NEW log \in Log, LogOK(log)
  PROVE  \E next : StepOK(r, log, next)
  <1>1. CASE Begin(r)
    BY <1>1, BeginSubscribeOK, BeginUnsubscribeOK, BeginOnboardOK, BeginDeleteOK DEF Begin
  <1>2. CASE Subscribe(r)
    BY <1>2, ClearOK, CreatePendingOK, CallOnboardOK, FinishOK, FailSubscribeOK
    DEF Subscribe
  <1>3. CASE Unsubscribe(r)
    BY <1>3, LookUnsubscribeOK, CallOffboardOK, NextNamedOK, DropRolesOK, DropSubOK,
       FailUnsubscribeOK
    DEF Unsubscribe
  <1>4. CASE Onboard(r)
    BY <1>4, SeekOK, FindUserOK, CreateUserOK, CreateTenantOK, FurnishOK, JoinOK,
       CreateSubscriptionOK, AssignRolesOK
    DEF Onboard
  <1>5. CASE RemoveApp(r)
    BY <1>5, RemoveAppOK
  <1>6. CASE Answered(r)
    BY <1>6, AnsweredOK
  <1>7. CASE Break(r)
    BY <1>7, BreakOK
  <1> QED BY <1>1, <1>2, <1>3, <1>4, <1>5, <1>6, <1>7 DEF Work

\* The rows whose call the server stopped in become orphans.
LEMMA CrashOK ==
  ASSUME IInv, Crash
  PROVE  IInv'
  <1>1. /\ TypeOK /\ UNCHANGED <<tables, acked, released>>
        /\ requests' = [r \in Requests |-> Idle]
        /\ orphans' = orphans \cup {requests[r].row : r \in {q \in Requests : Calling(q)}}
        /\ unfinished' = unfinished \cup Made(Requests) /\ missed' = {}
    BY DEF IInv, Crash
  <1>2. PICK log \in Log : LogOK(log)
    BY DEF IInv
  <1>3. \A r \in Requests : requests'[r] = Idle /\ RequestOK(r, log)'
    BY <1>1, IdleOK
  <1>4. \A r \in Requests : Calling(r) => requests[r].row \in RowIds
    BY <1>1, <1>2, RowsAreCounted DEF LogOK, RequestOK, SubscribeOK, Names, RowIds, TypeOK
  <1>5. Idle \in Request
    BY DEF Idle, Request
  <1>6. Made(Requests) \subseteq Tenants
    <2>1. \A r \in Requests : Making(r) => requests[r].tenant \in Tenants
      BY <1>2 DEF LogOK, RequestOK, Shape, Making
    <2> QED BY <2>1 DEF Made
  <1>9. TypeOK'
    BY <1>1, <1>4, <1>5, <1>6 DEF TypeOK, tables
  <1>7. PendingHasAWorker'
    BY <1>1 DEF IInv, PendingHasAWorker, Awaited, Rows, tables
  <1>8. LogOK(log)' /\ log \in Log'
    BY <1>1, <1>2, <1>3 DEF LogOK, TableOK, Names, Acked, Log, tables
  <1> QED BY <1>7, <1>8, <1>9 DEF IInv

LEMMA StutterOK ==
  ASSUME IInv, UNCHANGED vars
  PROVE  IInv'
  <1>1. UNCHANGED <<tables, requests, history>>
    BY DEF vars
  <1>2. TypeOK' /\ PendingHasAWorker'
    BY <1>1
    DEF IInv, TypeOK, PendingHasAWorker, Awaited, Rows, Calling, PairOf, tables, history
  <1>3. PICK log \in Log : LogOK(log)
    BY DEF IInv
  <1>4. log \in Log' /\ TableOK(log)'
    BY <1>1, <1>3 DEF LogOK, Log, TableOK, Names, Acked, tables, history
  <1>5. ASSUME NEW r \in Requests PROVE RequestOK(r, log)'
    <2>1. RequestOK(r, log)
      BY <1>3 DEF LogOK
    <2>2. Shape(r)' /\ Provisioned(r)'
      BY <1>1, <2>1
      DEF RequestOK, Shape, Provisioned, Is, Making, Calling, PairOf, SubOf, HasUser, tables, history
    <2>3. SubscribeOK(r, log)'
      BY <1>1, <2>1
      DEF RequestOK, SubscribeOK, Is, Calling, PairOf, SubOf, Names, Acked, tables, history
    <2>4. UnsubscribeOK(r, log)'
      BY <1>1, <2>1
      DEF RequestOK, UnsubscribeOK, Is, Calling, PairOf, SubOf, Names, Acked, Released,
          tables, history
    <2> QED BY <2>2, <2>3, <2>4 DEF RequestOK
  <1>6. LogOK(log)' /\ log \in Log'
    BY <1>4, <1>5 DEF LogOK
  <1> QED BY <1>2, <1>6 DEF IInv

-----------------------------------------------------------------------------
(* The creation of a tenant, which goes on in the call that stored the row.*)

\* What a provisioning call knows of its tenant.
Furnished(r) ==
    LET q == requests[r] IN
    q.op = "onboard" =>
        /\ ~q.fresh \/ Making(r) \/ q.pc \in {"sub", "member", "roles", "ok"} =>
              q.tenant \in tenants
        /\ q.pc \in {"owner", "kinds", "admin"} => "keys" \in parts[q.tenant]

TenantOK(t) == parts[t] = Parts \/ t \in unfinished \cup Made(Requests)

TenantsOK ==
    /\ \A t \in tenants : TenantOK(t)
    /\ \A r \in Requests : Furnished(r)

TInv == IInv /\ TenantsOK

\* A new tenant is known as unfinished or has a maker, who goes on until the
\* tenant is whole or known as unfinished.
TenantStep(r) ==
    /\ tenants \subseteq tenants'
    /\ \A t \in Tenants : parts[t] \subseteq parts'[t]
    /\ unfinished \subseteq unfinished'
    /\ \A t \in tenants' \ tenants :
          t \in unfinished' \/ (Making(r)' /\ requests'[r].tenant = t)
    /\ Making(r) =>
          \/ Making(r)' /\ requests'[r].tenant = requests[r].tenant
          \/ requests[r].tenant \in unfinished'
          \/ parts'[requests[r].tenant] = Parts
    /\ Furnished(r)'

LEMMA MadeBy ==
  ASSUME NEW t
  PROVE  t \in Made(Requests) <=> \E s \in Requests : Making(s) /\ requests[s].tenant = t
  BY DEF Made

LEMMA TenantsKept ==
  ASSUME TypeOK, TypeOK', TenantsOK, NEW r \in Requests, Others(r), TenantStep(r),
         \A s \in Requests : Shape(s)
  PROVE  TenantsOK'
  <1>1. ASSUME NEW t \in tenants' PROVE TenantOK(t)'
    <2>1. t \in Tenants /\ parts'[t] \in SUBSET Parts
      BY <1>1 DEF TypeOK
    <2>2. CASE t \notin tenants
      BY <1>1, <2>2 DEF TenantStep, TenantOK, Made
    <2>3. CASE parts[t] = Parts
      BY <2>1, <2>3 DEF TenantStep, TenantOK
    <2>4. CASE t \in unfinished
      BY <2>4 DEF TenantStep, TenantOK
    <2>5. ASSUME NEW s \in Requests, Making(s), requests[s].tenant = t
          PROVE  TenantOK(t)'
      <3>1. CASE s = r
        BY <2>5, <3>1 DEF TenantStep, TenantOK, Made
      <3>2. CASE s # r
        <4>1. Making(s)' /\ requests'[s].tenant = t
          BY <2>5, <3>2 DEF Others, Making
        <4> QED BY <2>5, <4>1 DEF TenantOK, Made
      <3> QED BY <3>1, <3>2
    <2> QED BY <2>2, <2>3, <2>4, <2>5, MadeBy DEF TenantsOK, TenantOK
  <1>2. ASSUME NEW s \in Requests PROVE Furnished(s)'
    <2>1. CASE s = r
      BY <2>1 DEF TenantStep
    <2>2. CASE s # r
      <3>1. PICK q \in Request : q = requests[s] /\ q = requests'[s]
        BY <2>2 DEF TypeOK, Others
      <3>2. Making(s)' = Making(s)
        BY <3>1 DEF Making
      <3>3. q.op = "onboard" => q.tenant \in Tenants
        BY <3>1 DEF Shape
      <3> QED BY <3>1, <3>2, <3>3 DEF TenantsOK, Furnished, TenantStep
    <2> QED BY <2>1, <2>2
  <1> QED BY <1>1, <1>2 DEF TenantsOK

\* Steps that leave the tenants alone.
LEMMA Apart ==
  ASSUME TypeOK, NEW r \in Requests, UNCHANGED <<tenants, parts, unfinished>>, ~Making(r),
         requests'[r].op # "onboard"
  PROVE  TenantStep(r)
  BY DEF TenantStep, Furnished

LEMMA Onward ==
  ASSUME TypeOK, NEW r \in Requests, requests[r].op = "onboard",
         NEW pc \in {"sub", "find", "user", "tenant", "member", "roles", "ok", "error"},
         To(r, pc), UNCHANGED <<tenants, parts, unfinished>>, ~Making(r), Furnished(r),
         pc \in {"sub", "member", "roles", "ok"} => requests[r].tenant \in tenants
  PROVE  TenantStep(r)
  <1>1. pc \in Points
    BY DEF Points
  <1>2. requests'[r].pc = pc /\ SameCall(requests[r], requests'[r])
    BY <1>1, ToStep
  <1>3. Furnished(r)'
    BY <1>2 DEF SameCall, Furnished, Making
  <1> QED BY <1>3 DEF TenantStep

LEMMA OtherCalls ==
  ASSUME IInv, NEW r \in Requests, Subscribe(r) \/ Unsubscribe(r) \/ RemoveApp(r)
  PROVE  /\ UNCHANGED <<tenants, parts, unfinished>>
         /\ ~Making(r) /\ requests'[r].op # "onboard"
  <1>1. PICK q \in Request : q = requests[r]
    BY DEF IInv, TypeOK
  <1>2. TypeOK
    BY DEF IInv
  <1>3. ASSUME q.op # "onboard", NEW pc \in Points, To(r, pc)
        PROVE  requests'[r].op # "onboard"
    BY <1>1, <1>2, <1>3, ToStep DEF SameCall
  <1>4. ASSUME Answer(r)
        PROVE  requests'[r].op # "onboard"
    BY <1>2, <1>4, IdleStep DEF Idle
  <1>5. ASSUME q.op # "onboard", NEW pc, Return(r, pc)
        PROVE  requests'[r].op # "onboard"
    <2>1. CASE Answer(r)
      BY <1>4, <2>1
    <2>2. CASE requests' = [requests EXCEPT
                  ![r] = [q EXCEPT !.app = q.outer, !.row = q.outerRow,
                                   !.outer = NoApp, !.outerRow = 0, !.pc = pc]]
      BY <1>2, <1>5, <2>2 DEF TypeOK, Request
    <2> QED BY <1>1, <1>5, <2>1, <2>2 DEF Return
  <1>6. CASE Subscribe(r)
    <2>1. UNCHANGED <<tenants, parts, unfinished>> /\ q.op = "subscribe"
      BY <1>1, <1>6
      DEF Subscribe, Clear, CreatePending, CallOnboard, Finish, FailSubscribe, Is,
          tables, history
    <2>2. ASSUME Clear(r)
          PROVE  requests'[r].op # "onboard"
      <3> DEFINE n == [q EXCEPT !.pc = "create", !.row = 0]
      <3>1. n.op = q.op
        BY DEF Request
      <3>2. requests' = [requests EXCEPT ![r] = n]
        BY <1>1, <2>2 DEF Clear
      <3> HIDE DEF n
      <3> QED BY <1>2, <2>1, <3>1, <3>2 DEF TypeOK
    <2>3. ASSUME CreatePending(r)
          PROVE  requests'[r].op # "onboard"
      <3> DEFINE n == [q EXCEPT !.pc = "call", !.row = rows + 1]
      <3>1. n.op = q.op
        BY DEF Request
      <3>2. requests' = [requests EXCEPT ![r] = n] \/ To(r, "fail")
        BY <1>1, <2>3 DEF CreatePending
      <3> HIDE DEF n
      <3>3. CASE requests' = [requests EXCEPT ![r] = n]
        BY <1>2, <2>1, <3>1, <3>3 DEF TypeOK
      <3> QED BY <1>3, <2>1, <3>2, <3>3 DEF Points
    <2>4. ASSUME CallOnboard(r) \/ Finish(r) \/ FailSubscribe(r)
          PROVE  requests'[r].op # "onboard"
      <3>1. To(r, "finish") \/ To(r, "fail") \/ Answer(r)
        BY <2>4 DEF CallOnboard, Finish, FailSubscribe
      <3> QED BY <1>3, <1>4, <2>1, <3>1 DEF Points
    <2> QED BY <1>1, <1>6, <2>1, <2>2, <2>3, <2>4 DEF Subscribe, Making
  <1>7. CASE Unsubscribe(r)
    <2>1. UNCHANGED <<tenants, parts, unfinished>> /\ q.op = "unsubscribe"
      BY <1>1, <1>7
      DEF Unsubscribe, LookUnsubscribe, CallOffboard, NextNamed, DropRoles, DropSub,
          FailUnsubscribe, Is, tables, history
    <2>2. ASSUME LookUnsubscribe(r)
          PROVE  requests'[r].op # "onboard"
      <3> DEFINE n(pc) == [q EXCEPT !.pc = pc, !.row = SubOf(r).id]
      <3>1. \A pc : n(pc).op = q.op
        BY DEF Request
      <3>2. \/ Return(r, "named")
            \/ requests' = [requests EXCEPT ![r] = n("drop")]
            \/ requests' = [requests EXCEPT ![r] = n("call")]
        BY <1>1, <2>2 DEF LookUnsubscribe
      <3> HIDE DEF n
      <3>3. ASSUME NEW pc, requests' = [requests EXCEPT ![r] = n(pc)]
            PROVE  requests'[r].op # "onboard"
        BY <1>2, <2>1, <3>1, <3>3 DEF TypeOK
      <3> QED BY <1>5, <2>1, <3>2, <3>3
    <2>3. ASSUME NextNamed(r)
          PROVE  requests'[r].op # "onboard"
      <3> DEFINE n(b) == [q EXCEPT !.pc = "look", !.app = b, !.row = 0,
                                   !.outer = q.app, !.outerRow = q.row]
      <3>1. \A b : n(b).op = q.op
        BY DEF Request
      <3>2. \/ To(r, "roles") \/ To(r, "fail")
            \/ \E b \in apps : requests' = [requests EXCEPT ![r] = n(b)]
        <4>1. \A b : [requests EXCEPT
                        ![r].pc = "look", ![r].app = b, ![r].row = 0,
                        ![r].outer = requests[r].app, ![r].outerRow = requests[r].row]
                     = [requests EXCEPT ![r] = n(b)]
          BY <1>1
        <4> QED BY <2>3, <4>1 DEF NextNamed
      <3> HIDE DEF n
      <3>3. ASSUME NEW b, requests' = [requests EXCEPT ![r] = n(b)]
            PROVE  requests'[r].op # "onboard"
        BY <1>2, <2>1, <3>1, <3>3 DEF TypeOK
      <3> QED BY <1>3, <2>1, <3>2, <3>3 DEF Points
    <2>4. ASSUME CallOffboard(r) \/ DropRoles(r) \/ DropSub(r) \/ FailUnsubscribe(r)
          PROVE  requests'[r].op # "onboard"
      <3>1. PICK pc \in {"roles", "fail", "named", "drop"} : To(r, pc) \/ Return(r, pc)
        BY <2>4 DEF CallOffboard, DropRoles, DropSub, FailUnsubscribe
      <3> QED BY <1>3, <1>5, <2>1, <3>1 DEF Points
    <2> QED BY <1>1, <1>7, <2>1, <2>2, <2>3, <2>4 DEF Unsubscribe, Making
  <1>8. CASE RemoveApp(r)
    BY <1>1, <1>4, <1>8 DEF RemoveApp, Is, Making
  <1> QED BY <1>6, <1>7, <1>8

LEMMA BeginTenant ==
  ASSUME IInv, NEW r \in Requests, Begin(r)
  PROVE  TenantStep(r)
  <1>1. /\ TypeOK /\ requests[r].pc = "idle"
        /\ UNCHANGED <<tenants, parts, unfinished>>
    BY DEF IInv, Begin, BeginSubscribe, BeginUnsubscribe, BeginOnboard, BeginDelete,
           tables, history
  <1>2. ~Making(r)
    BY <1>1 DEF Making
  <1>3. CASE \E t \in Tenants, a \in Apps : BeginSubscribe(r, t, a)
    <2>1. PICK t \in Tenants, a \in Apps : BeginSubscribe(r, t, a)
      BY <1>3
    <2>2. requests' = [requests EXCEPT ![r] =
             [Idle EXCEPT !.op = "subscribe", !.tenant = t, !.app = a,
                          !.pc = IF subs[<<t, a>>] = NoSub THEN "create" ELSE "clear",
                          !.row = IF subs[<<t, a>>] = NoSub THEN 0 ELSE subs[<<t, a>>].id]]
      BY <2>1 DEF BeginSubscribe
    <2>3. requests'[r].op = "subscribe"
      BY <1>1, <2>2 DEF TypeOK, Idle
    <2> QED BY <1>1, <1>2, <2>3, Apart
  <1>4. CASE \E t \in Tenants, a \in Apps : BeginUnsubscribe(r, t, a)
    <2>1. PICK t \in Tenants, a \in Apps :
             requests' = [requests EXCEPT ![r] =
                [Idle EXCEPT !.op = "unsubscribe", !.pc = "look",
                             !.tenant = t, !.app = a]]
      BY <1>4 DEF BeginUnsubscribe
    <2>2. requests'[r].op = "unsubscribe"
      BY <1>1, <2>1 DEF TypeOK, Idle
    <2> QED BY <1>1, <1>2, <2>2, Apart
  <1>5. CASE \E a \in Apps : BeginDelete(r, a)
    <2>1. PICK a \in Apps :
             requests' = [requests EXCEPT ![r] =
                [Idle EXCEPT !.op = "delete", !.pc = "remove", !.app = a]]
      BY <1>5 DEF BeginDelete
    <2>2. requests'[r].op = "delete"
      BY <1>1, <2>1 DEF TypeOK, Idle
    <2> QED BY <1>1, <1>2, <2>2, Apart
  <1>6. CASE \E t \in Tenants, a \in Apps, u \in Users \cup {NoUser} :
                BeginOnboard(r, t, a, u)
    <2>1. PICK t \in Tenants, a \in Apps, u \in Users \cup {NoUser} :
             BeginOnboard(r, t, a, u)
      BY <1>6
    <2> DEFINE fresh == t \notin tenants
               pc == IF ~fresh THEN "seek" ELSE IF u # NoUser THEN "find" ELSE "tenant"
               n == [Idle EXCEPT !.op = "onboard", !.tenant = t, !.app = a, !.user = u,
                                 !.fresh = fresh, !.pc = pc]
    <2>2. pc \in {"seek", "find", "tenant"}
      OBVIOUS
    <2>3. requests' = [requests EXCEPT ![r] = n]
      BY <2>1 DEF BeginOnboard
    <2> HIDE DEF pc
    <2>4. n.tenant = t /\ n.fresh = fresh /\ n.pc = pc
      BY DEF Idle
    <2> HIDE DEF n
    <2>5. requests'[r] = n
      BY <1>1, <2>3 DEF TypeOK
    <2>6. ~Making(r)'
      BY <2>2, <2>4, <2>5 DEF Making
    <2>7. Furnished(r)'
      BY <1>1, <2>2, <2>4, <2>5, <2>6 DEF Furnished
    <2> QED BY <1>1, <1>2, <2>7 DEF TenantStep
  <1> QED BY <1>3, <1>4, <1>5, <1>6 DEF Begin

LEMMA OnboardTenant ==
  ASSUME IInv, TenantsOK, NEW r \in Requests, Onboard(r)
  PROVE  TenantStep(r)
  <1>1. TypeOK /\ Furnished(r) /\ requests[r].op = "onboard"
    BY DEF IInv, TenantsOK, Onboard, Seek, FindUser, CreateUser, CreateTenant, Furnish,
           AddOwner, CreateSubscription, EnsureMember, AssignRoles, Is
  <1>2. /\ requests[r].tenant \in Tenants
        /\ requests[r].pc = "seek" => ~requests[r].fresh
    BY <1>1, OnboardFacts DEF Provisioned
  <1>3. CASE Seek(r)
    <2>1. PICK pc \in {"sub", "find", "ok"} : To(r, pc)
      BY <1>3 DEF Seek
    <2>2. ~Making(r) /\ requests[r].tenant \in tenants
          /\ UNCHANGED <<tenants, parts, unfinished>>
      BY <1>1, <1>2, <1>3 DEF Seek, Is, Making, Furnished, tables, history
    <2> QED BY <1>1, <2>1, <2>2, Onward
  <1>4. CASE FindUser(r)
    <2>1. PICK pc \in {"tenant", "member", "user"} :
             To(r, pc) /\ (pc = "member" => ~requests[r].fresh)
      BY <1>4 DEF FindUser, AfterUser
    <2>2. ~Making(r) /\ (pc = "member" => requests[r].tenant \in tenants)
          /\ UNCHANGED <<tenants, parts, unfinished>>
      BY <1>1, <1>4, <2>1 DEF FindUser, Is, Making, Furnished, tables, history
    <2> QED BY <1>1, <2>1, <2>2, Onward
  <1>5. CASE CreateUser(r)
    <2>1. PICK pc \in {"tenant", "member", "error"} :
             To(r, pc) /\ (pc = "member" => ~requests[r].fresh)
      BY <1>5 DEF CreateUser, AfterUser
    <2>2. ~Making(r) /\ (pc = "member" => requests[r].tenant \in tenants)
          /\ UNCHANGED <<tenants, parts, unfinished>>
      BY <1>1, <1>5, <2>1 DEF CreateUser, Is, Making, Furnished, history
    <2> QED BY <1>1, <2>1, <2>2, Onward
  <1>6. CASE CreateTenant(r)
    <2>1. ~Making(r) /\ UNCHANGED parts
      BY <1>6 DEF CreateTenant, Is, Making
    <2>2. CASE requests[r].tenant \in tenants
      <3>1. To(r, "error") /\ UNCHANGED <<tenants, unfinished>>
        BY <1>6, <2>2 DEF CreateTenant
      <3> QED BY <1>1, <2>1, <3>1, Onward
    <2>3. CASE requests[r].tenant \notin tenants
      <3>1. PICK pc \in {"client", "sub"} :
               /\ To(r, pc)
               /\ tenants' = tenants \cup {requests[r].tenant}
               /\ unfinished \subseteq unfinished'
               /\ pc = "sub" => requests[r].tenant \in unfinished'
        BY <1>6, <2>3 DEF CreateTenant
      <3>2. requests'[r].pc = pc /\ SameCall(requests[r], requests'[r]) /\ pc \in Points
        BY <1>1, <3>1, ToStep DEF Points
      <3>3. pc = "client" => Making(r)'
        BY <1>1, <3>2 DEF SameCall, Making
      <3>4. Furnished(r)'
        BY <3>1, <3>2 DEF SameCall, Furnished
      <3> QED BY <2>1, <3>1, <3>2, <3>3, <3>4 DEF TenantStep, SameCall
    <2> QED BY <2>2, <2>3
  <1>7. CASE Furnish(r)
    <2>1. PICK step \in {"client", "key", "kinds", "admin"},
               pc \in {"key", "owner", "admin", "sub"}, new \in SUBSET Parts :
             /\ requests[r].pc = step
             /\ To(r, pc)
             /\ parts' = [parts EXCEPT ![requests[r].tenant] = @ \cup new]
             /\ step = "client" => pc = "key"
             /\ step = "key" => pc = "owner" /\ "keys" \in new
             /\ step = "kinds" => pc = "admin"
             /\ step = "admin" => pc = "sub" /\ "admin" \in new
      BY <1>7, FurnishStep
    <2>2. UNCHANGED <<tenants, unfinished>>
      BY <1>7 DEF Furnish, history
    <2>3. PICK t \in Tenants : t = requests[r].tenant
      BY <1>2
    <2>4. /\ parts'[t] = parts[t] \cup new
          /\ \A o \in Tenants : o # t => parts'[o] = parts[o]
          /\ parts[t] \in SUBSET Parts
      BY <1>1, <2>1, <2>3, FurnishType DEF TypeOK
    <2>5. requests'[r].pc = pc /\ SameCall(requests[r], requests'[r]) /\ pc \in Points
      BY <1>1, <2>1, ToStep DEF Points
    <2>6. Making(r) /\ t \in tenants
      BY <1>1, <2>1, <2>3 DEF Making, Furnished
    <2>7. pc # "sub" => Making(r)'
      BY <1>1, <2>1, <2>5 DEF Making, SameCall
    <2>8. step \in {"kinds", "admin"} => "keys" \in parts[t]
      BY <1>1, <2>1, <2>3 DEF Furnished
    <2>9. pc = "sub" => parts'[t] = Parts
      BY <2>1, <2>4, <2>8 DEF Parts
    <2>10. pc \in {"owner", "kinds", "admin"} => "keys" \in parts'[t]
      BY <2>1, <2>4, <2>8
    <2>11. requests'[r].tenant = t
      BY <2>3, <2>5 DEF SameCall
    <2>12. Furnished(r)'
      BY <2>2, <2>5, <2>6, <2>10, <2>11 DEF Furnished
    <2> QED
      BY <2>2, <2>3, <2>4, <2>7, <2>9, <2>11, <2>12 DEF TenantStep
  <1>8. CASE AddOwner(r)
    <2>1. To(r, "kinds") /\ UNCHANGED <<tenants, parts, unfinished>>
          /\ requests[r].pc = "owner"
      BY <1>8 DEF AddOwner, Is, history
    <2>2. requests'[r].pc = "kinds" /\ SameCall(requests[r], requests'[r])
      BY <1>1, <2>1, ToStep DEF Points
    <2>3. Making(r) /\ Making(r)'
      BY <1>1, <2>1, <2>2 DEF Making, SameCall
    <2>4. Furnished(r)'
      BY <1>1, <2>1, <2>2, <2>3 DEF Furnished, SameCall
    <2> QED BY <2>1, <2>2, <2>3, <2>4 DEF TenantStep, SameCall
  <1>9. CASE CreateSubscription(r)
    <2>1. PICK pc \in {"ok", "roles", "find", "error"} : To(r, pc)
      BY <1>9 DEF CreateSubscription
    <2>2. ~Making(r) /\ requests[r].tenant \in tenants
          /\ UNCHANGED <<tenants, parts, unfinished>>
      BY <1>1, <1>9 DEF CreateSubscription, Is, Making, Furnished
    <2> QED BY <1>1, <2>1, <2>2, Onward
  <1>10. CASE EnsureMember(r) \/ AssignRoles(r)
    <2>1. PICK pc \in {"roles", "ok"} : To(r, pc)
      BY <1>10 DEF EnsureMember, AssignRoles
    <2>2. ~Making(r) /\ requests[r].tenant \in tenants
          /\ UNCHANGED <<tenants, parts, unfinished>>
      BY <1>1, <1>10 DEF EnsureMember, AssignRoles, Is, Making, Furnished, history
    <2> QED BY <1>1, <2>1, <2>2, Onward
  <1> QED BY <1>3, <1>4, <1>5, <1>6, <1>7, <1>8, <1>9, <1>10 DEF Onboard

LEMMA BreakTenant ==
  ASSUME IInv, TenantsOK, NEW r \in Requests, Break(r)
  PROVE  TenantStep(r)
  <1>1. /\ TypeOK /\ requests[r].op = "onboard" /\ To(r, "error")
        /\ unfinished' = unfinished \cup Made({r})
        /\ UNCHANGED <<tenants, parts>>
    BY DEF IInv, Break, tables
  <1>2. requests'[r].pc = "error" /\ SameCall(requests[r], requests'[r])
    BY <1>1, ToStep DEF Points
  <1>3. Making(r) => requests[r].tenant \in unfinished'
    BY <1>1 DEF Made
  <1>4. Furnished(r)'
    BY <1>1, <1>2 DEF TenantsOK, Furnished, Making, SameCall
  <1> QED BY <1>1, <1>3, <1>4 DEF TenantStep

LEMMA AnsweredTenant ==
  ASSUME IInv, NEW r \in Requests, Answered(r)
  PROVE  TenantStep(r)
  <1>1. TypeOK /\ UNCHANGED <<tenants, parts, unfinished>> /\ ~Making(r) /\ Answer(r)
    BY DEF IInv, Answered, Answer, Making, tables
  <1>2. requests'[r].op # "onboard"
    BY <1>1, IdleStep DEF Idle
  <1> QED BY <1>1, <1>2, Apart

LEMMA CrashTenant ==
  ASSUME IInv, TenantsOK, Crash
  PROVE  TenantsOK'
  <1>1. /\ UNCHANGED <<tenants, parts>> /\ unfinished' = unfinished \cup Made(Requests)
        /\ \A r \in Requests : requests'[r] = Idle
    BY DEF Crash, tables
  <1>2. \A r \in Requests : Furnished(r)'
    BY <1>1 DEF Furnished, Idle
  <1> QED BY <1>1, <1>2 DEF TenantsOK, TenantOK

\* The log exists in every reachable state.
THEOREM Invariant == Spec => []IInv
  <1>1. IInv /\ [Next]_vars => IInv'
    <2> SUFFICES ASSUME IInv, [Next]_vars PROVE IInv'
      OBVIOUS
    <2>1. ASSUME NEW r \in Requests, Begin(r) \/ Work(r) \/ Break(r) \/ Answered(r)
          PROVE  IInv'
      <3>1. PICK log \in Log : LogOK(log)
        BY DEF IInv
      <3>2. PICK next : StepOK(r, log, next)
        BY <2>1, <3>1, RequestSteps
      <3> QED BY <3>1, <3>2, StepKeeps
    <2>2. CASE Crash
      BY <2>2, CrashOK
    <2>3. CASE UNCHANGED vars
      BY <2>3, StutterOK
    <2> QED BY <2>1, <2>2, <2>3 DEF Next
  <1> QED BY <1>1, InitOK, PTL DEF Spec

\* Every tenant is whole, known as unfinished, or still under way.
THEOREM TenantInvariant == Spec => []TInv
  <1>1. Init => TInv
    <2> SUFFICES ASSUME Init PROVE TInv
      OBVIOUS
    <2>1. \A t \in tenants : TenantOK(t)
      BY DEF Init, TenantOK
    <2>2. \A r \in Requests : Furnished(r)
      BY DEF Init, Furnished, Idle
    <2> QED BY <2>1, <2>2, InitOK DEF TInv, TenantsOK
  <1>2. IInv /\ IInv' /\ TenantsOK /\ [Next]_vars => TenantsOK'
    <2> SUFFICES ASSUME IInv, IInv', TenantsOK, [Next]_vars PROVE TenantsOK'
      OBVIOUS
    <2>1. ASSUME NEW r \in Requests, Begin(r) \/ Work(r) \/ Break(r) \/ Answered(r)
          PROVE  TenantsOK'
      <3>1. PICK log \in Log : LogOK(log)
        BY DEF IInv
      <3>2. Others(r)
        <4>1. PICK next : StepOK(r, log, next)
          BY <2>1, <3>1, RequestSteps
        <4> QED BY <4>1 DEF StepOK
      <3>3. TenantStep(r)
        <4>1. CASE Subscribe(r) \/ Unsubscribe(r) \/ RemoveApp(r)
          <5>1. /\ UNCHANGED <<tenants, parts, unfinished>>
                /\ ~Making(r) /\ requests'[r].op # "onboard"
            BY <4>1, OtherCalls
          <5> QED BY <5>1, Apart DEF IInv
        <4> QED
          BY <2>1, <4>1, BeginTenant, OnboardTenant, BreakTenant, AnsweredTenant DEF Work
      <3>4. TypeOK /\ TypeOK' /\ \A s \in Requests : Shape(s)
        BY <3>1 DEF IInv, LogOK, RequestOK
      <3> QED BY <3>2, <3>3, <3>4, TenantsKept
    <2>2. CASE Crash
      BY <2>2, CrashTenant
    <2>3. CASE UNCHANGED vars
      BY <2>3
      DEF vars, tables, history, TenantsOK, TenantOK, Furnished, Made, Making
    <2> QED BY <2>1, <2>2, <2>3 DEF Next
  <1> QED BY <1>1, <1>2, Invariant, PTL DEF Spec, TInv

\* Tables and local variables keep their types.
THEOREM TypeCorrect == Spec => []TypeOK
  <1>1. IInv => TypeOK
    BY DEF IInv
  <1> QED BY <1>1, Invariant, PTL

\* A pending subscription is one that a subscribe call is working on, unless the
\* server was stopped in that call.
THEOREM PendingIsWorkedOn == Spec => []PendingHasAWorker
  <1>1. IInv => PendingHasAWorker
    BY DEF IInv
  <1> QED BY <1>1, Invariant, PTL

\* No path of subscribe, unsubscribe or onboard leaves a subscription successful
\* that the application never acknowledged.
THEOREM SuccessIsAcknowledged == Spec => []SuccessWasAcknowledged
  <1>1. IInv => SuccessWasAcknowledged
    <2> SUFFICES ASSUME IInv, NEW p \in Rows("success"), p[2] \in Hooked
                 PROVE  subs[p].id \in acked
      BY DEF SuccessWasAcknowledged
    <2>1. p \in Pairs /\ subs[p] # NoSub /\ subs[p].status = "success"
      BY DEF Rows
    <2> QED BY <2>1 DEF IInv, LogOK, TableOK, Acked
  <1> QED BY <1>1, Invariant, PTL

\* An answered onboardCustomer call left everything stored, whatever ran beside
\* it or stopped half-way before it, but for what its pair lost meanwhile and for
\* a tenant whose creation stopped, had no user or is under way in another call.
THEOREM ProvisioningCompletes == Spec => []RetryCompletes
  <1>1. TInv => RetryCompletes
    <2> SUFFICES ASSUME TInv, NEW r \in Requests, Is(r, "onboard", "ok")
                 PROVE  LET q == requests[r] IN
                        /\ \/ parts[q.tenant] = Parts
                           \/ q.tenant \in unfinished \cup Made(Requests)
                        /\ r \in missed \/ SubOf(r) # NoSub
                        /\ HasUser(r) =>
                              /\ q.user \in users
                              /\ <<q.tenant, q.user>> \in members
                              /\ r \in missed \/ <<q.tenant, q.user, q.app>> \in roles
      BY DEF RetryCompletes
    <2>1. Provisioned(r)
      BY DEF TInv, IInv, LogOK, RequestOK
    <2>2. requests[r].tenant \in tenants
      BY DEF TInv, TenantsOK, Furnished, Is
    <2>3. TenantOK(requests[r].tenant)
      BY <2>2 DEF TInv, TenantsOK
    <2> QED BY <2>1, <2>3 DEF Provisioned, TenantOK, Is
  <1> QED BY <1>1, TenantInvariant, PTL

\* unsubscribe deletes a successful subscription only after the application's
\* web hook answered well for it; nothing else but deleteApp takes one away.
THEOREM NobodyLeavesSilently == Spec => NoSilentLeave
  <1>1. IInv /\ [Next]_vars =>
           [\A p \in Rows("success") :
               subs'[p] # subs[p] /\ p[2] \in Hooked \cap apps' =>
                   subs[p].id \in released]_vars
    <2> SUFFICES ASSUME IInv, Next, NEW p \in Rows("success"),
                        subs'[p] # subs[p], p[2] \in Hooked \cap apps'
                 PROVE  subs[p].id \in released
      OBVIOUS
    <2>1. p \in Pairs /\ subs[p] # NoSub /\ subs[p].status = "success"
      BY DEF Rows
    <2>2. ASSUME NEW r \in Requests, Begin(r) \/ Work(r) \/ Break(r) \/ Answered(r)
          PROVE  subs[p].id \in released
      <3>1. PICK log \in Log : LogOK(log)
        BY DEF IInv
      <3>2. PICK next : StepOK(r, log, next)
        BY <2>2, <3>1, RequestSteps
      <3> QED BY <2>1, <3>2 DEF StepOK, TableStep
    <2>3. CASE Crash
      BY <2>3 DEF Crash, tables
    <2> QED BY <2>2, <2>3 DEF Next
  <1> QED BY <1>1, Invariant, PTL DEF Spec, NoSilentLeave
=============================================================================
