----------------------------- MODULE ConsoleProofs -----------------------------
(***************************************************************************)
(* Proofs about the console.  Of Console: the table of its list pages, for *)
(* any queries of any length, and what its pages show of the user's own    *)
(* changes, for any number of loads and calls at a time.  Of               *)
(* BrowserSession: for any number of sign-ins and of requests at a time.   *)
(***************************************************************************)
EXTENDS Console, BrowserSession, TLAPS

(***************************************************************************)
(* The table of a list page                                                *)
(*                                                                         *)
(* The pages, dialogs and calls reach the table in four ways (TableMove):  *)
(* they bind it anew, make it old, take one of its own steps, or leave it  *)
(* alone.  The table shows the first pages of its query (Prefix), and it   *)
(* rests on them (Settled) or waits for the one fetch that goes on after   *)
(* them (Awaits); a query that is started while another fetch is in flight *)
(* ends that, and from then on mixed is true until the table is refreshed  *)
(* in peace or bound anew.                                                 *)
(***************************************************************************)
\* What TablesTypeOK says of the table.
Table == [kind: {"loading", "data", "empty", "error"}, rows: Seq(Chunk),
          busy: SUBSET (0 .. MaxPage), query: Queries, pageNo: 0 .. MaxPage,
          total: Nat, cache: SUBSET Chunk]

\* The rows of table t are the first pages of its query.
Prefix(t) ==
    /\ Len(t.rows) >= 1
    /\ \A i \in DOMAIN t.rows : t.rows[i].page = i - 1 /\ t.rows[i].query = t.query

\* No page of table t is left after the rows that it shows.
AllShown(t) == Len(t.rows) >= Total[t.query]

\* No fetch is in flight: scrolling goes on after the last row, or has counted
\* past it because the next page is taken not to exist, or does not.
Settled(t) ==
    /\ t.busy = {}
    /\ t.kind = "data" =>
          /\ Prefix(t)
          /\ \/ t.pageNo = Len(t.rows) - 1
             \/ t.pageNo >= Len(t.rows) /\ (t.total <= Len(t.rows) \/ AllShown(t))

\* Fetch f is in flight: it is for the first page, or for one after the last row.
Awaits(t, f) ==
    /\ f.query = t.query /\ f.page = t.pageNo /\ t.busy = {t.pageNo}
    /\ IF f.append
         THEN /\ t.kind = "data" /\ Prefix(t) /\ t.pageNo >= Len(t.rows)
              /\ t.pageNo = Len(t.rows) \/ AllShown(t)
         ELSE t.kind = "loading" /\ t.pageNo = 0

\* The table and its fetches when no query overlapped another fetch.
Orderly(t, fs) ==
    \/ fs = <<>> /\ Settled(t)
    \/ Len(fs) = 1 /\ Awaits(t, fs[1])

Tidy ==
    /\ TablesTypeOK
    /\ ~mixed => Orderly(table, fetches)

\* What a step of the console does to the table of its page.
Bound ==
    /\ mixed' = FALSE
    /\ \/ table' = NewTable /\ fetches' = <<>>
       \/ /\ table' = [NewTable EXCEPT !.busy = {0}]
          /\ fetches' = <<[append |-> FALSE, query |-> FirstQuery, page |-> 0,
                           served |-> FALSE, old |-> FALSE]>>

AgedAll ==
    /\ table' = Aged(table)
    /\ fetches' = AgedFetches(fetches)
    /\ UNCHANGED mixed

TableMove == Bound \/ AgedAll \/ TableStep \/ UNCHANGED tableVars

-----------------------------------------------------------------------------
(* A page and its calls reach the table in no other way.                   *)

LEMMA EnterMoves ==
    ASSUME NEW p, Enter(p)
    PROVE  TableMove
  BY DEF Enter, TableMove, Bound

LEMMA ThenMoves ==
    ASSUME NEW after, NEW old, NEW ex, Then(after, old, ex)
    PROVE  TableMove
  <1>1. CASE after.do = "reload"
    BY <1>1 DEF Then, StartRun, TableMove
  <1>2. CASE after.do = "part"
    BY <1>2 DEF Then, StartRun, TableMove
  <1>3. CASE after.do = "rows"
    BY <1>3 DEF Then, TableMove, TableStep, TableUse
  <1>4. CASE after.do = "keep"
    BY <1>4 DEF Then, TableMove
  <1>5. CASE after.do \notin {"reload", "part", "rows", "keep"}
    BY <1>5 DEF Then, Stay, TableMove
  <1> QED
    BY <1>1, <1>2, <1>3, <1>4, <1>5

LEMMA DepartMoves ==
    ASSUME NEW after, Depart(after)
    PROVE  TableMove
  BY EnterMoves DEF Depart

LEMMA GoOnMoves ==
    ASSUME NEW i, NEW ex, GoOn(i, ex)
    PROVE  TableMove
  BY DepartMoves, ThenMoves DEF GoOn

LEMMA NextMoves ==
    ASSUME [Next]_vars
    PROVE  TableMove
  <1>1. CASE \E i \in DOMAIN runs : ServeRun(i) \/ ArriveRun(i) \/ FailRun(i)
    BY <1>1 DEF ServeRun, ArriveRun, FailRun, TableMove
  <1>2. CASE \E a \in ActsOf(page) : Open(a) \/ Begin(a) \/ Decline(a)
    <2>1. PICK a \in ActsOf(page) : Open(a) \/ Begin(a) \/ Decline(a)
      BY <1>2
    <2>2. CASE Open(a) \/ Begin(a)
      BY <2>2 DEF Open, Begin, TableMove
    <2>3. CASE Decline(a)
      BY <2>3, DepartMoves, ThenMoves DEF Decline
    <2> QED
      BY <2>1, <2>2, <2>3
  <1>3. CASE Submit
    BY <1>3 DEF Submit, TableMove
  <1>4. CASE \E way \in {"ok", "dismiss", Cross} : Leave(way)
    <2>1. PICK way \in {"ok", "dismiss", Cross} : Leave(way)
      BY <1>4
    <2> QED
      BY <2>1, ThenMoves DEF Leave, Stay, TableMove
  <1>5. CASE \E p \in Doors : Move(p)
    BY <1>5, EnterMoves DEF Move
  <1>6. CASE \E i \in DOMAIN calls : \/ ServeCall(i) \/ RefuseCall(i) \/ AskNext(i)
                                     \/ Drop(i) \/ Accepted(i) \/ Rejected(i)
    <2>1. PICK i \in DOMAIN calls : \/ ServeCall(i) \/ RefuseCall(i) \/ AskNext(i)
                                    \/ Drop(i) \/ Accepted(i) \/ Rejected(i)
      BY <1>6
    <2>2. CASE ServeCall(i)
      BY <2>2 DEF ServeCall, Changed, TableMove, AgedAll, tableVars
    <2>3. CASE RefuseCall(i) \/ AskNext(i) \/ Drop(i)
      BY <2>3 DEF RefuseCall, AskNext, Drop, Stay, TableMove
    <2>4. CASE Accepted(i)
      BY <2>4, GoOnMoves DEF Accepted, Stay, TableMove
    <2>5. CASE Rejected(i)
      BY <2>5, GoOnMoves DEF Rejected, Stay, TableMove
    <2> QED
      BY <2>1, <2>2, <2>3, <2>4, <2>5
  <1>7. CASE TableUse \/ TableAnswer
    BY <1>7 DEF TableMove, TableStep
  <1>8. CASE UNCHANGED vars
    BY <1>8 DEF vars, TableMove
  <1> QED
    BY <1>1, <1>2, <1>3, <1>4, <1>5, <1>6, <1>7, <1>8 DEF Next

-----------------------------------------------------------------------------
(* The parts of a table's handlers.                                        *)

LEMMA ChunkFields ==
    ASSUME NEW c \in Chunk
    PROVE  c.page \in Nat /\ c.query \in Queries /\ Total[c.query] \in Nat
  BY TablesAssumption DEF Chunk

LEMMA ChunksFacts ==
    ASSUME NEW c \in Chunk
    PROVE  /\ Chunks(c) \in Seq(Chunk)
           /\ c.page < Total[c.query] => Chunks(c) = <<c>>
           /\ c.page >= Total[c.query] => Chunks(c) = <<>>
  <1>1. Chunks(c) \in Seq(Chunk)
    BY DEF Chunks
  <1>2. c.page < Total[c.query] => Chunks(c) = <<c>>
    BY DEF Chunks
  <1>3. c.page >= Total[c.query] => Chunks(c) = <<>>
    BY ChunkFields DEF Chunks
  <1> QED
    BY <1>1, <1>2, <1>3

LEMMA OneMore ==
    ASSUME NEW S, NEW s \in Seq(S), NEW c \in S
    PROVE  /\ Len(s \o <<c>>) = Len(s) + 1
           /\ DOMAIN (s \o <<c>>) = 1 .. Len(s) + 1
           /\ \A i \in 1 .. Len(s) : (s \o <<c>>)[i] = s[i]
           /\ (s \o <<c>>)[Len(s) + 1] = c
  <1>1. Len(s \o <<c>>) = Len(s) + 1 /\ s \o <<c>> \in Seq(S)
    OBVIOUS
  <1>2. DOMAIN (s \o <<c>>) = 1 .. Len(s) + 1
    BY <1>1
  <1>3. \A i \in 1 .. Len(s) : (s \o <<c>>)[i] = s[i]
    OBVIOUS
  <1>4. (s \o <<c>>)[Len(s) + 1] = c
    OBVIOUS
  <1> QED
    BY <1>1, <1>2, <1>3, <1>4

LEMMA NoMore ==
    ASSUME NEW S, NEW s \in Seq(S)
    PROVE  s \o <<>> = s
  OBVIOUS

LEMMA TableFields ==
    ASSUME NEW t \in Table
    PROVE  /\ t.rows \in Seq(Chunk) /\ Len(t.rows) \in Nat /\ DOMAIN t.rows = 1 .. Len(t.rows)
           /\ t.pageNo \in Nat /\ t.query \in Queries /\ Total[t.query] \in Nat
           /\ t.total \in Nat /\ t.cache \subseteq Chunk
  <1>1. t.rows \in Seq(Chunk) /\ t.pageNo \in 0 .. MaxPage /\ t.query \in Queries
        /\ t.total \in Nat /\ t.cache \subseteq Chunk
    BY DEF Table
  <1>2. Total[t.query] \in Nat
    BY <1>1, TablesAssumption
  <1> QED
    BY <1>1, <1>2

LEMMA NewTableType ==
    /\ NewTable \in Table
    /\ [NewTable EXCEPT !.busy = {0}] \in Table
    /\ Settled(NewTable)
  <1>1. 0 \in 0 .. MaxPage /\ FirstQuery \in Queries /\ <<>> \in Seq(Chunk)
    BY TablesAssumption
  <1>2. NewTable \in Table /\ [NewTable EXCEPT !.busy = {0}] \in Table
    BY <1>1 DEF NewTable, Table
  <1>3. Settled(NewTable)
    BY DEF NewTable, Settled
  <1> QED
    BY <1>2, <1>3

\* An answer in place of what is shown.
LEMMA ShowFirst ==
    ASSUME NEW t \in Table, NEW c \in Chunk, t.busy = {t.pageNo}, t.pageNo = 0,
           c.query = t.query, c.page = 0, NEW append, ~(append /\ t.kind = "data")
    PROVE  Show(t, append, c) \in Table /\ Settled(Show(t, append, c))
  <1>0. PICK u : u = Show(t, append, c)
    OBVIOUS
  <1>1. Chunks(c) \in Seq(Chunk)
    BY ChunksFacts
  <1>2. /\ u \in Table /\ u.rows = Chunks(c) /\ u.busy = {} /\ u.query = t.query
        /\ u.pageNo = 0
        /\ u.kind = IF Chunks(c) = <<>> THEN "empty" ELSE "data"
    BY <1>0, <1>1 DEF Show, Table
  <1>3. u.kind = "data" => Len(u.rows) = 1 /\ u.rows[1] = c
    BY <1>2, ChunksFacts, ChunkFields
  <1>4. u.kind = "data" => Prefix(u) /\ u.pageNo = Len(u.rows) - 1
    BY <1>2, <1>3, TableFields DEF Prefix
  <1> QED
    BY <1>0, <1>2, <1>4 DEF Settled

\* An answer after what is shown: the next page, or one after the last.
LEMMA ShowNext ==
    ASSUME NEW t \in Table, NEW c \in Chunk, t.busy = {t.pageNo}, t.kind = "data",
           Prefix(t), t.pageNo >= Len(t.rows), t.pageNo = Len(t.rows) \/ AllShown(t),
           c.query = t.query, c.page = t.pageNo
    PROVE  Show(t, TRUE, c) \in Table /\ Settled(Show(t, TRUE, c))
  <1>0. PICK u : u = Show(t, TRUE, c)
    OBVIOUS
  <1>1. Chunks(c) \in Seq(Chunk) /\ t.rows \in Seq(Chunk) /\ t.rows \o Chunks(c) \in Seq(Chunk)
    BY ChunksFacts, TableFields
  <1>2. /\ u \in Table /\ u.rows = t.rows \o Chunks(c) /\ u.busy = {} /\ u.query = t.query
        /\ u.pageNo = t.pageNo /\ u.kind = "data"
    BY <1>0, <1>1 DEF Show, Table
  <1>3. CASE c.page < Total[c.query]
    <2>1. t.pageNo = Len(t.rows)
      BY <1>3, TableFields DEF AllShown
    <2>2. Chunks(c) = <<c>>
      BY <1>3, ChunksFacts
    <2>3. /\ Len(u.rows) = Len(t.rows) + 1 /\ DOMAIN u.rows = 1 .. Len(t.rows) + 1
          /\ \A i \in 1 .. Len(t.rows) : u.rows[i] = t.rows[i]
          /\ u.rows[Len(t.rows) + 1] = c
      BY <1>1, <1>2, <2>2, OneMore
    <2>4. ASSUME NEW i \in DOMAIN u.rows
          PROVE  u.rows[i].page = i - 1 /\ u.rows[i].query = u.query
      <3>1. CASE i \in 1 .. Len(t.rows)
        BY <1>2, <2>3, <3>1, TableFields DEF Prefix
      <3>2. CASE i = Len(t.rows) + 1
        BY <1>2, <2>1, <2>3, <3>2, TableFields
      <3> QED
        BY <2>3, <3>1, <3>2, TableFields
    <2>5. Prefix(u)
      BY <2>3, <2>4, TableFields DEF Prefix
    <2>6. u.pageNo = Len(u.rows) - 1
      BY <1>2, <2>1, <2>3, TableFields
    <2> QED
      BY <1>0, <1>2, <2>5, <2>6 DEF Settled
  <1>4. CASE c.page >= Total[c.query]
    <2>1. u.rows = t.rows
      BY <1>1, <1>2, <1>4, ChunksFacts, NoMore
    <2>2. AllShown(t)
      BY <1>4, TableFields DEF AllShown
    <2>3. Prefix(u) /\ AllShown(u) /\ u.pageNo >= Len(u.rows)
      BY <1>2, <2>1, <2>2 DEF Prefix, AllShown
    <2> QED
      BY <1>0, <1>2, <2>3 DEF Settled
  <1>5. c.page < Total[c.query] \/ c.page >= Total[c.query]
    BY ChunkFields
  <1> QED
    BY <1>3, <1>4, <1>5

LEMMA ShowType ==
    ASSUME NEW t \in Table, NEW c \in Chunk, NEW append \in BOOLEAN
    PROVE  Show(t, append, c) \in Table
  <1>1. Chunks(c) \in Seq(Chunk) /\ t.rows \in Seq(Chunk)
    BY ChunksFacts DEF Table
  <1>2. t.rows \o Chunks(c) \in Seq(Chunk)
    BY <1>1
  <1>3. CASE append /\ t.kind = "data"
    BY <1>2, <1>3 DEF Show, Table
  <1>4. CASE ~(append /\ t.kind = "data")
    BY <1>1, <1>4 DEF Show, Table
  <1> QED
    BY <1>3, <1>4

LEMMA RememberFacts ==
    ASSUME NEW t \in Table, NEW c \in Chunk
    PROVE  /\ Remember(t, c) \in Table
           /\ \A x \in {"kind", "rows", "busy", "query", "pageNo"} : Remember(t, c)[x] = t[x]
  <1>1. Total[c.query] \in Nat
    BY TablesAssumption DEF Chunk
  <1>2. {d \in t.cache : d.query # c.query \/ d.page # c.page} \cup {c} \in SUBSET Chunk
    BY DEF Table
  <1> QED
    BY <1>1, <1>2 DEF Remember, Table

\* The table whose next page, or first one, is under way, the fetch for it, and
\* the table for which that page is taken not to exist.
Asking(t, append) ==
    [t EXCEPT !.pageNo = NextPage(t, append), !.busy = {NextPage(t, append)},
              !.kind = IF append THEN @ ELSE "loading", !.rows = IF append THEN @ ELSE <<>>]

FetchOf(t, append) ==
    [append |-> append, query |-> t.query, page |-> NextPage(t, append),
     served |-> FALSE, old |-> FALSE]

Passing(t) == [t EXCEPT !.pageNo = NextPage(t, TRUE)]

MayFetch(t, append) == append => t.pageNo < MaxPage /\ t.busy = {}

LEMMA AskingFacts ==
    ASSUME NEW t \in Table, NEW append \in BOOLEAN, MayFetch(t, append)
    PROVE  /\ Asking(t, append) \in Table /\ FetchOf(t, append) \in Fetch
           /\ append => /\ Passing(t) \in Table
                        /\ Passing(t).kind = t.kind /\ Passing(t).rows = t.rows
                        /\ Passing(t).query = t.query /\ Passing(t).busy = {}
                        /\ Passing(t).total = t.total /\ Passing(t).pageNo = t.pageNo + 1
           /\ Asking(t, append).query = t.query
           /\ Asking(t, append).pageNo = NextPage(t, append)
           /\ Asking(t, append).busy = {NextPage(t, append)}
           /\ append => Asking(t, append).kind = t.kind /\ Asking(t, append).rows = t.rows
           /\ ~append => Asking(t, append).kind = "loading"
  <1>1. NextPage(t, append) \in 0 .. MaxPage /\ <<>> \in Seq(Chunk) /\ t.query \in Queries
    <2>1. CASE append
      BY <2>1, TableFields, TablesAssumption DEF NextPage, MayFetch
    <2>2. CASE ~append
      BY <2>2, TableFields, TablesAssumption DEF NextPage
    <2> QED
      BY <2>1, <2>2
  <1>2. FetchOf(t, append) \in Fetch
    BY <1>1 DEF FetchOf, Fetch
  <1>3. CASE append
    <2>1. Asking(t, append) \in Table
      BY <1>1, <1>3 DEF Asking, Table
    <2>2. NextPage(t, TRUE) = t.pageNo + 1 /\ t.busy = {}
      BY <1>3 DEF NextPage, MayFetch
    <2>3. /\ Passing(t) \in Table
          /\ Passing(t).kind = t.kind /\ Passing(t).rows = t.rows
          /\ Passing(t).query = t.query /\ Passing(t).busy = {}
          /\ Passing(t).total = t.total /\ Passing(t).pageNo = t.pageNo + 1
      BY <1>1, <1>3, <2>2 DEF Passing, Table
    <2>4. /\ Asking(t, append).query = t.query
          /\ Asking(t, append).pageNo = NextPage(t, append)
          /\ Asking(t, append).busy = {NextPage(t, append)}
          /\ Asking(t, append).kind = t.kind /\ Asking(t, append).rows = t.rows
      BY <1>3 DEF Asking, Table
    <2> QED
      BY <1>2, <1>3, <2>1, <2>3, <2>4
  <1>4. CASE ~append
    <2>1. Asking(t, append) \in Table
      BY <1>1, <1>4 DEF Asking, Table
    <2>2. /\ Asking(t, append).query = t.query
          /\ Asking(t, append).pageNo = NextPage(t, append)
          /\ Asking(t, append).busy = {NextPage(t, append)}
          /\ Asking(t, append).kind = "loading"
      BY <1>4 DEF Asking, Table
    <2> QED
      BY <1>2, <1>4, <2>1, <2>2
  <1> QED
    BY <1>3, <1>4

\* fetchData does one of three things: nothing, show a cached page, or ask.
LEMMA FetchOutcome ==
    ASSUME NEW t \in Table, NEW append \in BOOLEAN, FetchData(t, append), MayFetch(t, append)
    PROVE  \/ /\ append /\ t.total <= t.pageNo + 1
              /\ table' = Passing(t) /\ fetches' = fetches
           \/ /\ append => t.pageNo + 1 < t.total
              /\ \E c \in t.cache : /\ c.query = t.query /\ c.page = NextPage(t, append)
                                    /\ table' = Show(Asking(t, append), append, c)
              /\ fetches' = fetches
           \/ /\ append => t.pageNo + 1 < t.total
              /\ table' = Asking(t, append)
              /\ fetches' = Append(fetches, FetchOf(t, append))
  <1> DEFINE no == NextPage(t, append)
             q  == [t EXCEPT !.pageNo = no, !.busy = IF append THEN @ ELSE {}]
             asked == [q EXCEPT !.busy = @ \cup {no}, !.kind = IF append THEN @ ELSE "loading",
                                !.rows = IF append THEN @ ELSE <<>>]
  <1>1. no \in Nat /\ (append => no = t.pageNo + 1) /\ (~append => no = 0)
    BY TableFields DEF NextPage
  <1>2. q.busy = {} /\ q.pageNo = no /\ q.total = t.total /\ q.query = t.query /\ q.cache = t.cache
    BY DEF Table, MayFetch
  <1>3. asked = Asking(t, append)
    BY <1>2 DEF Table, Asking
  <1>4. IF no \in q.busy \/ ~HasPage(q, no)
        THEN table' = q /\ fetches' = fetches
        ELSE IF Cached(q, no) # {}
        THEN /\ table' = Show(asked, append, CHOOSE c \in Cached(q, no) : TRUE)
             /\ fetches' = fetches
        ELSE /\ table' = asked
             /\ fetches' = Append(fetches, [append |-> append, query |-> q.query,
                                            page |-> no, served |-> FALSE, old |-> FALSE])
    BY DEF FetchData
  <1>5. HasPage(q, no) => (append => t.pageNo + 1 < t.total)
    <2>1. t.pageNo \in Nat
      BY TableFields
    <2> HIDE DEF q, no
    <2> QED
      BY <1>1, <1>2, <2>1 DEF HasPage
  <1>6. CASE ~HasPage(q, no)
    <2>1. append /\ t.total <= t.pageNo + 1
      BY <1>1, <1>2, <1>6, TableFields DEF HasPage
    <2>2. q = Passing(t)
      BY <2>1 DEF Table, Passing
    <2> HIDE DEF q, asked
    <2>3. table' = Passing(t) /\ fetches' = fetches
      BY <1>4, <1>6, <2>2
    <2> QED
      BY <2>1, <2>3
  <1>7. CASE HasPage(q, no) /\ Cached(q, no) # {}
    <2>1. PICK c \in Cached(q, no) : c = CHOOSE d \in Cached(q, no) : TRUE
      BY <1>7
    <2>2. c \in t.cache /\ c.query = t.query /\ c.page = no
      BY <1>2, <2>1 DEF Cached
    <2> HIDE DEF q, asked, no
    <2>3. table' = Show(Asking(t, append), append, c) /\ fetches' = fetches
      BY <1>2, <1>3, <1>4, <1>7, <2>1
    <2> QED
      BY <1>5, <1>7, <2>2, <2>3 DEF no
  <1>8. CASE HasPage(q, no) /\ Cached(q, no) = {}
    <2> HIDE DEF q, asked
    <2>1. /\ table' = Asking(t, append)
          /\ fetches' = Append(fetches, FetchOf(t, append))
      BY <1>2, <1>3, <1>4, <1>8 DEF FetchOf
    <2> QED
      BY <1>5, <1>8, <2>1
  <1> QED
    BY <1>6, <1>7, <1>8

LEMMA FetchTypes ==
    ASSUME TablesTypeOK, NEW t \in Table, NEW append \in BOOLEAN, FetchData(t, append),
           MayFetch(t, append)
    PROVE  table' \in Table /\ fetches' \in Seq(Fetch)
  <1>1. fetches \in Seq(Fetch) /\ FetchOf(t, append) \in Fetch
    BY AskingFacts DEF TablesTypeOK
  <1>2. Append(fetches, FetchOf(t, append)) \in Seq(Fetch)
    BY <1>1
  <1>3. \A c \in t.cache : Show(Asking(t, append), append, c) \in Table
    BY AskingFacts, ShowType, TableFields
  <1>4. Asking(t, append) \in Table /\ (append => Passing(t) \in Table)
    BY AskingFacts
  <1>5. PICK out : out = table'
    OBVIOUS
  <1>6. \/ append /\ out = Passing(t) /\ fetches' = fetches
        \/ (\E c \in t.cache : out = Show(Asking(t, append), append, c)) /\ fetches' = fetches
        \/ out = Asking(t, append) /\ fetches' = Append(fetches, FetchOf(t, append))
    BY <1>5, FetchOutcome
  <1> QED
    BY ONLY <1>1, <1>2, <1>3, <1>4, <1>5, <1>6

LEMMA FetchOrderly ==
    ASSUME NEW t \in Table, NEW append \in BOOLEAN, fetches = <<>>,
           fetches' = Append(fetches, FetchOf(t, append)),
           table' = Asking(t, append), Awaits(Asking(t, append), FetchOf(t, append))
    PROVE  Orderly(table, fetches)'
  <1>1. PICK f, u : f = FetchOf(t, append) /\ u = Asking(t, append)
    OBVIOUS
  <1>2. fetches' = <<f>> /\ table' = u /\ Awaits(u, f)
    BY <1>1
  <1> QED
    BY <1>2 DEF Orderly

\* A query that starts while nothing is in flight.
LEMMA AskOrderly ==
    ASSUME NEW t \in Table, FetchData(t, FALSE), fetches = <<>>
    PROVE  Orderly(table, fetches)'
  <1>1. NextPage(t, FALSE) = 0 /\ MayFetch(t, FALSE)
    BY DEF NextPage, MayFetch
  <1>2. PICK b : b = Asking(t, FALSE)
    OBVIOUS
  <1>3. b \in Table /\ b.query = t.query /\ b.pageNo = 0 /\ b.busy = {0} /\ b.kind = "loading"
    BY <1>1, <1>2, AskingFacts
  <1>4. CASE table' = Asking(t, FALSE) /\ fetches' = Append(fetches, FetchOf(t, FALSE))
    <2>1. Awaits(Asking(t, FALSE), FetchOf(t, FALSE))
      BY <1>1, <1>2, <1>3 DEF Awaits, FetchOf
    <2> QED
      BY <1>4, <2>1, FetchOrderly
  <1>5. ASSUME NEW c \in t.cache, c.query = t.query, c.page = 0, table' = Show(b, FALSE, c),
               fetches' = <<>>
        PROVE  Orderly(table, fetches)'
    <2>1. c \in Chunk
      BY TableFields
    <2>2. Settled(Show(b, FALSE, c))
      BY <1>3, <1>5, <2>1, ShowFirst
    <2>3. Settled(table')
      BY <1>5, <2>2
    <2> QED
      BY <1>5, <2>3 DEF Orderly
  <1> QED
    BY <1>1, <1>2, <1>4, <1>5, FetchOutcome

\* Scrolling while nothing is in flight.
LEMMA MoreOrderly ==
    ASSUME NEW t \in Table, FetchData(t, TRUE), fetches = <<>>, t.pageNo < MaxPage,
           t.kind = "data", Settled(t)
    PROVE  Orderly(table, fetches)'
  <1>1. NextPage(t, TRUE) = t.pageNo + 1 /\ MayFetch(t, TRUE)
    BY DEF NextPage, MayFetch, Settled
  <1>2. PICK b, u : b = Asking(t, TRUE) /\ u = Passing(t)
    OBVIOUS
  <1>3. /\ b \in Table /\ b.query = t.query /\ b.pageNo = t.pageNo + 1 /\ b.busy = {t.pageNo + 1}
        /\ b.kind = "data" /\ b.rows = t.rows
    BY <1>1, <1>2, AskingFacts
  <1>4. /\ u.query = t.query /\ u.pageNo = t.pageNo + 1 /\ u.busy = {} /\ u.kind = "data"
        /\ u.rows = t.rows /\ u.total = t.total
    BY <1>1, <1>2, AskingFacts
  <1>5. Prefix(t) /\ Prefix(b) /\ Prefix(u) /\ t.pageNo + 1 >= Len(t.rows)
    BY <1>3, <1>4, TableFields DEF Settled, Prefix
  <1>6. t.pageNo + 1 = Len(t.rows) \/ t.total <= Len(t.rows) \/ AllShown(t)
    BY TableFields DEF Settled
  <1>7. CASE t.total <= t.pageNo + 1 /\ table' = u /\ fetches' = <<>>
    <2>1. u.total <= Len(u.rows) \/ AllShown(u)
      BY <1>4, <1>6, <1>7 DEF AllShown
    <2>2. Settled(u)
      BY <1>4, <1>5, <2>1 DEF Settled
    <2> QED
      BY <1>7, <2>2 DEF Orderly
  <1>8. ASSUME t.pageNo + 1 < t.total
        PROVE  t.pageNo + 1 = Len(t.rows) \/ AllShown(b)
    BY <1>3, <1>5, <1>6, <1>8, TableFields DEF AllShown
  <1>9. CASE /\ t.pageNo + 1 < t.total /\ table' = Asking(t, TRUE)
             /\ fetches' = Append(fetches, FetchOf(t, TRUE))
    <2>1. Awaits(Asking(t, TRUE), FetchOf(t, TRUE))
      <3>1. /\ FetchOf(t, TRUE).append = TRUE /\ FetchOf(t, TRUE).query = t.query
            /\ FetchOf(t, TRUE).page = t.pageNo + 1
        BY <1>1 DEF FetchOf
      <3> QED
        BY <1>2, <1>3, <1>5, <1>8, <1>9, <3>1 DEF Awaits
    <2> QED
      BY <1>9, <2>1, FetchOrderly
  <1>10. ASSUME NEW c \in t.cache, t.pageNo + 1 < t.total, c.query = t.query,
                c.page = t.pageNo + 1, table' = Show(b, TRUE, c), fetches' = <<>>
         PROVE  Orderly(table, fetches)'
    <2>1. c \in Chunk
      BY TableFields
    <2>2. Settled(Show(b, TRUE, c))
      BY <1>3, <1>5, <1>8, <1>10, <2>1, ShowNext
    <2>3. Settled(table')
      BY <1>10, <2>2
    <2> QED
      BY <1>10, <2>3 DEF Orderly
  <1> QED
    BY <1>1, <1>2, <1>7, <1>9, <1>10, FetchOutcome

-----------------------------------------------------------------------------
(* Each way in which the table changes keeps it tidy.                      *)

LEMMA TidyParts ==
    Tidy <=> /\ table \in Table /\ fetches \in Seq(Fetch) /\ mixed \in BOOLEAN
             /\ ~mixed => Orderly(table, fetches)
  BY DEF Tidy, TablesTypeOK, Table

LEMMA TidyPartsNext ==
    ASSUME table' \in Table, fetches' \in Seq(Fetch), mixed' \in BOOLEAN,
           ~mixed' => Orderly(table, fetches)'
    PROVE  Tidy'
  BY DEF Tidy, TablesTypeOK, Table

LEMMA ResetType ==
    ASSUME NEW t \in Table, NEW q \in Queries
    PROVE  Reset(t) \in Table /\ [t EXCEPT !.query = q] \in Table
  BY DEF Reset, Table

LEMMA BoundTidy ==
    ASSUME Bound
    PROVE  Tidy'
  <1>1. mixed' = FALSE
    BY DEF Bound
  <1>2. CASE table' = NewTable /\ fetches' = <<>>
    <2>1. Orderly(table, fetches)'
      BY <1>2, NewTableType DEF Orderly
    <2>2. fetches' \in Seq(Fetch)
      BY <1>2
    <2> QED
      BY <1>1, <1>2, <2>1, <2>2, NewTableType, TidyPartsNext
  <1>3. CASE /\ table' = [NewTable EXCEPT !.busy = {0}]
             /\ fetches' = <<[append |-> FALSE, query |-> FirstQuery, page |-> 0,
                              served |-> FALSE, old |-> FALSE]>>
    <2>1. PICK f, u : /\ f = [append |-> FALSE, query |-> FirstQuery, page |-> 0,
                              served |-> FALSE, old |-> FALSE]
                      /\ u = [NewTable EXCEPT !.busy = {0}]
      OBVIOUS
    <2>2. f \in Fetch
      BY <2>1, TablesAssumption DEF Fetch
    <2>3. Awaits(u, f)
      BY <2>1 DEF Awaits, NewTable
    <2>4. fetches' = <<f>> /\ table' = u
      BY <1>3, <2>1
    <2>5. fetches' \in Seq(Fetch)
      BY <2>2, <2>4
    <2>6. Orderly(table, fetches)'
      BY <2>3, <2>4 DEF Orderly
    <2> QED
      BY <1>1, <2>1, <2>4, <2>5, <2>6, NewTableType, TidyPartsNext
  <1> QED
    BY <1>2, <1>3 DEF Bound

\* What has become old is still the same pages of the same query.
LEMMA AgedFacts ==
    ASSUME NEW t \in Table
    PROVE  /\ Aged(t) \in Table
           /\ Len(Aged(t).rows) = Len(t.rows) /\ DOMAIN Aged(t).rows = DOMAIN t.rows
           /\ \A i \in DOMAIN t.rows : /\ Aged(t).rows[i].page = t.rows[i].page
                                       /\ Aged(t).rows[i].query = t.rows[i].query
           /\ Aged(t).kind = t.kind /\ Aged(t).busy = t.busy /\ Aged(t).query = t.query
           /\ Aged(t).pageNo = t.pageNo /\ Aged(t).total = t.total
  <1>1. \A c \in Chunk : Age(c) \in Chunk /\ Age(c).page = c.page /\ Age(c).query = c.query
    BY DEF Age, Chunk
  <1>2. PICK s : s = t.rows
    OBVIOUS
  <1>3. PICK r : r = [i \in DOMAIN s |-> Age(s[i])]
    OBVIOUS
  <1>4. s \in Seq(Chunk) /\ DOMAIN s = 1 .. Len(s) /\ Len(s) \in Nat
    BY <1>2, TableFields
  <1>5. \A i \in DOMAIN s : s[i] \in Chunk
    BY <1>4
  <1>6. r \in [1 .. Len(s) -> Chunk]
    BY <1>1, <1>3, <1>4, <1>5
  <1>7. r \in Seq(Chunk) /\ Len(r) = Len(s) /\ DOMAIN r = DOMAIN s
    BY <1>4, <1>6
  <1>8. \A i \in DOMAIN s : r[i].page = s[i].page /\ r[i].query = s[i].query
    BY <1>1, <1>3, <1>5
  <1>9. {Age(c) : c \in t.cache} \subseteq Chunk
    BY <1>1, TableFields
  <1>10. Aged(t) = [t EXCEPT !.rows = r, !.cache = {Age(c) : c \in t.cache}]
    BY <1>2, <1>3 DEF Aged, Table
  <1>11. /\ Aged(t) \in Table /\ Aged(t).rows = r
         /\ Aged(t).kind = t.kind /\ Aged(t).busy = t.busy /\ Aged(t).query = t.query
         /\ Aged(t).pageNo = t.pageNo /\ Aged(t).total = t.total
    BY <1>7, <1>9, <1>10 DEF Table
  <1> QED
    BY <1>2, <1>7, <1>8, <1>11

LEMMA AgedAwaits ==
    ASSUME NEW t \in Table
    PROVE  /\ Settled(t) => Settled(Aged(t))
           /\ \A f, g : /\ Awaits(t, f) /\ g.query = f.query /\ g.page = f.page
                        /\ g.append = f.append
                        => Awaits(Aged(t), g)
  <1>1. Prefix(t) => Prefix(Aged(t))
    BY AgedFacts DEF Prefix
  <1>2. AllShown(t) <=> AllShown(Aged(t))
    BY AgedFacts DEF AllShown
  <1> QED
    BY <1>1, <1>2, AgedFacts DEF Settled, Awaits

LEMMA AgedFetchesFacts ==
    ASSUME NEW fs \in Seq(Fetch)
    PROVE  /\ AgedFetches(fs) \in Seq(Fetch) /\ Len(AgedFetches(fs)) = Len(fs)
           /\ \A i \in DOMAIN fs : /\ AgedFetches(fs)[i].query = fs[i].query
                                   /\ AgedFetches(fs)[i].page = fs[i].page
                                   /\ AgedFetches(fs)[i].append = fs[i].append
  <1>1. PICK gs : gs = AgedFetches(fs)
    OBVIOUS
  <1>2. \A i \in DOMAIN fs : fs[i] \in Fetch
    OBVIOUS
  <1>3. DOMAIN fs = 1 .. Len(fs) /\ Len(fs) \in Nat
    OBVIOUS
  <1>4. \A f \in Fetch : /\ [f EXCEPT !.old = @ \/ f.served] \in Fetch
                         /\ [f EXCEPT !.old = @ \/ f.served].query = f.query
                         /\ [f EXCEPT !.old = @ \/ f.served].page = f.page
                         /\ [f EXCEPT !.old = @ \/ f.served].append = f.append
    BY DEF Fetch
  <1>5. gs = [i \in 1 .. Len(fs) |-> [fs[i] EXCEPT !.old = @ \/ fs[i].served]]
    BY <1>1, <1>3 DEF AgedFetches
  <1>6. gs \in [1 .. Len(fs) -> Fetch]
    BY <1>2, <1>3, <1>4, <1>5
  <1>7. gs \in Seq(Fetch) /\ Len(gs) = Len(fs)
    BY <1>3, <1>6
  <1>8. \A i \in DOMAIN fs : /\ gs[i].query = fs[i].query /\ gs[i].page = fs[i].page
                             /\ gs[i].append = fs[i].append
    BY <1>2, <1>3, <1>4, <1>5
  <1> QED
    BY <1>1, <1>7, <1>8

LEMMA AgedTidy ==
    ASSUME Tidy, AgedAll
    PROVE  Tidy'
  <1>1. table \in Table /\ fetches \in Seq(Fetch) /\ mixed \in BOOLEAN
    BY TidyParts
  <1>2. table' = Aged(table) /\ fetches' = AgedFetches(fetches) /\ mixed' = mixed
    BY DEF AgedAll
  <1>3. table' \in Table /\ fetches' \in Seq(Fetch) /\ Len(fetches') = Len(fetches)
    BY <1>1, <1>2, AgedFacts, AgedFetchesFacts
  <1>4. ASSUME ~mixed
        PROVE  Orderly(table, fetches)'
    <2>1. CASE fetches = <<>> /\ Settled(table)
      <3>1. fetches' = <<>>
        BY <1>3, <2>1
      <3> QED
        BY <1>1, <1>2, <2>1, <3>1, AgedAwaits DEF Orderly
    <2>2. CASE Len(fetches) = 1 /\ Awaits(table, fetches[1])
      <3>1. 1 \in DOMAIN fetches
        BY <1>1, <2>2
      <3>2. Awaits(table', fetches'[1])
        BY <1>1, <1>2, <2>2, <3>1, AgedAwaits, AgedFetchesFacts
      <3> QED
        BY <1>3, <2>2, <3>2 DEF Orderly
    <2> QED
      BY <1>4, <2>1, <2>2, TidyParts DEF Orderly
  <1> QED
    BY <1>1, <1>2, <1>3, <1>4, TidyPartsNext

LEMMA RefreshTidy ==
    ASSUME Tidy, Refresh
    PROVE  Tidy'
  <1>1. table \in Table /\ Reset(table) \in Table /\ TablesTypeOK
    BY TidyParts, ResetType, TablesAssumption DEF Tidy
  <1>2. FetchData(Reset(table), FALSE) /\ mixed' = (fetches # <<>>)
    BY DEF Refresh
  <1>3. table' \in Table /\ fetches' \in Seq(Fetch)
    BY <1>1, <1>2, FetchTypes DEF MayFetch
  <1>4. ~mixed' => Orderly(table, fetches)'
    BY <1>1, <1>2, AskOrderly
  <1> QED
    BY <1>2, <1>3, <1>4, TidyPartsNext

LEMMA AskTidy ==
    ASSUME Tidy, NEW q \in Queries, Ask(q)
    PROVE  Tidy'
  <1>1. PICK t : t = [table EXCEPT !.query = q]
    OBVIOUS
  <1>2. table \in Table /\ t \in Table /\ TablesTypeOK /\ mixed \in BOOLEAN
    BY <1>1, TidyParts, ResetType DEF Tidy
  <1>3. FetchData(t, FALSE) /\ mixed' = (mixed \/ fetches # <<>>)
    BY <1>1 DEF Ask
  <1>4. table' \in Table /\ fetches' \in Seq(Fetch)
    BY <1>2, <1>3, FetchTypes DEF MayFetch
  <1>5. ~mixed' => Orderly(table, fetches)'
    BY <1>2, <1>3, AskOrderly
  <1> QED
    BY <1>3, <1>4, <1>5, TidyPartsNext

LEMMA LoadMoreTidy ==
    ASSUME Tidy, LoadMore
    PROVE  Tidy'
  <1>1. table \in Table /\ fetches \in Seq(Fetch) /\ TablesTypeOK /\ mixed \in BOOLEAN
    BY TidyParts DEF Tidy
  <1>2. /\ FetchData(table, TRUE) /\ mixed' = (mixed \/ fetches # <<>>)
        /\ table.busy = {} /\ table.kind = "data" /\ table.pageNo < MaxPage
    BY DEF LoadMore
  <1>3. table' \in Table /\ fetches' \in Seq(Fetch)
    BY <1>1, <1>2, FetchTypes DEF MayFetch
  <1>4. ASSUME ~mixed'
        PROVE  Orderly(table, fetches)'
    <2>1. ~mixed /\ fetches = <<>>
      BY <1>2, <1>4
    <2>2. Settled(table)
      BY <2>1, TidyParts DEF Orderly
    <2> QED
      BY <1>1, <1>2, <2>1, <2>2, MoreOrderly
  <1> QED
    BY <1>2, <1>3, <1>4, TidyPartsNext

LEMMA ServeTidy ==
    ASSUME Tidy, NEW i \in DOMAIN fetches, ServeFetch(i)
    PROVE  Tidy'
  <1>1. table \in Table /\ fetches \in Seq(Fetch) /\ mixed \in BOOLEAN
    BY TidyParts
  <1>2. /\ fetches' = [fetches EXCEPT ![i].served = TRUE]
        /\ table' = table /\ mixed' = mixed
    BY DEF ServeFetch
  <1>3. fetches[i] \in Fetch /\ DOMAIN fetches = 1 .. Len(fetches)
    BY <1>1
  <1>4. PICK g : g = [fetches[i] EXCEPT !.served = TRUE]
    OBVIOUS
  <1>5. g \in Fetch /\ g.query = fetches[i].query /\ g.page = fetches[i].page
        /\ g.append = fetches[i].append
    BY <1>3, <1>4 DEF Fetch
  <1>6. fetches' = [fetches EXCEPT ![i] = g]
    BY <1>2, <1>4
  <1>7. fetches' \in Seq(Fetch) /\ Len(fetches') = Len(fetches)
    BY <1>1, <1>3, <1>5, <1>6
  <1>8. ASSUME ~mixed
        PROVE  Orderly(table, fetches)'
    <2>1. Len(fetches) = 1 /\ Awaits(table, fetches[1]) /\ i = 1
      BY <1>3, <1>8, TidyParts DEF Orderly
    <2>2. fetches'[1] = g
      BY <1>1, <1>3, <1>6, <2>1
    <2> QED
      BY <1>2, <1>5, <1>7, <2>1, <2>2 DEF Orderly, Awaits
  <1> QED
    BY <1>1, <1>2, <1>7, <1>8, TidyPartsNext

LEMMA Removed ==
    ASSUME NEW S, NEW s \in Seq(S), NEW i \in DOMAIN s
    PROVE  /\ RemoveAt(s, i) \in Seq(S)
           /\ Len(s) = 1 => RemoveAt(s, i) = <<>>
  <1>1. /\ SubSeq(s, 1, i - 1) \in Seq(S) /\ Len(SubSeq(s, 1, i - 1)) = i - 1
        /\ SubSeq(s, i + 1, Len(s)) \in Seq(S) /\ Len(SubSeq(s, i + 1, Len(s))) = Len(s) - i
    OBVIOUS
  <1>2. RemoveAt(s, i) = SubSeq(s, 1, i - 1) \o SubSeq(s, i + 1, Len(s))
    BY DEF RemoveAt
  <1>3. RemoveAt(s, i) \in Seq(S)
    BY <1>1, <1>2
  <1>4. ASSUME Len(s) = 1
        PROVE  RemoveAt(s, i) = <<>>
    <2>1. i = 1
      BY <1>4
    <2>2. SubSeq(s, 1, i - 1) = <<>> /\ SubSeq(s, i + 1, Len(s)) = <<>>
      BY <1>1, <1>4, <2>1
    <2> QED
      BY <1>2, <2>2
  <1> QED
    BY <1>3, <1>4

\* The table has kept the answer's total and page, and then shows the answer.
LEMMA ArriveTidy ==
    ASSUME Tidy, NEW i \in DOMAIN fetches, Arrive(i)
    PROVE  Tidy'
  <1>1. table \in Table /\ fetches \in Seq(Fetch) /\ mixed \in BOOLEAN
    BY TidyParts
  <1>2. PICK f, c : /\ f = fetches[i]
                    /\ c = [query |-> f.query, page |-> f.page, old |-> f.old]
    OBVIOUS
  <1>3. f \in Fetch /\ c \in Chunk /\ c.query = f.query /\ c.page = f.page
        /\ f.append \in BOOLEAN
    <2>1. f \in Fetch
      BY <1>1, <1>2
    <2> QED
      BY <1>2, <2>1 DEF Fetch, Chunk
  <1>4. PICK t : t = Remember(table, c)
    OBVIOUS
  <1>5. /\ t \in Table /\ t.kind = table.kind /\ t.rows = table.rows /\ t.busy = table.busy
        /\ t.query = table.query /\ t.pageNo = table.pageNo
    BY <1>1, <1>3, <1>4, RememberFacts
  <1>6. table' = Show(t, f.append, c) /\ fetches' = RemoveAt(fetches, i) /\ mixed' = mixed
    BY <1>2, <1>4 DEF Arrive
  <1>7. table' \in Table
    BY <1>3, <1>5, <1>6, ShowType
  <1>8. fetches' \in Seq(Fetch) /\ (Len(fetches) = 1 => fetches' = <<>>)
    BY <1>1, <1>6, Removed
  <1>9. ASSUME ~mixed
        PROVE  Orderly(table, fetches)'
    <2>1. DOMAIN fetches = 1 .. Len(fetches) /\ Len(fetches) \in Nat
      BY <1>1
    <2>2. Len(fetches) = 1 /\ Awaits(table, fetches[1]) /\ i = 1
      BY <1>9, <2>1, TidyParts DEF Orderly
    <2>3. Awaits(t, f)
      BY <1>2, <1>5, <2>2 DEF Awaits, Prefix, AllShown
    <2>4. CASE f.append
      <3>1. Settled(Show(t, TRUE, c))
        BY <1>3, <1>5, <2>3, <2>4, ShowNext DEF Awaits
      <3> QED
        BY <1>3, <1>6, <1>8, <2>2, <2>4, <3>1 DEF Orderly
    <2>5. CASE ~f.append
      <3>1. Settled(Show(t, f.append, c))
        BY <1>3, <1>5, <2>3, <2>5, ShowFirst DEF Awaits
      <3> QED
        BY <1>6, <1>8, <2>2, <3>1 DEF Orderly
    <2> QED
      BY <2>4, <2>5
  <1> QED
    BY <1>1, <1>6, <1>7, <1>8, <1>9, TidyPartsNext

LEMMA FailTidy ==
    ASSUME Tidy, NEW i \in DOMAIN fetches, FailFetch(i)
    PROVE  Tidy'
  <1>1. table \in Table /\ fetches \in Seq(Fetch) /\ mixed \in BOOLEAN
    BY TidyParts
  <1>2. /\ table' = [table EXCEPT !.kind = "error", !.rows = <<>>, !.busy = @ \ {table.pageNo}]
        /\ fetches' = RemoveAt(fetches, i) /\ mixed' = mixed
    BY DEF FailFetch
  <1>3. <<>> \in Seq(Chunk)
    OBVIOUS
  <1>4. table' \in Table /\ table'.kind = "error" /\ table'.busy = table.busy \ {table.pageNo}
    BY <1>1, <1>2, <1>3 DEF Table
  <1>5. fetches' \in Seq(Fetch) /\ (Len(fetches) = 1 => fetches' = <<>>)
    BY <1>1, <1>2, Removed
  <1>6. ASSUME ~mixed
        PROVE  Orderly(table, fetches)'
    <2>1. DOMAIN fetches = 1 .. Len(fetches) /\ Len(fetches) \in Nat
      BY <1>1
    <2>2. Len(fetches) = 1 /\ Awaits(table, fetches[1])
      BY <1>6, <2>1, TidyParts DEF Orderly
    <2> QED
      BY <1>4, <1>5, <2>2 DEF Orderly, Settled, Awaits
  <1> QED
    BY <1>1, <1>2, <1>4, <1>5, <1>6, TidyPartsNext

LEMMA TidyStep ==
    ASSUME Tidy, TableMove
    PROVE  Tidy'
  <1>1. CASE Bound
    BY <1>1, BoundTidy
  <1>2. CASE AgedAll
    BY <1>2, AgedTidy
  <1>3. CASE TableStep
    <2>1. CASE Refresh
      BY <2>1, RefreshTidy
    <2>2. CASE \E q \in Queries : Ask(q)
      BY <2>2, AskTidy
    <2>3. CASE LoadMore
      BY <2>3, LoadMoreTidy
    <2>4. CASE \E i \in DOMAIN fetches : ServeFetch(i) \/ Arrive(i) \/ FailFetch(i)
      BY <2>4, ServeTidy, ArriveTidy, FailTidy
    <2> QED
      BY <1>3, <2>1, <2>2, <2>3, <2>4 DEF TableStep, TableUse, TableAnswer
  <1>4. CASE UNCHANGED tableVars
    BY <1>4 DEF tableVars, Tidy, TablesTypeOK, Orderly
  <1> QED
    BY <1>1, <1>2, <1>3, <1>4 DEF TableMove

LEMMA TidyInit ==
    ASSUME Init
    PROVE  Tidy
  <1>1. table \in Table /\ fetches = <<>> /\ mixed = FALSE /\ Settled(table)
    BY NewTableType DEF Init
  <1>2. fetches \in Seq(Fetch)
    BY <1>1
  <1> QED
    BY <1>1, <1>2, TidyParts DEF Orderly

LEMMA TidyPrefix ==
    ASSUME Tidy
    PROVE  WholePrefix
  <1> SUFFICES ASSUME ~mixed, table.kind = "data"
               PROVE  /\ \A i \in DOMAIN table.rows :
                            table.rows[i].page = i - 1 /\ table.rows[i].query = table.query
                      /\ table.busy = {} => \/ table.pageNo = Len(table.rows) - 1
                                            \/ ~HasPage(table, Len(table.rows))
                                            \/ Len(table.rows) >= Total[table.query]
    BY DEF WholePrefix
  <1>1. table \in Table
    BY TidyParts
  <1>2. Prefix(table)
    BY TidyParts DEF Orderly, Settled, Awaits
  <1>3. ASSUME table.busy = {}
        PROVE  \/ table.pageNo = Len(table.rows) - 1
               \/ ~HasPage(table, Len(table.rows))
               \/ Len(table.rows) >= Total[table.query]
    <2>1. Settled(table)
      BY <1>3, TidyParts DEF Orderly, Awaits
    <2> QED
      BY <1>1, <1>2, <2>1, TableFields DEF Settled, HasPage, AllShown, Prefix
  <1> QED
    BY <1>2, <1>3 DEF Prefix

\* The table of whatever page is open, and the fetches for it, keep their types,
\* and as long as no query overlapped another fetch the table either rests on a
\* prefix of its query's pages or awaits one fetch that continues it.
THEOREM TableInvariant == Spec => []Tidy
  <1>1. Init => Tidy
    BY TidyInit
  <1>2. Tidy /\ [Next]_vars => Tidy'
    BY NextMoves, TidyStep
  <1> QED
    BY <1>1, <1>2, PTL DEF Spec

\* Whatever the pages do with their table, its rows are the first pages of the
\* query asked for, each once and in order, and scrolling goes on after the last
\* of them, as long as no query was started while a fetch was in flight.
THEOREM TableShowsWholePrefix == Spec => []WholePrefix
  BY TableInvariant, TidyPrefix, PTL
-----------------------------------------------------------------------------
(***************************************************************************)
(* What the pages offer                                                    *)
(*                                                                         *)
(* Of the acts of a page two things matter.  Each is well made: what its   *)
(* fields say fits together, however the act was put together.  And its    *)
(* handler suits the page: data of a kind that the act changes and the     *)
(* page shows is loaded again, or the page is left.                        *)
(***************************************************************************)
\* The fields of act a, of kinds k, whose handler goes on with f; s are the kinds
\* its value help spoils.
WellMade(a, k, f, s) ==
    /\ a \in [way: {a.way}, kinds: {k}, done: {a.done}, fails: {a.fails}, leaves: {a.leaves},
              after: {f}, also: {a.also}, many: BOOLEAN, spoils: {s}, gated: BOOLEAN]
    /\ f = After(f.do, f.kinds, f.to)
    /\ a.way # "call" => f.do \notin {"go", "back"}
    /\ a.way # "form" => a.done # "stays"
    /\ a.way = "form" => ~a.many
    /\ a.way # "help" => s = {}

\* A step that a handler may take: one of those of module ConsolePages.
Proceeds(f) == f = After(f.do, f.kinds, f.to)

HasTable(p) == PageOf(p).rows # {}

ShownOn(p, k) ==
    /\ k \notin PageOf(p).unshown
    /\ \E n \in DOMAIN PageOf(p).loads : k \in PageOf(p).loads[n]

\* After an act on page p that changes or spoils data of the kinds ks, a handler
\* that goes on with f suits the page.
Suits(p, ks, f) ==
    \/ f.do = "go" /\ f.to \in PageNames
    \/ f.do = "back"
    \/ f.do = "reload" /\ ~HasTable(p)
    \/ /\ f.do \in {"part", "keep"} /\ ~HasTable(p) /\ f.kinds \subseteq Kinds
       /\ \A k \in ks : ShownOn(p, k) => k \in f.kinds
    \/ f.do = "rows" /\ HasTable(p) /\ (p \in NeverReload \/ \A k \in ks : ~ShownOn(p, k))
    \/ f.do = "none" /\ (p \in NeverReload \/ \A k \in ks : ~ShownOn(p, k) /\ ~ListsOf(k, p))

\* Act a of page p.
Offered(p, a) ==
    \E k, f, s : WellMade(a, k, f, s) /\ Suits(p, k \cup s, f)

(* How acts are put together.                                              *)

LEMMA FormMade ==
    ASSUME NEW d, NEW f, Proceeds(f), f.do \notin {"go", "back"}
    PROVE  WellMade(Form(d, f), d.kinds, f, {})
  BY DEF Form, WellMade, Proceeds

LEMMA RawMade ==
    ASSUME NEW d, NEW f, Proceeds(f), f.do \notin {"go", "back"}
    PROVE  WellMade(Raw(d, f), d.kinds, f, {})
  BY DEF Raw, Form, WellMade, Proceeds

LEMMA CallMade ==
    ASSUME NEW k, NEW f, Proceeds(f)
    PROVE  WellMade(Call(k, f), k, f, {})
  BY DEF Call, WellMade, Proceeds

LEMMA AlsoMade ==
    ASSUME NEW a, NEW k, NEW f, NEW s, WellMade(a, k, f, s), NEW o
    PROVE  WellMade(Also(a, o), k, f, s)
  BY DEF Also, WellMade

LEMMA ForEachMade ==
    ASSUME NEW k, NEW f, Proceeds(f)
    PROVE  WellMade(ForEach(Call(k, f)), k, f, {})
  BY DEF ForEach, Call, WellMade, Proceeds

LEMMA SpoilsMade ==
    ASSUME NEW k, NEW f, Proceeds(f), f.do \notin {"go", "back"}, NEW s
    PROVE  WellMade(Spoils(ForEach(Call(k, f)), s), k, f, s)
  BY DEF Spoils, ForEach, Call, WellMade, Proceeds

LEMMA GatedMade ==
    ASSUME NEW a, NEW k, NEW f, NEW s, WellMade(a, k, f, s)
    PROVE  WellMade([a EXCEPT !.gated = TRUE], k, f, s)
  BY DEF WellMade

LEMMA GatedOffered ==
    ASSUME NEW p, NEW acts, \A a \in All(acts) : Offered(p, a)
    PROVE  \A a \in Gated(acts) : Offered(p, a)
  <1> SUFFICES ASSUME NEW a \in All(acts)
               PROVE  Offered(p, [a EXCEPT !.gated = TRUE])
    BY DEF Gated
  <1>1. PICK k, f, s : WellMade(a, k, f, s) /\ Suits(p, k \cup s, f)
    BY DEF Offered
  <1> QED
    BY <1>1, GatedMade DEF Offered

LEMMA Steps ==
    /\ Proceeds(Reload) /\ Reload.do = "reload"
    /\ Proceeds(Rows) /\ Rows.do = "rows"
    /\ Proceeds(Nothing) /\ Nothing.do = "none"
    /\ Proceeds(Back) /\ Back.do = "back"
    /\ \A k : Proceeds(Part(k)) /\ Part(k).do = "part" /\ Part(k).kinds = k
    /\ \A k : Proceeds(Keep(k)) /\ Keep(k).do = "keep" /\ Keep(k).kinds = k
    /\ \A p : Proceeds(Go(p)) /\ Go(p).do = "go" /\ Go(p).to = p
  BY DEF Proceeds, Reload, Rows, Nothing, Back, Part, Keep, Go, After

(* An act that loads the page, or its table, again suits it whatever it changes. *)

LEMMA FormReloads ==
    ASSUME NEW p, ~HasTable(p), NEW d
    PROVE  Offered(p, Form(d, Reload))
  BY FormMade, Steps DEF Offered, Suits

LEMMA CallReloads ==
    ASSUME NEW p, ~HasTable(p), NEW k
    PROVE  Offered(p, Call(k, Reload))
  BY CallMade, Steps DEF Offered, Suits

LEMMA CallGoes ==
    ASSUME NEW p, NEW k, NEW f, f = Back \/ \E q \in PageNames : f = Go(q)
    PROVE  Offered(p, Call(k, f))
  BY CallMade, Steps DEF Offered, Suits

LEMMA FormRefreshes ==
    ASSUME NEW p, HasTable(p), p \in NeverReload \/ \A k : ~ShownOn(p, k), NEW d
    PROVE  Offered(p, Form(d, Rows)) /\ Offered(p, Raw(d, Rows))
  BY FormMade, RawMade, Steps DEF Offered, Suits

LEMMA CallRefreshes ==
    ASSUME NEW p, HasTable(p), p \in NeverReload \/ \A k : ~ShownOn(p, k), NEW k
    PROVE  Offered(p, Call(k, Rows))
  BY CallMade, Steps DEF Offered, Suits

LEMMA FormNever ==
    ASSUME NEW p \in NeverReload, NEW d
    PROVE  Offered(p, Raw(d, Nothing))
  BY RawMade, Steps DEF Offered, Suits

LEMMA CallNever ==
    ASSUME NEW p \in NeverReload, NEW k
    PROVE  Offered(p, Call(k, Nothing))
  BY CallMade, Steps DEF Offered, Suits

LEMMA FormChangesNothing ==
    ASSUME NEW p, NEW d, d.kinds = {}
    PROVE  Offered(p, Form(d, Nothing))
  BY FormMade, Steps DEF Offered, Suits

LEMMA AlsoOffered ==
    ASSUME NEW p, NEW a, Offered(p, a), NEW o
    PROVE  Offered(p, Also(a, o))
  BY AlsoMade DEF Offered

(* The pages. *)

LEMMA PageNamesAre ==
    PageNames = {"HOME", "TN02", "CL02", "GP02", "RL02", "TNRL01", "ERROR", "ADMIN", "AP01A",
                 "CL01A", "GP01A", "RL01A", "UR01A", "TN01A", "KY01A", "TN02AS", "CL02AS",
                 "GP02AS", "RL02AS", "UR02AS", "TNRL01AS", "CL02A", "GP02A", "RL02A", "TN02A",
                 "TNRL01A", "UR02A"}
  BY DEF PageNames, OwnArea, Pages, AdminPages

LEMMA OwnPages ==
    /\ PageOf("HOME") = Home /\ PageOf("TN02") = TN02 /\ PageOf("CL02") = CL02
    /\ PageOf("GP02") = GP02 /\ PageOf("RL02") = RL02 /\ PageOf("TNRL01") = TNRL01
    /\ PageOf("ERROR") = ErrorPage
  BY DEF PageOf, OwnArea, Pages

LEMMA PagesOfAdmin ==
    /\ PageOf("ADMIN") = AdminHome /\ PageOf("AP01A") = AP01A /\ PageOf("CL01A") = CL01A
    /\ PageOf("GP01A") = GP01A /\ PageOf("RL01A") = RL01A /\ PageOf("UR01A") = UR01A
    /\ PageOf("TN01A") = TN01A /\ PageOf("KY01A") = KY01A /\ PageOf("TN02AS") = TN02AS
    /\ PageOf("CL02AS") = CL02AS /\ PageOf("GP02AS") = GP02AS /\ PageOf("RL02AS") = RL02AS
    /\ PageOf("UR02AS") = UR02AS /\ PageOf("TNRL01AS") = TNRL01AS /\ PageOf("CL02A") = CL02A
    /\ PageOf("GP02A") = GP02A /\ PageOf("RL02A") = RL02A /\ PageOf("TN02A") = TN02A
    /\ PageOf("TNRL01A") = TNRL01A /\ PageOf("UR02A") = UR02A
  BY DEF PageOf, OwnArea, Pages, AdminPages

LEMMA ListFields ==
    ASSUME NEW kinds, NEW acts, NEW links
    PROVE  LET x == ListPage(kinds, acts, links)
           IN  x.acts = acts /\ x.links = links /\ x.rows = kinds /\ x.sticks = {} /\ x.loads = <<>>
  BY DEF ListPage, Page

PageOK(p, x) ==
    /\ \A a \in x.acts : Offered(p, a)
    /\ x.links \subseteq PageNames
    /\ x.loads \in Seq(SUBSET Kinds)
    /\ x.sticks # {} => \E n \in DOMAIN x.loads : x.sticks \subseteq x.loads[n]
    /\ \A k \in x.rows, n \in DOMAIN x.loads : k \notin x.loads[n]

LEMMA TN02OK == PageOK("TN02", TN02)
  <1>1. PICK x : x = Page(TN02Loads, TN02MemberTabs \cup TN02AppTabs \cup TN02ClientTabs,
                          {"TNRL01", "RL02", "CL02", "GP02"})
    OBVIOUS
  <1>2. /\ TN02.loads = TN02Loads /\ TN02.rows = {} /\ TN02.sticks = {}
        /\ TN02.acts = TN02MemberTabs \cup TN02AppTabs \cup TN02ClientTabs
        /\ TN02.links = {"TNRL01", "RL02", "CL02", "GP02"}
    BY DEF TN02, Page
  <1>3. TN02Loads \in Seq(SUBSET Kinds)
    BY DEF TN02Loads, Kinds, TenantService, AppService, SubscriptionService, ClientService, GroupService
  <1>4. ~HasTable("TN02")
    BY <1>2, OwnPages DEF HasTable
  <1>5. \A a \in TN02MemberTabs : Offered("TN02", a)
    <2>1. \A a \in All(TN02MemberActs) : Offered("TN02", a)
      BY <1>4, FormReloads, CallReloads, CallGoes DEF TN02MemberActs, All
    <2> QED
      BY <2>1, GatedOffered DEF TN02MemberTabs
  <1>6. \A a \in TN02AppTabs : Offered("TN02", a)
    <2>1. TestWebhook.kinds = {}
      BY DEF TestWebhook, Dialog, AppService
    <2>2. \A a \in All(TN02AppActs) : Offered("TN02", a)
      BY <1>4, <2>1, FormReloads, CallReloads, FormChangesNothing DEF TN02AppActs, All
    <2> QED
      BY <2>2, GatedOffered DEF TN02AppTabs
  <1>7. \A a \in TN02ClientTabs : Offered("TN02", a)
    <2>1. \A a \in All(TN02ClientActs) : Offered("TN02", a)
      BY <1>4, FormReloads, CallReloads DEF TN02ClientActs, All
    <2> QED
      BY <2>1, GatedOffered DEF TN02ClientTabs
  <1> QED
    BY <1>2, <1>3, <1>5, <1>6, <1>7, PageNamesAre DEF PageOK

LEMMA RL02OK == PageOK("RL02", RL02)
  <1>1. /\ RL02.loads = <<RoleService.getRoleDetails, PolicyService.getRoleAuthorizations>>
        /\ RL02.rows = {} /\ RL02.sticks = {"role"} /\ RL02.acts = RL02Tabs /\ RL02.links = {}
        /\ RL02.unshown = {}
    BY DEF RL02, Page, NoLinks
  <1>2. RL02.loads = <<{"role", "memberRole"}, {"policy"}>>
    BY <1>1 DEF RoleService, PolicyService
  <1>3. ~HasTable("RL02")
    BY <1>1, OwnPages DEF HasTable
  <1>4. \A a \in All(RL02RoleActs) : Offered("RL02", a)
    <2>1. Offered("RL02", Form(UpdateRole, Keep({"role"})))
      <3>1. UpdateRole.kinds = {"role"}
        BY DEF UpdateRole, Dialog, RoleService
      <3> QED
        BY <1>3, <3>1, FormMade, Steps DEF Offered, Suits, Kinds
    <2>2. Offered("RL02", Call(TenantService.deleteRole, Go("ERROR")))
      BY CallGoes, PageNamesAre
    <2> QED
      BY <2>1, <2>2 DEF RL02RoleActs, All
  <1>5. \A a \in All(RL02UserActs) : Offered("RL02", a)
    <2>1. Offered("RL02", Spoils(ForEach(Call(MemberRoleService.addRolesToMember,
                                              Part({"memberRole"}))), {"memberRole"}))
      <3>1. MemberRoleService.addRolesToMember = {"memberRole"}
        BY DEF MemberRoleService
      <3> QED
        BY <1>3, <3>1, SpoilsMade, Steps DEF Offered, Suits, Kinds
    <2> QED
      BY <1>3, <2>1, CallReloads, AlsoOffered DEF RL02UserActs, All
  <1>6. \A a \in All(RL02PolicyActs) : Offered("RL02", a)
    <2>1. /\ CreatePolicy.kinds = {"policy"} /\ UpdatePolicy.kinds = {"policy"}
          /\ PolicyService.deleteAuthorization = {"policy"} /\ RoleService.updateRole = {"role"}
      BY DEF CreatePolicy, UpdatePolicy, Dialog, PolicyService, RoleService
    <2>2. /\ Offered("RL02", Form(CreatePolicy, Part({"policy"})))
          /\ Offered("RL02", Form(UpdatePolicy, Part({"policy"})))
          /\ Offered("RL02", Call(PolicyService.deleteAuthorization, Part({"policy"})))
          /\ Offered("RL02", ForEach(Call(RoleService.updateRole, Part({"role"}))))
      BY <1>3, <2>1, FormMade, CallMade, ForEachMade, Steps DEF Offered, Suits, Kinds
    <2> QED
      BY <2>2 DEF RL02PolicyActs, All
  <1>7. RL02.loads \in Seq(SUBSET Kinds) /\ RL02.sticks \subseteq RL02.loads[1] /\ 1 \in DOMAIN RL02.loads
    BY <1>1, <1>2 DEF Kinds
  <1> QED
    BY <1>1, <1>4, <1>5, <1>6, <1>7 DEF PageOK, RL02Tabs

LEMMA HomeOK == PageOK("HOME", Home) /\ PageOK("ERROR", ErrorPage) /\ PageOK("ADMIN", AdminHome)
  <1>1. \A x \in {Home, ErrorPage, AdminHome} :
           x.loads = <<>> /\ x.acts = {} /\ x.rows = {} /\ x.sticks = {} /\ x.links \subseteq PageNames
    BY PageNamesAre DEF Home, ErrorPage, AdminHome, Page, NoActs
  <1>2. <<>> \in Seq(SUBSET Kinds)
    OBVIOUS
  <1> QED
    BY <1>1, <1>2 DEF PageOK

LEMMA CL02OK == PageOK("CL02", CL02)
  <1>1. /\ CL02.loads = <<{"client"}>> /\ CL02.rows = {} /\ CL02.sticks = {} /\ CL02.links = {}
        /\ CL02.acts = Gated(CL02Acts)
    BY DEF CL02, Page, NoLinks, ClientService
  <1>2. ~HasTable("CL02")
    BY <1>1, OwnPages DEF HasTable
  <1>3. \A k : ShownOn("CL02", k) => k = "client"
    BY <1>1, OwnPages DEF ShownOn
  <1>4. Offered("CL02", Form(EditClient, Keep({"client"})))
    BY <1>2, <1>3, FormMade, Steps DEF Offered, Suits, Kinds
  <1>5. Offered("CL02", Call(ClientService.rotateSecret, Keep({"client"})))
    BY <1>2, <1>3, CallMade, Steps DEF Offered, Suits, Kinds
  <1>6. \A a \in All(CL02Acts) : Offered("CL02", a)
    BY <1>4, <1>5, CallGoes, PageNamesAre DEF CL02Acts, All
  <1> QED
    BY <1>1, <1>6, GatedOffered DEF PageOK, Kinds

LEMMA GP02OK == PageOK("GP02", GP02)
  <1>1. /\ GP02.loads = <<GroupService.getGroupDetail, TenantService.getMembers,
                          TenantService.getTenantRoles>>
        /\ GP02.rows = {} /\ GP02.sticks = {} /\ GP02.links = {"RL02"} /\ GP02.acts = GP02Acts
    BY DEF GP02, Page
  <1>2. GP02.loads \in Seq(SUBSET Kinds)
    BY <1>1 DEF GroupService, TenantService, Kinds
  <1>3. ~HasTable("GP02")
    BY <1>1, OwnPages DEF HasTable
  <1> DEFINE gated == [onUpdateGroup |-> Form(UpdateGroup, Reload),
                       onDeleteGroup |-> Call(GroupService.deleteGroup, Go("TN02")),
                       onRemoveUser  |-> Call(GroupService.removeUser, Reload),
                       onRemoveRole  |-> Call(GroupService.removeRoles, Reload)]
             open == [onAddUsers |-> Call(GroupService.addUser, Reload),
                      onAddRoles |-> Call(GroupService.addRoles, Reload)]
  <1>4. \A a \in All(gated) : Offered("GP02", a)
    BY <1>3, FormReloads, CallReloads, CallGoes, PageNamesAre DEF All
  <1>5. \A a \in All(open) : Offered("GP02", a)
    BY <1>3, CallReloads DEF All
  <1>6. GP02Acts = Gated(gated) \cup All(open)
    BY DEF GP02Acts
  <1> HIDE DEF gated, open
  <1>7. \A a \in GP02Acts : Offered("GP02", a)
    BY <1>4, <1>5, <1>6, GatedOffered
  <1> QED
    BY <1>1, <1>2, <1>7, PageNamesAre DEF PageOK

LEMMA TNRL01OK == PageOK("TNRL01", TNRL01)
  <1>1. /\ TNRL01.loads = <<TenantService.getTenantDetails, UserService.getUser,
                            MemberRoleService.getMemberDetails>>
        /\ TNRL01.rows = {} /\ TNRL01.sticks = {"memberRole"} /\ TNRL01.links = {"RL02"}
        /\ TNRL01.acts = All(TNRL01Acts)
    BY DEF TNRL01, Page
  <1>2. TNRL01.loads = <<{"tenant"}, {"user"}, {"memberRole"}>>
    BY <1>1 DEF TenantService, UserService, MemberRoleService
  <1>3. ~HasTable("TNRL01")
    BY <1>1, OwnPages DEF HasTable
  <1>4. /\ MemberRoleService.addRolesToMember = {"memberRole"}
        /\ MemberRoleService.removeRolesFromMember = {"memberRole"}
    BY DEF MemberRoleService
  <1>5. Offered("TNRL01", Call({"memberRole"}, Part({"memberRole"})))
    BY <1>3, CallMade, Steps DEF Offered, Suits, Kinds
  <1>6. \A a \in All(TNRL01Acts) : Offered("TNRL01", a)
    BY <1>4, <1>5 DEF TNRL01Acts, All
  <1>7. /\ TNRL01.loads \in Seq(SUBSET Kinds) /\ 3 \in DOMAIN TNRL01.loads
        /\ TNRL01.sticks \subseteq TNRL01.loads[3]
    BY <1>1, <1>2 DEF Kinds
  <1> QED
    BY <1>1, <1>6, <1>7, PageNamesAre DEF PageOK

(* The lists of the administrator's area, and the selection pages. *)

LEMMA ListOK ==
    ASSUME NEW p, NEW kinds, NEW acts, NEW links, links \subseteq PageNames,
           \A a \in acts : Offered(p, a)
    PROVE  PageOK(p, ListPage(kinds, acts, links))
  <1>1. PICK x : x = ListPage(kinds, acts, links)
    OBVIOUS
  <1>2. /\ x.acts = acts /\ x.links = links /\ x.rows = kinds /\ x.sticks = {} /\ x.loads = <<>>
    BY <1>1, ListFields
  <1>3. <<>> \in Seq(SUBSET Kinds) /\ DOMAIN <<>> = {}
    OBVIOUS
  <1> QED
    BY <1>1, <1>2, <1>3 DEF PageOK

LEMMA IsList ==
    \A p \in {"AP01A", "CL01A"} : HasTable(p) /\ \A k : ~ShownOn(p, k)
  <1>1. /\ AP01A.rows = {"app"} /\ AP01A.loads = <<>>
        /\ CL01A.rows = {"client"} /\ CL01A.loads = <<>>
    BY ListFields DEF AP01A, CL01A, AppService
  <1>2. DOMAIN <<>> = {}
    OBVIOUS
  <1> QED
    BY <1>1, <1>2, PagesOfAdmin DEF HasTable, ShownOn

LEMMA AP01AOK == PageOK("AP01A", AP01A)
  <1> DEFINE acts == [openCreateModal |-> Form(CreateAppAdmin, Rows),
                      openUpdateModal |-> Form(AdminUpdateApp, Rows),
                      openDeleteModal |-> Call(AppService.deleteApp, Rows)]
  <1>1. \A a \in All(acts) : Offered("AP01A", a)
    BY IsList, FormRefreshes, CallRefreshes DEF All
  <1>2. AP01A = ListPage(AppService.createDataModel, All(acts), NoLinks)
    BY DEF AP01A
  <1> HIDE DEF acts
  <1> QED
    BY <1>1, <1>2, ListOK DEF NoLinks

LEMMA CL01AOK == PageOK("CL01A", CL01A)
  <1> DEFINE acts == [openCreateModal |-> Form(CreateClientAdmin, Rows),
                      onRotateSecret  |-> Call(ClientService.rotateSecret, Rows),
                      openDeleteModal |-> Call(ClientService.deleteClient, Rows)]
  <1>1. \A a \in All(acts) : Offered("CL01A", a)
    BY IsList, FormRefreshes, CallRefreshes DEF All
  <1>2. CL01A = ListPage({"client"}, All(acts), {"CL02A"})
    BY DEF CL01A
  <1> HIDE DEF acts
  <1> QED
    BY <1>1, <1>2, ListOK, PageNamesAre

LEMMA GP01AOK == PageOK("GP01A", GP01A)
  <1> DEFINE acts == [openCreateModal |-> Raw(AdminCreateGroup, Nothing),
                      openUpdateModal |-> Raw(AdminUpdateGroup, Nothing),
                      openDeleteModal |-> Call(GroupService.deleteGroup, Nothing)]
  <1>1. \A a \in All(acts) : Offered("GP01A", a)
    BY FormNever, CallNever DEF All, NeverReload
  <1>2. GP01A = ListPage(GroupService.createDataModel, All(acts), {"GP02A", "TN02A"})
    BY DEF GP01A
  <1> HIDE DEF acts
  <1> QED
    BY <1>1, <1>2, ListOK, PageNamesAre

LEMMA RL01AOK == PageOK("RL01A", RL01A)
  <1> DEFINE acts == [openDeleteModal |-> Call(AdminTenantService.deleteRole, Nothing)]
  <1>1. \A a \in All(acts) : Offered("RL01A", a)
    BY CallNever DEF All, NeverReload
  <1>2. RL01A = ListPage(RoleService.createDataModel, All(acts), {"RL02A", "TN02A"})
    BY DEF RL01A
  <1> HIDE DEF acts
  <1> QED
    BY <1>1, <1>2, ListOK, PageNamesAre

LEMMA UR01AOK == PageOK("UR01A", UR01A)
  <1> DEFINE acts == [openCreateModal |-> Raw(CreateUser, Nothing),
                      openDeleteModal |-> Call(UserService.deleteUser, Nothing)]
  <1>1. \A a \in All(acts) : Offered("UR01A", a)
    BY FormNever, CallNever DEF All, NeverReload
  <1>2. UR01A = ListPage(UserService.createDataModel, All(acts), {"UR02A"})
    BY DEF UR01A
  <1> HIDE DEF acts
  <1> QED
    BY <1>1, <1>2, ListOK, PageNamesAre

LEMMA TN01AOK == PageOK("TN01A", TN01A)
  <1> DEFINE acts == [openCreateModal |-> Raw(CreateTenant, Rows),
                      openUpdateModal |-> Raw(AdminUpdateTenant, Rows),
                      openDeleteModal |-> Also(Call(AdminTenantService.deleteTenant, Rows),
                                               {"no", "refused"})]
  <1>1. PICK x : x = ListPage(AdminTenantParts.createDataModel, TN01AActs, {"TN02A"})
    OBVIOUS
  <1>2. /\ TN01A.loads = <<{"key"}>> /\ TN01A.rows = {"tenant"} /\ TN01A.sticks = {}
        /\ TN01A.links = {"TN02A"} /\ TN01A.acts = TN01AActs
    BY DEF TN01A, ListPage, Page, AdminTenantParts
  <1>3. HasTable("TN01A") /\ "TN01A" \in NeverReload
    BY <1>2, PagesOfAdmin DEF HasTable, NeverReload
  <1>4. \A a \in All(acts) : Offered("TN01A", a)
    BY <1>3, FormRefreshes, CallRefreshes, AlsoOffered DEF All
  <1>5. TN01AActs = All(acts)
    BY DEF TN01AActs
  <1> HIDE DEF acts
  <1>6. <<{"key"}>> \in Seq(SUBSET Kinds)
    BY DEF Kinds
  <1> QED
    BY <1>2, <1>4, <1>5, <1>6, PageNamesAre DEF PageOK

LEMMA SelectionOK ==
    /\ PageOK("TN02AS", TN02AS) /\ PageOK("CL02AS", CL02AS) /\ PageOK("GP02AS", GP02AS)
    /\ PageOK("RL02AS", RL02AS) /\ PageOK("UR02AS", UR02AS) /\ PageOK("TNRL01AS", TNRL01AS)
  BY ListOK, PageNamesAre
     DEF NoActs, TN02AS, CL02AS, GP02AS, RL02AS, UR02AS, TNRL01AS

(* The other pages of the administrator's area. *)

LEMMA KY01AOK == PageOK("KY01A", KY01A)
  <1>1. /\ KY01A.loads = <<{"key"}>> /\ KY01A.rows = {} /\ KY01A.sticks = {}
        /\ KY01A.links = {"TN02A"} /\ KY01A.acts = {}
    BY DEF KY01A, Page, NoActs, AdminTenantParts
  <1> QED
    BY <1>1, PageNamesAre DEF PageOK, Kinds

LEMMA CL02AOK == PageOK("CL02A", CL02A)
  <1> DEFINE acts == [onEditClient   |-> Form(EditClientAdmin, Keep({"client"})),
                      onRotateSecret |-> Call(ClientService.rotateSecret, Nothing),
                      onDeleteClient |-> Call(ClientService.deleteClient, Go("CL01A"))]
  <1>1. /\ CL02A.loads = <<{"client"}>> /\ CL02A.rows = {} /\ CL02A.sticks = {}
        /\ CL02A.links = {"TN02A"} /\ CL02A.acts = All(acts)
    BY DEF CL02A, Page, ClientService
  <1>2. ~HasTable("CL02A")
    BY <1>1, PagesOfAdmin DEF HasTable
  <1>3. \A k : ShownOn("CL02A", k) => k = "client"
    BY <1>1, PagesOfAdmin DEF ShownOn
  <1>4. Offered("CL02A", Form(EditClientAdmin, Keep({"client"})))
    BY <1>2, <1>3, FormMade, Steps DEF Offered, Suits, Kinds
  <1>5. Offered("CL02A", Call(ClientService.rotateSecret, Nothing))
    <2>1. ClientService.rotateSecret = {"secret"}
      BY DEF ClientService
    <2>2. \A k : ~ListsOf(k, "CL02A")
      BY <1>1, PagesOfAdmin DEF ListsOf
    <2> QED
      BY <1>2, <1>3, <2>1, <2>2, CallMade, Steps DEF Offered, Suits
  <1>6. \A a \in All(acts) : Offered("CL02A", a)
    BY <1>4, <1>5, CallGoes, PageNamesAre DEF All
  <1> QED
    BY <1>1, <1>6, PageNamesAre DEF PageOK, Kinds

LEMMA GP02AOK == PageOK("GP02A", GP02A)
  <1> DEFINE acts == [onUpdateGroup |-> Form(AdminUpdateGroup, Reload),
                      onDeleteGroup |-> Call(GroupService.deleteGroup, Go("GP01A")),
                      onUserRemove  |-> Call(GroupService.removeUser, Reload),
                      onAddUsers    |-> Call(GroupService.addUser, Reload),
                      onAddRoles    |-> Call(GroupService.addRoles, Reload),
                      onRemoveRole  |-> Call(GroupService.removeRoles, Reload)]
  <1>1. /\ GP02A.loads = <<GroupService.getGroupDetail, AdminTenantService.getMembers,
                           AdminTenantService.getTenantRoles>>
        /\ GP02A.rows = {} /\ GP02A.sticks = {} /\ GP02A.links = {"RL02A", "UR02A", "TNRL01A"}
        /\ GP02A.acts = All(acts)
    BY DEF GP02A, Page
  <1>2. GP02A.loads \in Seq(SUBSET Kinds)
    BY <1>1 DEF GroupService, AdminTenantService, Kinds
  <1>3. ~HasTable("GP02A")
    BY <1>1, PagesOfAdmin DEF HasTable
  <1>4. \A a \in All(acts) : Offered("GP02A", a)
    BY <1>3, FormReloads, CallReloads, CallGoes, PageNamesAre DEF All
  <1> QED
    BY <1>1, <1>2, <1>4, PageNamesAre DEF PageOK

LEMMA RL02AOK == PageOK("RL02A", RL02A)
  <1> DEFINE acts == [onUpdateRole |-> Form(AdminUpdateRole, Reload),
                      onDeleteRole |-> Call(AdminTenantService.deleteRole, Back)]
  <1>1. /\ RL02A.loads = <<{"role", "memberRole"}>> /\ RL02A.rows = {} /\ RL02A.sticks = {}
        /\ RL02A.links = {"TN02A", "UR02A"} /\ RL02A.acts = All(acts)
    BY DEF RL02A, Page, RoleService
  <1>2. ~HasTable("RL02A")
    BY <1>1, PagesOfAdmin DEF HasTable
  <1>3. \A a \in All(acts) : Offered("RL02A", a)
    BY <1>2, FormReloads, CallGoes DEF All
  <1> QED
    BY <1>1, <1>3, PageNamesAre DEF PageOK, Kinds

LEMMA TN02AOK == PageOK("TN02A", TN02A)
  <1>1. /\ TN02A.loads = TN02ALoads /\ TN02A.rows = {} /\ TN02A.sticks = {}
        /\ TN02A.acts = All(TN02AMemberActs) \cup All(TN02AClientActs)
        /\ TN02A.links = {"TNRL01A", "CL02A", "GP02A"}
    BY DEF TN02A, Page
  <1>2. TN02ALoads \in Seq(SUBSET Kinds)
    BY DEF TN02ALoads, Kinds, AdminTenantService, AdminTenantParts
  <1>3. ~HasTable("TN02A")
    BY <1>1, PagesOfAdmin DEF HasTable
  <1>4. \A a \in All(TN02AMemberActs) : Offered("TN02A", a)
    <2>1. AdminTenantParts.rotateKeys = {"key"}
      BY DEF AdminTenantParts
    <2>2. Offered("TN02A", Call(AdminTenantParts.rotateKeys, Part({"key"})))
      BY <1>3, <2>1, CallMade, Steps DEF Offered, Suits, Kinds
    <2> QED
      BY <1>3, <2>2, FormReloads, CallReloads, CallGoes DEF TN02AMemberActs, All
  <1>5. \A a \in All(TN02AClientActs) : Offered("TN02A", a)
    <2>1. TestWebhookAdmin.kinds = {}
      BY DEF TestWebhookAdmin, Dialog, AppService
    <2> QED
      BY <1>3, <2>1, FormReloads, CallReloads, FormChangesNothing DEF TN02AClientActs, All
  <1> QED
    BY <1>1, <1>2, <1>4, <1>5, PageNamesAre DEF PageOK

LEMMA TNRL01AOK == PageOK("TNRL01A", TNRL01A)
  <1> DEFINE acts == [onAddRoles |-> Call(AdminTenantService.setMemberRoles,
                                          Part({"memberRole"}))]
  <1>1. /\ TNRL01A.loads = <<AdminTenantService.getTenantDetails,
                             AdminTenantService.getMemberDetails,
                             AdminTenantService.getTenantRoles,
                             AdminTenantService.getMemberRoles>>
        /\ TNRL01A.rows = {} /\ TNRL01A.sticks = {"memberRole"} /\ TNRL01A.links = {"RL02A"}
        /\ TNRL01A.acts = All(acts)
    BY DEF TNRL01A, Page
  <1>2. TNRL01A.loads = <<{"tenant"}, {"user"}, {"role"}, {"memberRole"}>>
    BY <1>1 DEF AdminTenantService
  <1>3. ~HasTable("TNRL01A")
    BY <1>1, PagesOfAdmin DEF HasTable
  <1>4. AdminTenantService.setMemberRoles = {"memberRole"}
    BY DEF AdminTenantService
  <1>5. Offered("TNRL01A", Call({"memberRole"}, Part({"memberRole"})))
    BY <1>3, CallMade, Steps DEF Offered, Suits, Kinds
  <1>6. \A a \in All(acts) : Offered("TNRL01A", a)
    BY <1>4, <1>5 DEF All
  <1>7. /\ TNRL01A.loads \in Seq(SUBSET Kinds) /\ 4 \in DOMAIN TNRL01A.loads
        /\ TNRL01A.sticks \subseteq TNRL01A.loads[4]
    BY <1>1, <1>2 DEF Kinds
  <1> QED
    BY <1>1, <1>6, <1>7, PageNamesAre DEF PageOK

LEMMA UR02AOK == PageOK("UR02A", UR02A)
  <1> DEFINE acts == [openUpdateModal         |-> Raw(EditUser, Nothing),
                      openChangePasswordModal |-> Raw(ChangePassword, Nothing),
                      onDelete     |-> Also(Call(UserService.deleteUser, Back), {"no", "refused"}),
                      onVerifyUser |-> Call(UserService.verifyUser, Reload),
                      onToggleLock |-> Call(UserService.lockUser, Reload)]
  <1>1. /\ UR02A.loads = <<{"user"}, {"member"}>> /\ UR02A.rows = {} /\ UR02A.sticks = {}
        /\ UR02A.links = {"TN02A", "TNRL01A"} /\ UR02A.acts = All(acts)
    BY DEF UR02A, Page, UserService
  <1>2. ~HasTable("UR02A")
    BY <1>1, PagesOfAdmin DEF HasTable
  <1>3. /\ Offered("UR02A", Raw(EditUser, Nothing)) /\ Offered("UR02A", Raw(ChangePassword, Nothing))
        /\ Offered("UR02A", Also(Call(UserService.deleteUser, Back), {"no", "refused"}))
    BY FormNever, CallGoes, AlsoOffered DEF NeverReload
  <1>4. \A a \in All(acts) : Offered("UR02A", a)
    BY <1>2, <1>3, CallReloads DEF All
  <1> QED
    BY <1>1, <1>4, PageNamesAre DEF PageOK, Kinds

LEMMA EveryPage == \A p \in PageNames : PageOK(p, PageOf(p))
  BY PageNamesAre, OwnPages, PagesOfAdmin, HomeOK, TN02OK, CL02OK, GP02OK, RL02OK, TNRL01OK,
     AP01AOK, CL01AOK, GP01AOK, RL01AOK, UR01AOK, TN01AOK, KY01AOK, SelectionOK, CL02AOK,
     GP02AOK, RL02AOK, TN02AOK, TNRL01AOK, UR02AOK

(* An act as it is followed, of one kind of data. *)

\* Handler step f suits page p where what it changes, ks, is nothing or of kind k.
Renews(p, k, ks, f) ==
    \/ f.do = "go" /\ f.to \in PageNames
    \/ f.do = "back"
    \/ f.do = "reload" /\ ~HasTable(p)
    \/ /\ f.do \in {"part", "keep"} /\ ~HasTable(p)
       /\ ks # {} /\ ShownOn(p, k) => k \in f.kinds
    \/ f.do = "rows" /\ HasTable(p) /\ (p \in NeverReload \/ ks = {} \/ ~ShownOn(p, k))
    \/ f.do = "none" /\ (p \in NeverReload \/ ks = {} \/ (~ShownOn(p, k) /\ ~ListsOf(k, p)))

ActOK(p, k, a) ==
    /\ WellMade(a, a.kinds, a.after, a.spoils)
    /\ a.kinds \subseteq {k} /\ a.spoils \subseteq {k} /\ a.after.kinds \subseteq {k}
    /\ Renews(p, k, a.kinds \cup a.spoils, a.after)

LEMMA FollowOK ==
    ASSUME NEW p, NEW k, NEW b, Offered(p, b)
    PROVE  ActOK(p, k, Follow(k, b))
  <1>1. PICK ks, f, s : WellMade(b, ks, f, s) /\ Suits(p, ks \cup s, f)
    BY DEF Offered
  <1>2. PICK g : g = After(f.do, f.kinds \cap {k}, f.to)
    OBVIOUS
  <1>3. g.do = f.do /\ g.kinds = f.kinds \cap {k} /\ g.to = f.to /\ g = After(g.do, g.kinds, g.to)
    BY <1>2 DEF After
  <1>4. PICK a : a = Follow(k, b)
    OBVIOUS
  <1>5. [f EXCEPT !.kinds = @ \cap {k}] = g
    <2>1. f = After(f.do, f.kinds, f.to)
      BY <1>1 DEF WellMade
    <2> QED
      BY <1>2, <2>1 DEF After
  <1>6. a = [b EXCEPT !.kinds = ks \cap {k}, !.after = g, !.spoils = s \cap {k}, !.gated = FALSE]
    <2>1. b.kinds = ks /\ b.after = f /\ b.spoils = s
      BY <1>1 DEF WellMade
    <2> QED
      BY <1>1, <1>4, <1>5, <2>1 DEF Follow, WellMade
  <1>7. WellMade(a, ks \cap {k}, g, s \cap {k})
    BY <1>1, <1>3, <1>6 DEF WellMade
  <1>8. a.kinds = ks \cap {k} /\ a.after = g /\ a.spoils = s \cap {k}
    BY <1>7 DEF WellMade
  <1>9. Renews(p, k, a.kinds \cup a.spoils, g)
    <2>1. a.kinds \cup a.spoils = (ks \cup s) \cap {k}
      BY <1>8
    <2>2. CASE f.do \in {"part", "keep"}
      <3>1. ~HasTable(p) /\ \A j \in ks \cup s : ShownOn(p, j) => j \in f.kinds
        BY <1>1, <2>2 DEF Suits
      <3> QED
        BY <1>3, <2>1, <2>2, <3>1 DEF Renews
    <2>3. CASE f.do = "none"
      <3>1. p \in NeverReload \/ \A j \in ks \cup s : ~ShownOn(p, j) /\ ~ListsOf(j, p)
        BY <1>1, <2>3 DEF Suits
      <3> QED
        BY <1>3, <2>1, <2>3, <3>1 DEF Renews
    <2>4. CASE f.do = "rows"
      <3>1. HasTable(p) /\ (p \in NeverReload \/ \A j \in ks \cup s : ~ShownOn(p, j))
        BY <1>1, <2>4 DEF Suits
      <3> QED
        BY <1>3, <2>1, <2>4, <3>1 DEF Renews
    <2>5. CASE f.do \notin {"part", "keep", "rows", "none"}
      BY <1>1, <1>3, <2>5 DEF Suits, Renews
    <2> QED
      BY <2>2, <2>3, <2>4, <2>5
  <1> QED
    BY <1>3, <1>4, <1>7, <1>8, <1>9 DEF ActOK

LEMMA ActsOfOK ==
    ASSUME role \in Roles, kind \in Followed, NEW p \in PageNames, NEW a \in ActsOf(p)
    PROVE  ActOK(p, kind, a)
  <1>1. ActsOf(p) \subseteq {Follow(kind, b) : b \in PageOf(p).acts}
    BY DEF ActsOf, ActsFor
  <1>2. PICK b \in PageOf(p).acts : a = Follow(kind, b)
    BY <1>1
  <1>3. Offered(p, b)
    BY EveryPage DEF PageOK
  <1> QED
    BY <1>2, <1>3, FollowOK

-----------------------------------------------------------------------------
(***************************************************************************)
(* What a page shows of the user's own changes                             *)
(*                                                                         *)
(* A change is owed to the page from the moment the server makes it, or a  *)
(* value help spoils what is shown, until its handler has gone on (Owing): *)
(* by the call, while its answer is under way or one of its rows is done,  *)
(* or by the dialog that shows what was made.  While nothing is owed, and  *)
(* nothing excuses it, the page shows what the server has now, or has the  *)
(* one load in flight that will bring it, and no copy of it is old.        *)
(***************************************************************************)
\* Call c, or dialog d, owes the page a change.
Owes(c) == c.act.spoils # {} \/ (c.act.kinds # {} /\ (c.phase = "done" \/ c.some))

DialogOwes(d) == d.open /\ (d.act.spoils # {} \/ (d.made /\ d.act.kinds # {}))

Owing == DialogOwes(dialog) \/ \E i \in DOMAIN calls : Owes(calls[i])

\* A call of the page shown, under dialog d; a form that hears is on top as long.
HereOK(d, c) ==
    /\ c.act \in ActsOf(page)
    /\ c.form <=> c.act.way = "form"
    /\ c.form /\ c.heard => d.open /\ d.act = c.act
    /\ ~c.form => c.heard
    /\ c.some => ~c.form

\* A call whose page was left.
AwayOK(c) ==
    /\ ~c.form /\ ~c.some /\ c.heard
    /\ c.act = Call(c.act.kinds, c.act.after) /\ c.act.kinds \subseteq {kind}
    /\ \/ c.act.after = Nothing
       \/ c.act.after.do = "back"
       \/ c.act.after.do = "go" /\ c.act.after.to \in PageNames

CallShape(c) ==
    c \in [act: {c.act}, form: BOOLEAN, heard: BOOLEAN, here: BOOLEAN,
           phase: {"asked", "done", "refused"}, old: BOOLEAN, some: BOOLEAN]

CallOK(d, c) ==
    /\ CallShape(c)
    /\ IF c.here THEN HereOK(d, c) ELSE AwayOK(c)

\* The user's side: the form on top and the calls in flight.
TalkOK ==
    /\ dialog \in [act: {dialog.act}, open: BOOLEAN, made: BOOLEAN]
    /\ dialog.open => dialog.act \in ActsOf(page) /\ dialog.act.way # "call"
    /\ dialog.made => dialog.open
    /\ DOMAIN calls \subseteq CallIds
    /\ \A i \in DOMAIN calls : CallOK(dialog, calls[i])

PageTypes ==
    /\ role \in Roles /\ kind \in Followed /\ page \in PageNames
    /\ loading \in BOOLEAN /\ stuck \in BOOLEAN /\ excused \in BOOLEAN
    /\ shown \in {"none", "old", "now"}
    /\ DOMAIN runs \subseteq RunIds /\ \A i \in DOMAIN runs : runs[i] \in Run

\* Load r has what the page is stuck without yet to bring.
Frees(r) == ~r.quiet /\ \E n \in r.rest : PageOf(page).sticks \subseteq r.loads[n]

\* Load r has the followed data yet to bring, or to show.
Brings(r) ==
    \/ \E n \in r.rest : kind \in r.loads[n]
    \/ PageOf(page).late /\ ~r.quiet /\ r.have

LoadingOK ==
    /\ stuck => PageOf(page).sticks # {}
    /\ ~excused =>
          /\ loading => \E i \in DOMAIN runs : ~runs[i].quiet
          /\ stuck => \E i \in DOMAIN runs : Frees(runs[i])

PageNow ==
    /\ shown = "now" \/ \E i \in DOMAIN runs : Brings(runs[i])
    /\ \A i \in DOMAIN runs : ~runs[i].old

TableNow ==
    /\ \A i \in DOMAIN table.rows : ~table.rows[i].old
    /\ \A c \in table.cache : ~c.old
    /\ \A i \in DOMAIN fetches : ~fetches[i].old

FreshPage  == ~excused /\ Shows(page) /\ ~Owing => PageNow
FreshTable == ~excused /\ ~mixed /\ Lists(page) /\ ~Owing => TableNow

PlainTable == ~Lists(page) => table = NewTable /\ fetches = <<>>

CInv == PageTypes /\ TalkOK /\ LoadingOK /\ FreshPage /\ FreshTable /\ PlainTable

-----------------------------------------------------------------------------
(* Loads.                                                                  *)

LEMMA KeptFacts ==
    ASSUME NEW k, NEW p, NEW loads, NEW n \in DOMAIN loads
    PROVE  /\ k \in loads[n] => n \in Kept(k, p, loads)
           /\ PageOf(p).sticks # {} /\ PageOf(p).sticks \subseteq loads[n] => n \in Kept(k, p, loads)
  BY DEF Kept

LEMMA NewRunFacts ==
    ASSUME NEW p, NEW loads \in Seq(SUBSET Kinds), NEW quiet \in BOOLEAN
    PROVE  /\ NewRun(p, loads, quiet) \in Run
           /\ NewRun(p, loads, quiet).loads = loads
           /\ NewRun(p, loads, quiet).rest = Kept(kind, p, loads)
           /\ ~NewRun(p, loads, quiet).old
           /\ NewRun(p, loads, quiet).quiet = quiet
  <1>1. Kept(kind, p, loads) \in SUBSET (Nat \ {0})
    BY DEF Kept
  <1> QED
    BY <1>1 DEF NewRun, Run

LEMMA TN02Loading ==
    /\ ~HasTable("TN02") /\ PageOf("TN02").sticks = {}
    /\ PageOf("TN02").loads \in Seq(SUBSET Kinds) /\ PageOf("TN02").loads # <<>>
  <1>1. TN02.loads = TN02Loads /\ TN02.rows = {} /\ TN02.sticks = {}
    BY DEF TN02, Page
  <1>2. TN02Loads # <<>>
    BY DEF TN02Loads
  <1> QED
    BY <1>1, <1>2, OwnPages, TN02OK DEF PageOK, HasTable

LEMMA LoadsFacts ==
    ASSUME NEW p \in PageNames
    PROVE  /\ LoadsOf(role, p) \in Seq(SUBSET Kinds)
           /\ Shows(p) => \E n \in DOMAIN LoadsOf(role, p) : kind \in LoadsOf(role, p)[n]
           /\ PageOf(p).sticks # {} =>
                 \E n \in DOMAIN LoadsOf(role, p) : PageOf(p).sticks \subseteq LoadsOf(role, p)[n]
  <1>1. /\ PageOf(p).loads \in Seq(SUBSET Kinds)
        /\ PageOf(p).sticks # {} =>
              \E n \in DOMAIN PageOf(p).loads : PageOf(p).sticks \subseteq PageOf(p).loads[n]
    BY EveryPage DEF PageOK
  <1>2. p = "TN02" => PageOf(p).sticks = {} /\ PageOf(p).loads # <<>>
    BY TN02Loading
  <1>3. LoadsOf(role, p) \in Seq(SUBSET Kinds)
    <2>1. ASSUME NEW S, NEW s \in Seq(S), s # <<>>
          PROVE  Tail(s) \in Seq(S)
      BY <2>1
    <2> QED
      BY <1>1, <1>2, <2>1 DEF LoadsOf
  <1>4. Shows(p) => \E n \in DOMAIN LoadsOf(role, p) : kind \in LoadsOf(role, p)[n]
    BY DEF Shows, ShowsTo, RangeOf
  <1> QED
    BY <1>1, <1>2, <1>3, <1>4 DEF LoadsOf

LEMMA ShowsFacts ==
    ASSUME NEW p \in PageNames
    PROVE  /\ Shows(p) => ShownOn(p, kind)
           /\ Lists(p) => HasTable(p) /\ ~ShownOn(p, kind)
  <1>1. ASSUME Shows(p)
        PROVE  ShownOn(p, kind)
    <2>1. kind \notin PageOf(p).unshown
      BY <1>1 DEF Shows, ShowsTo
    <2>2. PageOf(p).loads \in Seq(SUBSET Kinds)
      BY <2>1, EveryPage DEF PageOK
    <2>3. p = "TN02" => PageOf(p).loads # <<>>
        BY TN02Loading
    <2>4. PICK n \in DOMAIN LoadsOf(role, p) : kind \in LoadsOf(role, p)[n]
      BY <1>1, <2>1, LoadsFacts
    <2>5. \E m \in DOMAIN PageOf(p).loads : kind \in PageOf(p).loads[m]
      <3>1. CASE LoadsOf(role, p) = PageOf(p).loads
        BY <2>4, <3>1
      <3>2. CASE p = "TN02" /\ LoadsOf(role, p) = Tail(PageOf(p).loads)
        <4>1. n + 1 \in DOMAIN PageOf(p).loads /\ PageOf(p).loads[n + 1] = Tail(PageOf(p).loads)[n]
          BY <2>2, <2>3, <2>4, <3>2
        <4> QED
          BY <2>4, <3>2, <4>1
      <3> QED
        BY <3>1, <3>2 DEF LoadsOf
    <2> QED
      BY <2>1, <2>5 DEF ShownOn
  <1>2. Lists(p) => HasTable(p) /\ ~ShownOn(p, kind)
    BY EveryPage DEF Lists, ListsOf, HasTable, PageOK, ShownOn
  <1> QED
    BY <1>1, <1>2

-----------------------------------------------------------------------------
(* Parts of the actions.                                                   *)

LEMMA NothingInFlight ==
    /\ DOMAIN NoneInFlight = {}
    /\ \A i, x : DOMAIN With(NoneInFlight, i, x) = {i} /\ With(NoneInFlight, i, x)[i] = x
  BY DEF NoneInFlight, With

\* The page and its table stay as they are.
LEMMA StayKeeps ==
    ASSUME CInv, UNCHANGED <<role, kind, pageVars, tableVars>>,
           excused' \in BOOLEAN, excused => excused', ~excused' => (Owing => Owing'), TalkOK'
    PROVE  CInv'
  <1>1. UNCHANGED <<role, kind, page, loading, stuck, shown, runs, table, fetches, mixed>>
    BY DEF pageVars, tableVars
  <1>2. PageTypes'
    BY <1>1 DEF CInv, PageTypes
  <1>3. LoadingOK'
    BY <1>1 DEF CInv, LoadingOK, Frees
  <1>4. FreshPage'
    BY <1>1 DEF CInv, FreshPage, PageNow, Brings, Shows
  <1>5. FreshTable'
    BY <1>1 DEF CInv, FreshTable, TableNow, Lists
  <1>6. PlainTable'
    BY <1>1 DEF CInv, PlainTable, Lists
  <1> QED
    BY <1>2, <1>3, <1>4, <1>5, <1>6 DEF CInv

\* Another page is shown; the calls in flight are of pages that were left.
LEMMA EnterKeeps ==
    ASSUME CInv, NEW p \in PageNames, Enter(p), excused' = FALSE, DOMAIN calls' \subseteq CallIds,
           \A i \in DOMAIN calls' : /\ CallShape(calls'[i])
                                    /\ ~calls'[i].here /\ AwayOK(calls'[i])
    PROVE  CInv'
  <1>1. /\ page' = p /\ role' = role /\ kind' = kind /\ dialog' = NoDialog /\ mixed' = FALSE
        /\ loading' = (LoadsOf(role, p) # <<>> /\ PageOf(p).hides)
        /\ stuck' = (PageOf(p).sticks # {}) /\ shown' = "none"
    BY DEF Enter
  <1>2. /\ role \in Roles /\ kind \in Followed /\ PageOK(p, PageOf(p))
    BY EveryPage DEF CInv, PageTypes
  <1>3. TalkOK'
    <2>1. /\ NoDialog \in [act: {NoDialog.act}, open: BOOLEAN, made: BOOLEAN]
          /\ ~NoDialog.open /\ ~NoDialog.made
      BY DEF NoDialog
    <2>2. \A i \in DOMAIN calls' : CallOK(dialog, calls[i])'
      BY <1>1 DEF CallOK, AwayOK, CallShape
    <2> QED
      BY <1>1, <2>1, <2>2 DEF TalkOK
  <1>4. LoadsOf(role, p) = <<>> => ~Shows(p) /\ PageOf(p).sticks = {}
    BY LoadsFacts
  <1>5. PageTypes' /\ LoadingOK' /\ FreshPage'
    <2>1. CASE LoadsOf(role, p) = <<>>
      <3>1. DOMAIN runs' = {}
        BY <2>1, NothingInFlight DEF Enter
      <3>2. PageOf(p).sticks = {} /\ ~loading' /\ ~stuck'
        BY <1>1, <1>2, <1>4, <2>1 DEF PageOK
      <3>3. ~Shows(p)
        BY <1>4, <2>1, ShowsFacts
      <3>4. PageTypes'
        BY <1>1, <1>2, <3>1, <3>2 DEF PageTypes
      <3>5. LoadingOK'
        BY <1>1, <3>2, <3>1 DEF LoadingOK
      <3>6. FreshPage'
        BY <1>1, <3>3 DEF FreshPage, Shows
      <3> QED
        BY <3>4, <3>5, <3>6
    <2>2. CASE LoadsOf(role, p) # <<>>
      <3>1. PICK i \in RunIds :
               runs' = With(NoneInFlight, i, NewRun(p, LoadsOf(role, p), FALSE))
        BY <2>2 DEF Enter
      <3>2. PICK r : r = NewRun(p, LoadsOf(role, p), FALSE)
        OBVIOUS
      <3>3. DOMAIN runs' = {i} /\ runs'[i] = r
        BY <3>1, <3>2, NothingInFlight
      <3>4. /\ r \in Run /\ r.loads = LoadsOf(role, p) /\ r.rest = Kept(kind, p, LoadsOf(role, p))
            /\ ~r.old /\ ~r.quiet
        BY <2>2, <3>2, LoadsFacts, NewRunFacts
      <3>5. PageTypes'
        BY <1>1, <1>2, <3>3, <3>4 DEF PageTypes
      <3>6. PageOf(p).sticks # {} => \E n \in r.rest : PageOf(p).sticks \subseteq r.loads[n]
        BY <2>2, <3>4, LoadsFacts, KeptFacts
      <3>7. LoadingOK'
        BY <1>1, <3>3, <3>4, <3>6 DEF LoadingOK, Frees
      <3>8. Shows(p) => \E n \in r.rest : kind \in r.loads[n]
        BY <2>2, <3>4, LoadsFacts, KeptFacts
      <3>9. FreshPage'
        BY <1>1, <3>3, <3>4, <3>8 DEF FreshPage, PageNow, Brings, Shows
      <3> QED
        BY <3>5, <3>7, <3>9
    <2> QED
      BY <2>1, <2>2
  <1>6. FreshTable' /\ PlainTable'
    <2>1. Lists(page)' <=> Lists(p)
      BY <1>1 DEF Lists
    <2>2. CASE Lists(p)
      <3>1. PICK f : f = [append |-> FALSE, query |-> FirstQuery, page |-> 0,
                          served |-> FALSE, old |-> FALSE]
        OBVIOUS
      <3>2. table'.rows = <<>> /\ table'.cache = {} /\ fetches' = <<f>> /\ ~f.old
        BY <2>2, <3>1 DEF Enter, NewTable
      <3>3. TableNow'
        BY <3>2 DEF TableNow
      <3> QED
        BY <2>1, <2>2, <3>3 DEF FreshTable, PlainTable
    <2>3. CASE ~Lists(p)
      BY <2>1, <2>3 DEF Enter, FreshTable, PlainTable
    <2> QED
      BY <2>2, <2>3
  <1> QED
    BY <1>3, <1>5, <1>6 DEF CInv

LEMMA AwayFacts ==
    ASSUME CInv, NEW d, NEW c, CallOK(d, c)
    PROVE  CallShape(Away(c)) /\ ~Away(c).here /\ AwayOK(Away(c))
  <1> DEFINE ks == IF c.phase = "asked" THEN c.act.kinds ELSE {}
             f  == IF c.heard /\ Leaves(c.act.after) THEN c.act.after ELSE Nothing
  <1>1. /\ c.act.kinds \subseteq {kind}
        /\ \/ f = Nothing
           \/ f.do = "back"
           \/ f.do = "go" /\ f.to \in PageNames
    <2>1. CASE c.here
      <3>1. ActOK(page, kind, c.act)
        BY <2>1, ActsOfOK DEF CInv, PageTypes, CallOK, HereOK
      <3> QED
        BY <3>1 DEF ActOK, Renews, Leaves
    <2>2. CASE ~c.here
      BY <2>2 DEF CallOK, AwayOK
    <2> QED
      BY <2>1, <2>2
  <1>2. Away(c) = [act |-> Call(ks, f), form |-> FALSE, heard |-> TRUE, here |-> FALSE,
                   phase |-> c.phase, old |-> FALSE, some |-> FALSE]
    <2>1. PICK b : b = Call(ks, f)
      OBVIOUS
    <2>2. Away(c) = [NewCall(b, FALSE) EXCEPT !.here = FALSE, !.phase = c.phase]
      BY <2>1 DEF Away
    <2> HIDE DEF ks, f
    <2>3. Away(c) = [act |-> b, form |-> FALSE, heard |-> TRUE, here |-> FALSE,
                     phase |-> c.phase, old |-> FALSE, some |-> FALSE]
      BY <2>2 DEF NewCall
    <2> QED
      BY <2>1, <2>3
  <1>3. Call(ks, f).kinds = ks /\ Call(ks, f).after = f
    BY DEF Call
  <1>4. c.phase \in {"asked", "done", "refused"}
    BY DEF CallOK, CallShape
  <1>5. ks \subseteq {kind}
    BY <1>1
  <1> HIDE DEF ks, f
  <1>6. PICK a, b : a = Away(c) /\ b = Call(ks, f)
    OBVIOUS
  <1>7. /\ a.act = b /\ ~a.form /\ a.heard = TRUE /\ ~a.here /\ ~a.some
        /\ a \in [act: {b}, form: BOOLEAN, heard: BOOLEAN, here: BOOLEAN,
                 phase: {"asked", "done", "refused"}, old: BOOLEAN, some: BOOLEAN]
    BY <1>2, <1>4, <1>6
  <1>8. b = Call(b.kinds, b.after) /\ b.kinds \subseteq {kind} /\ b.after = f
    BY <1>3, <1>5, <1>6
  <1> QED
    BY <1>1, <1>6, <1>7, <1>8 DEF CallShape, AwayOK

LEMMA AsideFacts ==
    ASSUME CInv, NEW d, NEW cs, DOMAIN cs \subseteq CallIds, \A i \in DOMAIN cs : CallOK(d, cs[i]),
           calls' = Aside(cs)
    PROVE  /\ DOMAIN calls' \subseteq CallIds
           /\ \A i \in DOMAIN calls' : /\ CallShape(calls'[i])
                                       /\ ~calls'[i].here /\ AwayOK(calls'[i])
  <1>1. DOMAIN calls' \subseteq DOMAIN cs /\ \A i \in DOMAIN calls' : calls'[i] = Away(cs[i])
    BY DEF Aside
  <1> QED
    BY <1>1, AwayFacts

LEMMA DepartKeeps ==
    ASSUME CInv, NEW d, NEW cs, DOMAIN cs \subseteq CallIds, \A i \in DOMAIN cs : CallOK(d, cs[i]),
           calls' = Aside(cs), NEW f, Depart(f), f.do = "go" => f.to \in PageNames
    PROVE  CInv'
  <1>1. PICK p \in PageNames : Enter(p)
    BY DEF Depart, CameFrom
  <1> QED
    BY <1>1, AsideFacts, EnterKeeps DEF Depart

-----------------------------------------------------------------------------
(* The steps of the table bring nothing old to it.                         *)

FreshRows(t)  == \A i \in DOMAIN t.rows : ~t.rows[i].old
FreshCache(t) == \A c \in t.cache : ~c.old

FreshFetches(fs) == \A i \in DOMAIN fs : ~fs[i].old

LEMMA TableNowParts ==
    TableNow <=> FreshRows(table) /\ FreshCache(table) /\ FreshFetches(fetches)
  BY DEF TableNow, FreshRows, FreshCache, FreshFetches

LEMMA TableNowNext ==
    TableNow' <=> FreshRows(table') /\ FreshCache(table') /\ FreshFetches(fetches')
  BY DEF TableNow, FreshRows, FreshCache, FreshFetches

LEMMA ShowFresh ==
    ASSUME NEW t \in Table, NEW c \in Chunk, NEW append \in BOOLEAN, ~c.old,
           append => FreshRows(t), FreshCache(t)
    PROVE  FreshRows(Show(t, append, c)) /\ FreshCache(Show(t, append, c))
  <1>1. PICK u, s, d : u = Show(t, append, c) /\ s = t.rows /\ d = Chunks(c)
    OBVIOUS
  <1>2. s \in Seq(Chunk) /\ d \in Seq(Chunk) /\ (d = <<>> \/ d = <<c>>)
    BY <1>1, ChunksFacts, TableFields DEF Chunks
  <1>3. CASE append /\ t.kind = "data"
    <2>1. PICK w : w = s \o d
      OBVIOUS
    <2>2. u.rows = w /\ u.cache = t.cache
      BY <1>1, <1>3, <2>1 DEF Show, Table
    <2>3. \A i \in DOMAIN s : ~s[i].old
      BY <1>1, <1>3 DEF FreshRows
    <2>4. \A i \in DOMAIN w : ~w[i].old
      <3>1. CASE d = <<>>
        BY <1>2, <2>1, <2>3, <3>1, NoMore
      <3>2. CASE d = <<c>>
        <4>1. /\ DOMAIN w = 1 .. Len(s) + 1 /\ Len(s) \in Nat /\ DOMAIN s = 1 .. Len(s)
              /\ \A i \in 1 .. Len(s) : w[i] = s[i]
              /\ w[Len(s) + 1] = c
          BY <1>2, <2>1, <3>2, OneMore
        <4>2. ASSUME NEW i \in 1 .. Len(s) + 1
              PROVE  ~w[i].old
          <5>1. CASE i \in 1 .. Len(s)
            BY <2>3, <4>1, <5>1
          <5>2. CASE i = Len(s) + 1
            BY <4>1, <5>2
          <5> QED
            BY <4>1, <5>1, <5>2
        <4> QED
          BY <4>1, <4>2
      <3> QED
        BY <1>2, <3>1, <3>2
    <2> QED
      BY <1>1, <2>2, <2>4 DEF FreshRows, FreshCache
  <1>4. CASE ~(append /\ t.kind = "data")
    <2>1. u.rows = d /\ u.cache = t.cache
      BY <1>1, <1>4 DEF Show, Table
    <2>2. \A i \in DOMAIN d : ~d[i].old
      <3>1. CASE d = <<>>
        BY <3>1
      <3>2. CASE d = <<c>>
        BY <3>2
      <3> QED
        BY <1>2, <3>1, <3>2
    <2> QED
      BY <1>1, <2>1, <2>2 DEF FreshRows, FreshCache
  <1> QED
    BY <1>3, <1>4

LEMMA AskingFresh ==
    ASSUME NEW t \in Table, NEW append \in BOOLEAN, append => FreshRows(t), FreshCache(t)
    PROVE  /\ FreshRows(Asking(t, append)) /\ FreshCache(Asking(t, append))
           /\ append => FreshRows(Passing(t)) /\ FreshCache(Passing(t))
           /\ ~FetchOf(t, append).old
  <1>1. Asking(t, append).rows = (IF append THEN t.rows ELSE <<>>) /\ Asking(t, append).cache = t.cache
    BY DEF Asking, Table
  <1>2. Passing(t).rows = t.rows /\ Passing(t).cache = t.cache
    BY DEF Passing, Table
  <1>3. ~FetchOf(t, append).old
    BY DEF FetchOf
  <1>4. DOMAIN <<>> = {}
    OBVIOUS
  <1> QED
    BY <1>1, <1>2, <1>3, <1>4 DEF FreshRows, FreshCache

LEMMA FetchFresh ==
    ASSUME TablesTypeOK, NEW t \in Table, NEW append \in BOOLEAN, FetchData(t, append),
           MayFetch(t, append), append => FreshRows(t), FreshCache(t), FreshFetches(fetches)
    PROVE  TableNow'
  <1>1. CASE append /\ table' = Passing(t) /\ fetches' = fetches
    BY <1>1, AskingFresh, TableNowNext
  <1>2. ASSUME NEW c \in t.cache, table' = Show(Asking(t, append), append, c), fetches' = fetches
        PROVE  TableNow'
    <2>1. c \in Chunk /\ ~c.old /\ Asking(t, append) \in Table
      BY TableFields, AskingFacts DEF FreshCache
    <2> QED
      BY <1>2, <2>1, AskingFresh, ShowFresh, TableNowNext
  <1>3. CASE table' = Asking(t, append) /\ fetches' = Append(fetches, FetchOf(t, append))
    <2>1. PICK f, fs, gs : f = FetchOf(t, append) /\ fs = fetches /\ gs = fetches'
      OBVIOUS
    <2>2. fs \in Seq(Fetch) /\ ~f.old /\ gs = Append(fs, f) /\ f \in Fetch
      BY <1>3, <2>1, AskingFresh, AskingFacts DEF TablesTypeOK
    <2>3. \A i \in DOMAIN gs : (i \in DOMAIN fs /\ gs[i] = fs[i]) \/ gs[i] = f
      BY <2>2
    <2>4. FreshFetches(fetches')
      BY <2>1, <2>2, <2>3 DEF FreshFetches
    <2> QED
      BY <1>3, <2>4, AskingFresh, TableNowNext
  <1> QED
    BY <1>1, <1>2, <1>3, FetchOutcome

LEMMA RemovedFresh ==
    ASSUME NEW fs \in Seq(Fetch), NEW i \in DOMAIN fs, FreshFetches(fs)
    PROVE  FreshFetches(RemoveAt(fs, i))
  <1>1. PICK a, b, r : a = SubSeq(fs, 1, i - 1) /\ b = SubSeq(fs, i + 1, Len(fs)) /\ r = RemoveAt(fs, i)
    OBVIOUS
  <1>2. i \in 1 .. Len(fs) /\ Len(fs) \in Nat
    OBVIOUS
  <1>3. /\ a \in Seq(Fetch) /\ Len(a) = i - 1 /\ \A j \in 1 .. i - 1 : a[j] = fs[j]
        /\ b \in Seq(Fetch) /\ Len(b) = Len(fs) - i /\ \A j \in 1 .. Len(fs) - i : b[j] = fs[i + j]
    <2>1. /\ a \in Seq(Fetch) /\ Len(a) = i - 1 /\ \A j \in 1 .. i - 1 : a[j] = fs[j]
      BY ONLY fs \in Seq(Fetch), <1>1, <1>2
    <2>2. b \in Seq(Fetch) /\ Len(b) = Len(fs) - i
      BY ONLY fs \in Seq(Fetch), <1>1, <1>2
    <2>3. \A j \in 1 .. Len(fs) - i : b[j] = fs[i + j]
      BY ONLY fs \in Seq(Fetch), <1>1, <1>2
    <2> QED
      BY <2>1, <2>2, <2>3
  <1>4. r = a \o b
    BY <1>1 DEF RemoveAt
  <1>5. \A j \in DOMAIN r : \E k \in DOMAIN fs : r[j] = fs[k]
    <2>1. ASSUME NEW j \in DOMAIN r
          PROVE  \E k \in DOMAIN fs : r[j] = fs[k]
      <3>1. j \in 1 .. Len(fs) - 1
        BY <1>2, <1>3, <1>4
      <3>2. CASE j <= i - 1
        <4>1. r[j] = fs[j] /\ j \in DOMAIN fs
          BY <1>2, <1>3, <1>4, <3>1, <3>2
        <4> QED
          BY <4>1
      <3>3. CASE j > i - 1
        <4>1. r[j] = b[j - (i - 1)]
          BY <1>2, <1>3, <1>4, <3>1, <3>3
        <4>2. j - (i - 1) \in 1 .. Len(fs) - i /\ j + 1 \in DOMAIN fs /\ i + (j - (i - 1)) = j + 1
          BY <1>2, <3>1, <3>3
        <4>3. b[j - (i - 1)] = fs[j + 1]
          BY <1>3, <4>2
        <4> QED
          BY <4>1, <4>2, <4>3
      <3> QED
        BY <3>1, <3>2, <3>3
    <2> QED
      BY <2>1
  <1> QED
    BY <1>1, <1>5 DEF FreshFetches

\* A refreshed table has forgotten what it had cached.
LEMMA RefreshFresh ==
    ASSUME Tidy, Refresh, ~mixed'
    PROVE  TableNow'
  <1>1. table \in Table /\ Reset(table) \in Table /\ TablesTypeOK
    BY TidyParts, ResetType, TablesAssumption DEF Tidy
  <1>2. FetchData(Reset(table), FALSE) /\ fetches = <<>>
    BY DEF Refresh
  <1>3. FreshCache(Reset(table))
    BY <1>1 DEF Reset, Table, FreshCache
  <1>4. FreshFetches(fetches)
    BY <1>2 DEF FreshFetches
  <1> QED
    BY <1>1, <1>2, <1>3, <1>4, FetchFresh DEF MayFetch

LEMMA ArriveFresh ==
    ASSUME Tidy, TableNow, NEW i \in DOMAIN fetches, Arrive(i)
    PROVE  TableNow'
  <1>1. table \in Table /\ fetches \in Seq(Fetch) /\ fetches[i] \in Fetch
    BY TidyParts
  <1>2. PICK f, c : f = fetches[i] /\ c = [query |-> f.query, page |-> f.page, old |-> f.old]
    OBVIOUS
  <1>3. c \in Chunk /\ ~c.old /\ f.append \in BOOLEAN
    BY <1>1, <1>2, TableNowParts DEF Fetch, Chunk, FreshFetches
  <1>4. PICK t : t = Remember(table, c)
    OBVIOUS
  <1>5. /\ t \in Table /\ t.rows = table.rows
        /\ t.cache = {d \in table.cache : d.query # c.query \/ d.page # c.page} \cup {c}
    BY <1>1, <1>3, <1>4, RememberFacts DEF Remember, Table
  <1>6. FreshRows(t) /\ FreshCache(t)
    BY <1>3, <1>5, TableNowParts DEF FreshRows, FreshCache
  <1>7. table' = Show(t, f.append, c) /\ fetches' = RemoveAt(fetches, i)
    BY <1>2, <1>4 DEF Arrive
  <1> QED
    BY <1>1, <1>3, <1>5, <1>6, <1>7, ShowFresh, RemovedFresh, TableNowParts, TableNowNext

LEMMA StepFresh ==
    ASSUME Tidy, TableStep, ~mixed', ~mixed => TableNow
    PROVE  TableNow'
  <1>1. table \in Table /\ fetches \in Seq(Fetch) /\ TablesTypeOK
    BY TidyParts DEF Tidy
  <1>2. CASE Refresh
    BY <1>2, RefreshFresh
  <1>3. ASSUME NEW q \in Queries, Ask(q)
        PROVE  TableNow'
    <2>1. PICK t : t = [table EXCEPT !.query = q]
      OBVIOUS
    <2>2. t \in Table /\ t.cache = table.cache
      BY <1>1, <2>1 DEF Table
    <2>3. FetchData(t, FALSE) /\ TableNow
      BY <1>3, <2>1 DEF Ask
    <2>4. FreshCache(t) /\ FreshFetches(fetches)
      BY <2>2, <2>3, TableNowParts DEF FreshCache
    <2> QED
      BY <1>1, <2>2, <2>3, <2>4, FetchFresh DEF MayFetch
  <1>4. CASE LoadMore
    BY <1>1, <1>4, TableNowParts, FetchFresh DEF LoadMore, MayFetch
  <1>5. ASSUME NEW i \in DOMAIN fetches, ServeFetch(i)
        PROVE  TableNow'
    <2>1. table' = table /\ fetches' = [fetches EXCEPT ![i].served = TRUE] /\ TableNow
      BY <1>5 DEF ServeFetch
    <2>2. \A j \in DOMAIN fetches : fetches[j] \in Fetch
      BY <1>1
    <2>3. DOMAIN fetches' = DOMAIN fetches /\ \A j \in DOMAIN fetches : fetches'[j].old = fetches[j].old
      BY <2>1, <2>2 DEF Fetch
    <2> QED
      BY <2>1, <2>3 DEF TableNow
  <1>6. ASSUME NEW i \in DOMAIN fetches, Arrive(i)
        PROVE  TableNow'
    BY <1>6, ArriveFresh DEF Arrive
  <1>7. ASSUME NEW i \in DOMAIN fetches, FailFetch(i)
        PROVE  TableNow'
    <2>1. /\ table' = [table EXCEPT !.kind = "error", !.rows = <<>>, !.busy = @ \ {table.pageNo}]
          /\ fetches' = RemoveAt(fetches, i) /\ TableNow
      BY <1>7 DEF FailFetch
    <2>2. table'.rows = <<>> /\ table'.cache = table.cache
      BY <1>1, <2>1 DEF Table
    <2>3. FreshRows(table') /\ FreshCache(table')
      BY <2>1, <2>2, TableNowParts DEF FreshRows, FreshCache
    <2> QED
      BY <1>1, <2>1, <2>3, RemovedFresh, TableNowParts, TableNowNext
  <1> QED
    BY <1>2, <1>3, <1>4, <1>5, <1>6, <1>7 DEF TableStep, TableUse, TableAnswer

-----------------------------------------------------------------------------
(* What a handler goes on with.  What the act owes it pays, by loading     *)
(* again what the page shows of it; an act that owes nothing leaves what   *)
(* others owe.                                                             *)

LEMMA StartFacts ==
    ASSUME PageTypes, NEW r \in Run, NEW ex \in BOOLEAN, StartRun(r, ex)
    PROVE  /\ UNCHANGED <<role, kind, page, stuck, shown, table, fetches, mixed>>
           /\ PageTypes'
           /\ loading' = (loading \/ (~r.quiet /\ PageOf(page).hides))
           /\ excused' = IF ~AllDone(runs) THEN TRUE
                         ELSE IF r.quiet THEN excused \/ ex ELSE FALSE
           /\ AllDone(runs) => \E i \in RunIds : DOMAIN runs' = {i} /\ runs'[i] = r
  <1>1. PICK i \in RunIds \ DOMAIN runs : runs' = With(runs, i, r)
    BY DEF StartRun
  <1>2. /\ UNCHANGED <<role, kind, page, stuck, shown, table, fetches, mixed>>
        /\ loading' = (loading \/ (~r.quiet /\ PageOf(page).hides))
        /\ excused' = IF ~AllDone(runs) THEN TRUE
                      ELSE IF r.quiet THEN excused \/ ex ELSE FALSE
    BY DEF StartRun, tableVars
  <1>3. /\ DOMAIN runs' = DOMAIN runs \cup {i} /\ runs'[i] = r
        /\ \A j \in DOMAIN runs : runs'[j] = runs[j]
    BY <1>1 DEF With
  <1>4. loading' \in BOOLEAN /\ excused' \in BOOLEAN
    <2>1. excused \in BOOLEAN
      BY DEF PageTypes
    <2> QED
      BY <1>2, <2>1
  <1>5. PageTypes'
    BY <1>2, <1>3, <1>4 DEF PageTypes
  <1>6. AllDone(runs) => DOMAIN runs' = {i} /\ runs'[i] = r
    BY <1>3 DEF AllDone
  <1> QED
    BY <1>2, <1>5, <1>6

LEMMA ReloadKeeps ==
    ASSUME CInv, NEW f, f.do = "reload", NEW old \in BOOLEAN, NEW ex \in BOOLEAN,
           Then(f, old, ex), ~HasTable(page), TalkOK'
    PROVE  CInv'
  <1>1. PICK r : r = NewRun(page, LoadsOf(role, page), FALSE)
    OBVIOUS
  <1>2. page \in PageNames /\ PageTypes
    BY DEF CInv, PageTypes
  <1>3. /\ r \in Run /\ r.loads = LoadsOf(role, page) /\ ~r.old /\ ~r.quiet
        /\ r.rest = Kept(kind, page, LoadsOf(role, page))
    BY <1>1, <1>2, LoadsFacts, NewRunFacts
  <1>4. StartRun(r, ex)
    BY <1>1 DEF Then
  <1>5. /\ UNCHANGED <<role, kind, page, stuck, shown, table, fetches, mixed>> /\ PageTypes'
        /\ ~excused' => \E i \in RunIds : DOMAIN runs' = {i} /\ runs'[i] = r
    BY <1>2, <1>3, <1>4, StartFacts
  <1>6. LoadingOK'
    <2>1. stuck' => PageOf(page).sticks # {}
      BY <1>5 DEF CInv, LoadingOK
    <2>2. PageOf(page).sticks # {} => \E n \in r.rest : PageOf(page).sticks \subseteq r.loads[n]
      BY <1>2, <1>3, LoadsFacts, KeptFacts
    <2> QED
      BY <1>3, <1>5, <2>1, <2>2 DEF LoadingOK, Frees
  <1>7. FreshPage'
    <2>1. Shows(page) => \E n \in r.rest : kind \in r.loads[n]
      BY <1>2, <1>3, LoadsFacts, KeptFacts
    <2> QED
      BY <1>3, <1>5, <2>1 DEF FreshPage, PageNow, Brings, Shows
  <1>8. FreshTable' /\ PlainTable'
    BY <1>2, <1>5, ShowsFacts DEF CInv, FreshTable, PlainTable, Lists
  <1> QED
    BY <1>5, <1>6, <1>7, <1>8 DEF CInv

LEMMA PartKeeps ==
    ASSUME CInv, NEW f, f.do = "part", NEW old \in BOOLEAN, NEW ex \in BOOLEAN,
           Then(f, old, ex), ~HasTable(page), f.kinds \subseteq {kind}, TalkOK',
           \/ kind \in f.kinds
           \/ ~ShownOn(page, kind)
           \/ ex \/ (Owing => Owing')
    PROVE  CInv'
  <1>1. PICK r : r = NewRun(page, <<f.kinds>>, TRUE)
    OBVIOUS
  <1>2. page \in PageNames /\ PageTypes /\ <<f.kinds>> \in Seq(SUBSET Kinds)
    BY ConsoleAssumption DEF CInv, PageTypes
  <1>3. /\ r \in Run /\ r.loads = <<f.kinds>> /\ ~r.old /\ r.quiet
        /\ r.rest = Kept(kind, page, <<f.kinds>>)
    BY <1>1, <1>2, NewRunFacts
  <1>4. StartRun(r, ex)
    BY <1>1 DEF Then
  <1>5. /\ UNCHANGED <<role, kind, page, stuck, shown, table, fetches, mixed>> /\ PageTypes'
        /\ ~excused' => \E i \in RunIds : DOMAIN runs' = {i} /\ runs'[i] = r
        /\ loading' = loading
        /\ ~excused' => ~excused /\ ~ex /\ AllDone(runs)
    BY <1>2, <1>3, <1>4, StartFacts DEF PageTypes
  <1>6. LoadingOK'
    BY <1>5 DEF CInv, LoadingOK, AllDone
  <1>7. FreshPage'
    <2>1. SUFFICES ASSUME ~excused', Shows(page), ~Owing'
                   PROVE  PageNow'
      BY <1>5 DEF FreshPage, Shows
    <2>2. CASE kind \in f.kinds
      <3>1. 1 \in r.rest /\ kind \in r.loads[1]
        BY <1>3, <2>2, KeptFacts
      <3> QED
        BY <1>3, <1>5, <2>1, <3>1 DEF PageNow, Brings
    <2>3. CASE Owing => Owing'
      <3>1. shown = "now"
        BY <1>5, <2>1, <2>3 DEF CInv, FreshPage, PageNow, AllDone
      <3> QED
        BY <1>3, <1>5, <2>1, <3>1 DEF PageNow
    <2> QED
      BY <1>2, <1>5, <2>1, <2>2, <2>3, ShowsFacts
  <1>8. FreshTable' /\ PlainTable'
    BY <1>2, <1>5, ShowsFacts DEF CInv, FreshTable, PlainTable, Lists
  <1> QED
    BY <1>5, <1>6, <1>7, <1>8 DEF CInv

LEMMA KeepKeeps ==
    ASSUME CInv, NEW f, f.do = "keep", NEW old \in BOOLEAN, NEW ex \in BOOLEAN,
           Then(f, old, ex), ~HasTable(page), TalkOK',
           \/ kind \in f.kinds
           \/ ~ShownOn(page, kind)
           \/ ex \/ (Owing => Owing')
    PROVE  CInv'
  <1>1. page \in PageNames /\ PageTypes
    BY DEF CInv, PageTypes
  <1>2. /\ UNCHANGED <<role, kind, page, loading, stuck, runs, table, fetches, mixed>>
        /\ shown' = (IF f.kinds = {} THEN shown ELSE Put(old))
        /\ excused' = (excused \/ ex \/ old \/ ~AllDone(runs))
    BY DEF Then, tableVars
  <1>3. PageTypes'
    <2>1. shown' \in {"none", "old", "now"}
      BY <1>1, <1>2 DEF PageTypes, Put
    <2>2. excused' \in BOOLEAN
      BY <1>1, <1>2 DEF PageTypes
    <2> QED
      BY <1>1, <1>2, <2>1, <2>2 DEF PageTypes
  <1>4. LoadingOK'
    BY <1>2 DEF CInv, LoadingOK, Frees
  <1>5. FreshPage'
    <2>1. SUFFICES ASSUME ~excused', Shows(page), ~Owing'
                   PROVE  PageNow'
      BY <1>2 DEF FreshPage, Shows
    <2>2. ~excused /\ ~ex /\ ~old /\ DOMAIN runs = {}
      BY <1>2, <2>1 DEF AllDone
    <2>3. shown' = "now"
      <3>1. CASE f.kinds # {}
        BY <1>2, <2>2, <3>1 DEF Put
      <3>2. CASE Owing => Owing'
        BY <1>2, <2>1, <2>2, <3>2 DEF CInv, FreshPage, PageNow, Put
      <3> QED
        BY <1>1, <2>1, <2>2, <3>1, <3>2, ShowsFacts
    <2> QED
      BY <1>2, <2>2, <2>3 DEF PageNow
  <1>6. FreshTable' /\ PlainTable'
    BY <1>1, <1>2, ShowsFacts DEF CInv, FreshTable, PlainTable, Lists
  <1> QED
    BY <1>3, <1>4, <1>5, <1>6 DEF CInv

LEMMA RowsKeeps ==
    ASSUME CInv, Tidy, NEW f, f.do = "rows", NEW old \in BOOLEAN, NEW ex \in BOOLEAN,
           Then(f, old, ex), TalkOK', Shows(page) => ex \/ (Owing => Owing')
    PROVE  CInv'
  <1>1. page \in PageNames /\ PageTypes
    BY DEF CInv, PageTypes
  <1>2. /\ UNCHANGED <<role, kind, page, loading, stuck, shown, runs>>
        /\ excused' = (excused \/ ex)
        /\ IF Lists(page) THEN Refresh ELSE UNCHANGED <<table, fetches, mixed>>
    BY DEF Then, pageVars, tableVars
  <1>3. PageTypes'
    BY <1>1, <1>2 DEF PageTypes
  <1>4. LoadingOK'
    BY <1>2 DEF CInv, LoadingOK, Frees
  <1>5. FreshPage'
    <2>1. SUFFICES ASSUME ~excused', Shows(page), ~Owing'
                   PROVE  PageNow'
      BY <1>2 DEF FreshPage, Shows
    <2>2. PageNow
      BY <1>2, <2>1 DEF CInv, FreshPage
    <2> QED
      BY <1>2, <2>2 DEF PageNow, Brings
  <1>6. FreshTable' /\ PlainTable'
    <2>1. Lists(page)' <=> Lists(page)
      BY <1>2 DEF Lists
    <2>2. CASE Lists(page)
      BY <1>2, <2>1, <2>2, RefreshFresh DEF FreshTable, PlainTable
    <2>3. CASE ~Lists(page)
      BY <1>2, <2>1, <2>3 DEF CInv, FreshTable, PlainTable
    <2> QED
      BY <2>2, <2>3
  <1> QED
    BY <1>3, <1>4, <1>5, <1>6 DEF CInv

\* The page and its table stay, and nothing of the followed kind is owed or shown.
LEMMA NothingKeeps ==
    ASSUME CInv, UNCHANGED <<role, kind, pageVars, tableVars>>, TalkOK',
           excused' \in BOOLEAN, excused => excused',
           ~excused' => (~Shows(page) /\ ~Lists(page)) \/ (Owing => Owing')
    PROVE  CInv'
  <1>1. UNCHANGED <<role, kind, page, loading, stuck, shown, runs, table, fetches, mixed>>
    BY DEF pageVars, tableVars
  <1>2. CASE ~excused' => (Owing => Owing')
    BY <1>2, StayKeeps
  <1>3. CASE ~Shows(page) /\ ~Lists(page)
    <2>1. PageTypes' /\ LoadingOK'
      BY <1>1 DEF CInv, PageTypes, LoadingOK, Frees
    <2>2. FreshPage' /\ FreshTable' /\ PlainTable'
      BY <1>1, <1>3 DEF CInv, FreshPage, FreshTable, PlainTable, Shows, Lists
    <2> QED
      BY <2>1, <2>2 DEF CInv
  <1> QED
    BY <1>2, <1>3

LEMMA ThenKeeps ==
    ASSUME CInv, Tidy, NEW a, ActOK(page, kind, a), NEW old \in BOOLEAN, NEW ex \in BOOLEAN,
           Then(a.after, old, ex), ~Leaves(a.after), TalkOK',
           Forgets(a) \/ (a.kinds = {} /\ a.spoils = {}) => ex \/ (Owing => Owing')
    PROVE  CInv'
  <1>1. PICK f, ks : f = a.after /\ ks = a.kinds \cup a.spoils
    OBVIOUS
  <1>2. /\ page \in PageNames /\ Renews(page, kind, ks, f) /\ f.kinds \subseteq {kind}
        /\ f.do \notin {"go", "back"} /\ Then(f, old, ex)
        /\ ks = {} => ex \/ (Owing => Owing')
    BY <1>1 DEF CInv, PageTypes, ActOK, Leaves
  <1>a. /\ page \in NeverReload /\ ks # {}
        /\ f.do = "none" \/ (f.do = "rows" /\ ~Lists(page))
        => ex \/ (Owing => Owing')
    BY <1>1 DEF Forgets
  <1>3. CASE f.do = "reload" /\ ~HasTable(page)
    BY <1>2, <1>3, ReloadKeeps
  <1>4. CASE f.do \in {"part", "keep"} /\ ~HasTable(page)
    <2>1. \/ kind \in f.kinds
          \/ ~ShownOn(page, kind)
          \/ ex \/ (Owing => Owing')
      BY <1>2, <1>4 DEF Renews
    <2> QED
      BY <1>2, <1>4, <2>1, PartKeeps, KeepKeeps
  <1>5. CASE f.do = "rows" /\ HasTable(page)
    <2>1. page \in NeverReload \/ ks = {} \/ ~ShownOn(page, kind)
      BY <1>2, <1>5 DEF Renews
    <2>2. CASE Lists(page)
      BY <1>2, <1>5, <2>2, ShowsFacts, RowsKeeps
    <2>3. CASE ~Lists(page)
      <3>1. Shows(page) => ex \/ (Owing => Owing')
        BY <1>2, <1>a, <1>5, <2>1, <2>3, ShowsFacts
      <3> QED
        BY <1>2, <1>5, <3>1, RowsKeeps
    <2> QED
      BY <2>2, <2>3
  <1>6. CASE f.do = "none"
    <2>1. /\ UNCHANGED <<role, kind, pageVars, tableVars>>
          /\ excused' = (excused \/ ex)
      BY <1>2, <1>6 DEF Then, Stay
    <2>2. excused \in BOOLEAN
      BY DEF CInv, PageTypes
    <2>3. page \in NeverReload \/ ks = {} \/ (~ShownOn(page, kind) /\ ~ListsOf(kind, page))
      BY <1>2, <1>6 DEF Renews
    <2>4. ~excused' => (~Shows(page) /\ ~Lists(page)) \/ (Owing => Owing')
      BY <1>2, <1>a, <1>6, <2>1, <2>3, ShowsFacts DEF Lists
    <2> QED
      BY <2>1, <2>2, <2>4, NothingKeeps
  <1> QED
    BY <1>2, <1>3, <1>4, <1>5, <1>6 DEF Renews

-----------------------------------------------------------------------------
(* The loads of the page.                                                  *)

LEMMA ServeRunKeeps ==
    ASSUME CInv, NEW i \in DOMAIN runs, ServeRun(i)
    PROVE  CInv'
  <1>1. /\ UNCHANGED <<role, kind, page, loading, stuck, shown, dialog, calls, excused, table,
                       fetches, mixed>>
        /\ runs' = [runs EXCEPT ![i].served = TRUE]
    BY DEF ServeRun, tableVars
  <1>2. \A j \in DOMAIN runs : runs[j] \in Run
    BY DEF CInv, PageTypes
  <1>3. DOMAIN runs' = DOMAIN runs
    BY <1>1
  <1>4. \A j \in DOMAIN runs : /\ runs'[j] \in Run /\ runs'[j].quiet = runs[j].quiet
                               /\ runs'[j].loads = runs[j].loads /\ runs'[j].rest = runs[j].rest
                               /\ runs'[j].have = runs[j].have /\ runs'[j].old = runs[j].old
    BY <1>1, <1>2 DEF Run
  <1>5. PageTypes'
    BY <1>1, <1>3, <1>4 DEF CInv, PageTypes
  <1>6. LoadingOK'
    BY <1>1, <1>3, <1>4 DEF CInv, LoadingOK, Frees
  <1>7. Owing' <=> Owing
    BY <1>1 DEF Owing
  <1>8. FreshPage'
    BY <1>1, <1>3, <1>4, <1>7 DEF CInv, FreshPage, PageNow, Brings, Shows
  <1>9. TalkOK' /\ FreshTable' /\ PlainTable'
    BY <1>1, <1>7 DEF CInv, TalkOK, CallOK, CallShape, HereOK, AwayOK, ActsOf, FreshTable,
                      TableNow, PlainTable, Lists
  <1> QED
    BY <1>5, <1>6, <1>8, <1>9 DEF CInv

\* What a load brings: nothing is lost that it had not brought, or shown, yet.
LEMMA ArriveRunKeeps ==
    ASSUME CInv, NEW i \in DOMAIN runs, ArriveRun(i)
    PROVE  CInv'
  <1>1. PICK r : r = runs[i]
    OBVIOUS
  <1>2. PICK n \in NextOf(r) :
           LET it   == kind \in r.loads[n]
               have == r.have \/ it
               last == r.rest = {n}
               puts == IF PageOf(page).late /\ ~r.quiet THEN last /\ have ELSE it
           IN  /\ shown' = IF puts THEN Put(r.old) ELSE shown
               /\ stuck' = (stuck /\ ~(PageOf(page).sticks \subseteq r.loads[n]))
               /\ runs' = IF last THEN Without(runs, i)
                          ELSE [runs EXCEPT ![i] = [r EXCEPT !.rest = @ \ {n}, !.have = have,
                                                             !.served = FALSE]]
               /\ loading' = IF last /\ ~r.quiet THEN stuck' ELSE loading
    BY <1>1 DEF ArriveRun
  <1>3. UNCHANGED <<role, kind, page, dialog, calls, excused, table, fetches, mixed>>
    BY DEF ArriveRun, tableVars
  <1>4. PICK have, last : have = (r.have \/ kind \in r.loads[n]) /\ last = (r.rest = {n})
    OBVIOUS
  <1>5. PICK s : s = [r EXCEPT !.rest = @ \ {n}, !.have = have, !.served = FALSE]
    OBVIOUS
  <1>6. r \in Run /\ n \in r.rest /\ r.have \in BOOLEAN
    BY <1>1 DEF CInv, PageTypes, Run, NextOf
  <1>7. have \in BOOLEAN /\ last \in BOOLEAN
    BY <1>4, <1>6
  <1>8. /\ s \in Run /\ s.loads = r.loads /\ s.rest = r.rest \ {n} /\ s.have = have
        /\ s.old = r.old /\ s.quiet = r.quiet
    BY <1>5, <1>6, <1>7 DEF Run
  <1>9. runs' = IF last THEN Without(runs, i) ELSE [runs EXCEPT ![i] = s]
    BY <1>2, <1>4, <1>5
  <1>10. /\ last => DOMAIN runs' = DOMAIN runs \ {i}
         /\ ~last => DOMAIN runs' = DOMAIN runs /\ runs'[i] = s
         /\ \A j \in DOMAIN runs \ {i} : j \in DOMAIN runs' /\ runs'[j] = runs[j]
    BY <1>9 DEF Without, Restrict
  <1>11. PageTypes'
    <2>1. loading' \in BOOLEAN /\ stuck' \in BOOLEAN /\ shown' \in {"none", "old", "now"}
      BY <1>2 DEF CInv, PageTypes, Put
    <2>2. DOMAIN runs' \subseteq RunIds /\ \A j \in DOMAIN runs' : runs'[j] \in Run
      BY <1>8, <1>10 DEF CInv, PageTypes
    <2> QED
      BY <1>3, <2>1, <2>2 DEF CInv, PageTypes
  <1>12. LoadingOK'
    <2>1. stuck' => PageOf(page).sticks # {}
      BY <1>2 DEF CInv, LoadingOK
    <2>2. ASSUME ~excused, stuck'
          PROVE  \E j \in DOMAIN runs' : ~runs'[j].quiet /\ \E m \in runs'[j].rest :
                                            PageOf(page).sticks \subseteq runs'[j].loads[m]
      <3>1. stuck /\ ~(PageOf(page).sticks \subseteq r.loads[n])
        BY <1>2, <2>2
      <3>2. PICK j \in DOMAIN runs : Frees(runs[j])
        BY <2>2, <3>1 DEF CInv, LoadingOK
      <3>3. CASE j = i
        <4>1. PICK m \in r.rest : PageOf(page).sticks \subseteq r.loads[m]
          BY <1>1, <3>2, <3>3 DEF Frees
        <4>2. m # n /\ ~last /\ m \in s.rest /\ ~s.quiet
          BY <1>1, <1>4, <1>8, <3>1, <3>2, <3>3, <4>1 DEF Frees
        <4> QED
          BY <1>8, <1>10, <4>1, <4>2
      <3>4. CASE j # i
        BY <1>10, <3>2, <3>4 DEF Frees
      <3> QED
        BY <3>3, <3>4
    <2>3. ASSUME ~excused, loading'
          PROVE  \E j \in DOMAIN runs' : ~runs'[j].quiet
      <3>1. CASE last /\ ~r.quiet
        BY <1>2, <1>4, <2>2, <2>3, <3>1
      <3>2. CASE ~(last /\ ~r.quiet)
        <4>1. PICK j \in DOMAIN runs : ~runs[j].quiet
          BY <1>2, <1>4, <2>3, <3>2 DEF CInv, LoadingOK
        <4> QED
          BY <1>1, <1>8, <1>10, <3>2, <4>1
      <3> QED
        BY <3>1, <3>2
    <2> QED
      BY <1>3, <2>1, <2>2, <2>3 DEF LoadingOK, Frees
  <1>13. Owing' <=> Owing
    BY <1>3 DEF Owing
  <1>14. FreshPage'
    <2>1. SUFFICES ASSUME ~excused, Shows(page), ~Owing
                   PROVE  PageNow'
      BY <1>3, <1>13 DEF FreshPage, Shows
    <2>2. /\ \A j \in DOMAIN runs : ~runs[j].old
          /\ shown = "now" \/ \E j \in DOMAIN runs : Brings(runs[j])
      BY <2>1 DEF CInv, FreshPage, PageNow
    <2>3. ~r.old
      BY <1>1, <2>2
    <2>4. \A j \in DOMAIN runs' : ~runs'[j].old
      BY <1>8, <1>10, <2>2, <2>3
    <2>5. \/ shown' = "now"
          \/ \E j \in DOMAIN runs' : \/ \E m \in runs'[j].rest : kind \in runs'[j].loads[m]
                                     \/ PageOf(page).late /\ ~runs'[j].quiet /\ runs'[j].have
      <3> DEFINE puts == IF PageOf(page).late /\ ~r.quiet THEN last /\ have
                         ELSE kind \in r.loads[n]
      <3>1. CASE puts
        BY <1>2, <1>4, <2>3, <3>1 DEF Put
      <3>2. CASE ~puts /\ shown = "now"
        BY <1>2, <1>4, <3>2
      <3>3. ASSUME ~puts, NEW j \in DOMAIN runs, Brings(runs[j])
            PROVE  \E k \in DOMAIN runs' : \/ \E m \in runs'[k].rest : kind \in runs'[k].loads[m]
                                           \/ PageOf(page).late /\ ~runs'[k].quiet /\ runs'[k].have
        <4>1. CASE j # i
          BY <1>10, <3>3, <4>1 DEF Brings
        <4>2. CASE j = i /\ PageOf(page).late /\ ~r.quiet
          <5>1. ~(last /\ have)
            BY <3>3, <4>2
          <5>2. CASE have
            BY <1>8, <1>10, <4>2, <5>1, <5>2
          <5>3. CASE ~have
            <6>1. PICK m \in r.rest : kind \in r.loads[m]
              BY <1>1, <1>4, <3>3, <4>2, <5>3 DEF Brings
            <6>2. m # n /\ ~last /\ m \in s.rest
              BY <1>4, <1>8, <5>3, <6>1
            <6> QED
              BY <1>8, <1>10, <6>1, <6>2
          <5> QED
            BY <5>2, <5>3
        <4>3. CASE j = i /\ ~(PageOf(page).late /\ ~r.quiet)
          <5>1. kind \notin r.loads[n]
            BY <3>3, <4>3
          <5>2. PICK m \in r.rest : kind \in r.loads[m]
            BY <1>1, <3>3, <4>3 DEF Brings
          <5>3. m # n /\ ~last /\ m \in s.rest
            BY <1>4, <1>8, <5>1, <5>2
          <5> QED
            BY <1>8, <1>10, <5>2, <5>3
        <4> QED
          BY <4>1, <4>2, <4>3
      <3> HIDE DEF puts
      <3> QED
        BY <2>2, <3>1, <3>2, <3>3
    <2> QED
      BY <1>3, <2>4, <2>5 DEF PageNow, Brings
  <1>15. TalkOK' /\ FreshTable' /\ PlainTable'
    BY <1>3, <1>13 DEF CInv, TalkOK, CallOK, CallShape, HereOK, AwayOK, ActsOf, FreshTable,
                       TableNow, PlainTable, Lists
  <1> QED
    BY <1>11, <1>12, <1>14, <1>15 DEF CInv

LEMMA FailRunKeeps ==
    ASSUME CInv, NEW i \in DOMAIN runs, FailRun(i)
    PROVE  CInv'
  <1>1. PICK r : r = runs[i]
    OBVIOUS
  <1>2. PICK n \in NextOf(r) :
           LET goes == PageOf(page).swallows /\ ~r.quiet /\ r.rest # {n}
           IN  /\ runs' = IF goes
                          THEN [runs EXCEPT ![i] = [r EXCEPT !.rest = @ \ {n}, !.served = FALSE]]
                          ELSE Without(runs, i)
               /\ loading' = IF goes \/ r.quiet THEN loading ELSE stuck
    BY <1>1 DEF FailRun
  <1>3. /\ UNCHANGED <<role, kind, page, stuck, shown, dialog, calls, table, fetches, mixed>>
        /\ excused' = TRUE
    BY DEF FailRun, tableVars
  <1>4. PICK s : s = [r EXCEPT !.rest = @ \ {n}, !.served = FALSE]
    OBVIOUS
  <1>5. r \in Run /\ s \in Run
    BY <1>1, <1>4 DEF CInv, PageTypes, Run
  <1>6. runs' = [runs EXCEPT ![i] = s] \/ runs' = Without(runs, i)
    BY <1>2, <1>4
  <1>7. DOMAIN runs' \subseteq RunIds /\ \A j \in DOMAIN runs' : runs'[j] \in Run
    BY <1>5, <1>6 DEF CInv, PageTypes, Without, Restrict
  <1>8. PageTypes'
    BY <1>2, <1>3, <1>7 DEF CInv, PageTypes
  <1>9. LoadingOK' /\ FreshPage' /\ FreshTable'
    BY <1>3 DEF CInv, LoadingOK, FreshPage, FreshTable
  <1>10. TalkOK' /\ PlainTable'
    BY <1>3 DEF CInv, TalkOK, CallOK, CallShape, HereOK, AwayOK, ActsOf, PlainTable, Lists
  <1> QED
    BY <1>8, <1>9, <1>10 DEF CInv

-----------------------------------------------------------------------------
(* The user.                                                               *)

\* On the page that is shown, what the dialog and each call say fits.
LEMMA TalkNext ==
    ASSUME UNCHANGED <<role, kind, page>>, DOMAIN calls' \subseteq CallIds,
           dialog' \in [act: {dialog'.act}, open: BOOLEAN, made: BOOLEAN],
           dialog'.open => dialog'.act \in ActsOf(page) /\ dialog'.act.way # "call",
           dialog'.made => dialog'.open,
           \A i \in DOMAIN calls' : CallOK(dialog', calls'[i])
    PROVE  TalkOK'
  <1>1. \A i \in DOMAIN calls' : CallOK(dialog, calls[i])'
    BY DEF CallOK, CallShape, HereOK, AwayOK, ActsOf
  <1> QED
    BY <1>1 DEF TalkOK, ActsOf

LEMMA TalkStays ==
    ASSUME TalkOK, UNCHANGED <<role, kind, page, dialog, calls>>
    PROVE  TalkOK'
  BY DEF TalkOK, CallOK, CallShape, HereOK, AwayOK, ActsOf

LEMMA NoDialogFacts ==
    /\ NoDialog \in [act: {NoDialog.act}, open: BOOLEAN, made: BOOLEAN]
    /\ ~NoDialog.open /\ ~NoDialog.made /\ ~DialogOwes(NoDialog)
  BY DEF NoDialog, DialogOwes

\* A call whose form is not on top, because nothing is, fits as before.
LEMMA NoneOnTop ==
    ASSUME NEW d, NEW c, CallOK(d, c), ~d.open, NEW e
    PROVE  CallOK(e, c)
  BY DEF CallOK, HereOK

LEMMA OwingNext ==
    /\ Owing <=> (DialogOwes(dialog) \/ \E i \in DOMAIN calls : Owes(calls[i]))
    /\ Owing' <=> (DialogOwes(dialog') \/ \E i \in DOMAIN calls' : Owes(calls'[i]))
  BY DEF Owing, DialogOwes, Owes

\* What is shown has become old, and that is owed.
LEMMA OwedKeeps ==
    ASSUME CInv, UNCHANGED <<role, kind, page, loading, stuck, excused>>,
           shown' \in {"none", "old", "now"}, DOMAIN runs' = DOMAIN runs,
           \A j \in DOMAIN runs : /\ runs'[j] \in Run /\ runs'[j].quiet = runs[j].quiet
                                  /\ runs'[j].loads = runs[j].loads
                                  /\ runs'[j].rest = runs[j].rest,
           ~Lists(page) => UNCHANGED <<table, fetches>>, Owing', TalkOK'
    PROVE  CInv'
  <1>1. PageTypes'
    BY DEF CInv, PageTypes
  <1>2. LoadingOK'
    BY DEF CInv, LoadingOK, Frees
  <1>3. FreshPage' /\ FreshTable'
    BY DEF FreshPage, FreshTable
  <1>4. PlainTable'
    BY DEF CInv, PlainTable, Lists
  <1> QED
    BY <1>1, <1>2, <1>3, <1>4 DEF CInv

LEMMA OpenKeeps ==
    ASSUME CInv, NEW a \in ActsOf(page), Open(a)
    PROVE  CInv'
  <1>1. /\ UNCHANGED <<role, kind, page, loading, stuck, runs, calls, excused, table, fetches, mixed>>
        /\ dialog' = [act |-> a, open |-> TRUE, made |-> FALSE]
        /\ shown' = (IF a.spoils = {} THEN shown ELSE "old")
        /\ ~dialog.open /\ a.way # "call"
    BY DEF Open, Clickable, tableVars
  <1>2. dialog'.act = a /\ dialog'.open /\ ~dialog'.made
        /\ dialog' \in [act: {dialog'.act}, open: BOOLEAN, made: BOOLEAN]
    BY <1>1
  <1>3. TalkOK /\ PageTypes
    BY DEF CInv
  <1>4. TalkOK'
    <2>1. \A i \in DOMAIN calls : CallOK(dialog', calls[i])
      BY <1>1, <1>3, NoneOnTop DEF TalkOK
    <2> QED
      BY <1>1, <1>2, <1>3, <2>1, TalkNext DEF TalkOK
  <1>5. CASE a.spoils = {}
    <2>1. UNCHANGED <<role, kind, pageVars, tableVars>>
      BY <1>1, <1>5 DEF pageVars, tableVars
    <2>2. Owing => Owing'
      BY <1>1, OwingNext DEF DialogOwes
    <2>3. excused' \in BOOLEAN /\ excused' = excused
      BY <1>1, <1>3 DEF PageTypes
    <2> QED
      BY <1>4, <2>1, <2>2, <2>3, StayKeeps
  <1>6. CASE a.spoils # {}
    <2>1. Owing'
      BY <1>2, <1>6, OwingNext DEF DialogOwes
    <2> QED
      BY <1>1, <1>3, <1>4, <1>6, <2>1, OwedKeeps DEF PageTypes
  <1> QED
    BY <1>5, <1>6

\* A call that is begun on the page.
LEMMA NewCallFacts ==
    ASSUME NEW a, NEW form \in BOOLEAN
    PROVE  LET c == NewCall(a, form)
           IN  /\ CallShape(c) /\ c.act = a /\ c.here /\ c.heard /\ ~c.some
               /\ c.form = form /\ c.phase = "asked"
  BY DEF NewCall, CallShape

LEMMA CalledFacts ==
    ASSUME NEW c, NewlyCalled(c)
    PROVE  \E i \in CallIds \ DOMAIN calls :
              /\ DOMAIN calls' = DOMAIN calls \cup {i} /\ calls'[i] = c
              /\ \A j \in DOMAIN calls : calls'[j] = calls[j]
  <1>1. PICK i \in CallIds \ DOMAIN calls : calls' = With(calls, i, c)
    BY DEF NewlyCalled
  <1>2. DOMAIN calls' = DOMAIN calls \cup {i} /\ calls'[i] = c
    BY <1>1 DEF With
  <1>3. \A j \in DOMAIN calls : calls'[j] = calls[j]
    BY <1>1 DEF With
  <1> QED
    BY <1>2, <1>3

LEMMA BeginKeeps ==
    ASSUME CInv, NEW a \in ActsOf(page), Begin(a)
    PROVE  CInv'
  <1>1. PICK c : c = NewCall(a, FALSE)
    OBVIOUS
  <1>2. /\ UNCHANGED <<role, kind, pageVars, dialog, excused, tableVars>> /\ a.way = "call"
        /\ NewlyCalled(c)
    BY <1>1 DEF Begin
  <1>3. CallOK(dialog, c)
    BY <1>1, <1>2, NewCallFacts DEF CallOK, HereOK
  <1>4. PICK i \in CallIds \ DOMAIN calls :
              /\ DOMAIN calls' = DOMAIN calls \cup {i} /\ calls'[i] = c
              /\ \A j \in DOMAIN calls : calls'[j] = calls[j]
    BY <1>2, CalledFacts
  <1>5. TalkOK /\ PageTypes
    BY DEF CInv
  <1>6. TalkOK'
    <2>1. UNCHANGED <<role, kind, page, dialog>>
      BY <1>2 DEF pageVars
    <2> QED
      BY <1>3, <1>4, <1>5, <2>1, TalkNext DEF TalkOK
  <1>7. Owing => Owing'
    BY <1>2, <1>4, OwingNext
  <1>8. excused' \in BOOLEAN /\ excused' = excused
    BY <1>2, <1>5 DEF PageTypes
  <1> QED
    BY <1>2, <1>6, <1>7, <1>8, StayKeeps

LEMMA SubmitKeeps ==
    ASSUME CInv, Submit
    PROVE  CInv'
  <1>1. PICK c : c = NewCall(dialog.act, dialog.act.way = "form")
    OBVIOUS
  <1>2. /\ UNCHANGED <<role, kind, pageVars, excused, tableVars>>
        /\ dialog.open /\ ~dialog.made /\ NewlyCalled(c)
        /\ dialog' = IF dialog.act.way = "form" THEN dialog ELSE NoDialog
    BY <1>1 DEF Submit
  <1>3. TalkOK /\ PageTypes
    BY DEF CInv
  <1>4. /\ CallShape(c) /\ c.act = dialog.act /\ c.here /\ c.heard /\ ~c.some
        /\ c.form = (dialog.act.way = "form") /\ dialog.act \in ActsOf(page)
    BY <1>1, <1>2, <1>3, NewCallFacts DEF TalkOK
  <1>5. PICK i \in CallIds \ DOMAIN calls :
              /\ DOMAIN calls' = DOMAIN calls \cup {i} /\ calls'[i] = c
              /\ \A j \in DOMAIN calls : calls'[j] = calls[j]
    BY <1>2, CalledFacts
  <1>6. TalkOK'
    <2>1. UNCHANGED <<role, kind, page>>
      BY <1>2 DEF pageVars
    <2>2. CASE dialog.act.way = "form"
      <3>1. CallOK(dialog, c)
        BY <1>2, <1>4, <2>2 DEF CallOK, HereOK
      <3> QED
        BY <1>2, <1>3, <1>5, <2>1, <2>2, <3>1, TalkNext DEF TalkOK
    <2>3. CASE dialog.act.way # "form"
      <3>1. CallOK(NoDialog, c)
        BY <1>4, <2>3 DEF CallOK, HereOK
      <3>2. \A j \in DOMAIN calls : CallOK(NoDialog, calls[j])
        BY <1>3, <2>3 DEF TalkOK, CallOK, HereOK
      <3> QED
        BY <1>2, <1>3, <1>5, <2>1, <2>3, <3>1, <3>2, NoDialogFacts, TalkNext DEF TalkOK
    <2> QED
      BY <2>2, <2>3
  <1>7. Owing => Owing'
    <2>1. DialogOwes(dialog) => Owes(c)
      BY <1>2, <1>4 DEF DialogOwes, Owes
    <2> QED
      BY <1>5, <2>1, OwingNext
  <1>8. excused' \in BOOLEAN /\ excused' = excused
    BY <1>2, <1>3 DEF PageTypes
  <1> QED
    BY <1>2, <1>6, <1>7, <1>8, StayKeeps

\* A call that is not heard any more still changes what it changes.
LEMMA UnheardFacts ==
    ASSUME NEW d, NEW cs, \A i \in DOMAIN cs : CallOK(d, cs[i])
    PROVE  /\ DOMAIN Unheard(cs) = DOMAIN cs
           /\ \A i \in DOMAIN cs : /\ CallOK(NoDialog, Unheard(cs)[i])
                                   /\ Owes(Unheard(cs)[i]) <=> Owes(cs[i])
  <1>1. DOMAIN Unheard(cs) = DOMAIN cs
    BY DEF Unheard
  <1>2. ASSUME NEW i \in DOMAIN cs
        PROVE  /\ CallOK(NoDialog, Unheard(cs)[i])
               /\ Owes(Unheard(cs)[i]) <=> Owes(cs[i])
    <2>1. PICK c, u : c = cs[i] /\ u = Unheard(cs)[i]
      OBVIOUS
    <2>2. u = [c EXCEPT !.heard = @ /\ ~c.form]
      BY <2>1 DEF Unheard
    <2>3. CallOK(d, c) /\ CallShape(c)
      BY <2>1 DEF CallOK
    <2>4. /\ CallShape(u) /\ u.act = c.act /\ u.form = c.form /\ u.here = c.here
          /\ u.phase = c.phase /\ u.some = c.some /\ u.heard = (c.heard /\ ~c.form)
      BY <2>2, <2>3 DEF CallShape
    <2>5. CallOK(NoDialog, u)
      BY <2>3, <2>4 DEF CallOK, HereOK, AwayOK
    <2> QED
      BY <2>1, <2>4, <2>5 DEF Owes
  <1> QED
    BY <1>1, <1>2

LEMMA ThenUnchanged ==
    ASSUME NEW f, NEW old, NEW ex, Then(f, old, ex)
    PROVE  UNCHANGED <<role, kind, page>>
  <1>1. CASE f.do = "reload" \/ f.do = "part"
    BY <1>1 DEF Then, StartRun
  <1>2. CASE f.do = "rows"
    BY <1>2 DEF Then, pageVars
  <1>3. CASE f.do = "keep"
    BY <1>3 DEF Then
  <1>4. CASE f.do \notin {"reload", "part", "rows", "keep"}
    BY <1>4 DEF Then, Stay, pageVars
  <1> QED
    BY <1>1, <1>2, <1>3, <1>4

LEMMA LeaveKeeps ==
    ASSUME CInv, Tidy, NEW way, Leave(way)
    PROVE  CInv'
  <1>1. PICK a : a = dialog.act
    OBVIOUS
  <1>2. PICK ex : ex = ((dialog.made /\ (way # "ok" \/ Forgets(a))) \/ a.spoils # {})
    OBVIOUS
  <1>3. /\ dialog.open /\ dialog' = NoDialog /\ calls' = Unheard(calls)
        /\ IF way = "ok" THEN Then(a.after, FALSE, ex) ELSE Stay(ex)
    BY <1>1, <1>2 DEF Leave
  <1>4. TalkOK /\ PageTypes
    BY DEF CInv
  <1>5. /\ dialog.made \in BOOLEAN /\ ex \in BOOLEAN /\ a \in ActsOf(page) /\ a.way # "call"
        /\ ActOK(page, kind, a)
    BY <1>1, <1>2, <1>3, <1>4, ActsOfOK DEF TalkOK, PageTypes, Forgets
  <1>6. UNCHANGED <<role, kind, page>>
    BY <1>3, ThenUnchanged DEF Stay, pageVars
  <1>7. TalkOK'
    <2>1. \A i \in DOMAIN calls : CallOK(dialog, calls[i])
      BY <1>4 DEF TalkOK
    <2>2. DOMAIN calls' \subseteq CallIds /\ \A i \in DOMAIN calls' : CallOK(dialog', calls'[i])
      BY <1>3, <1>4, <2>1, UnheardFacts DEF TalkOK
    <2> QED
      BY <1>3, <1>6, <2>2, NoDialogFacts, TalkNext
  <1>8. ~DialogOwes(dialog) => (Owing => Owing')
    <2>1. \A i \in DOMAIN calls : CallOK(dialog, calls[i])
      BY <1>4 DEF TalkOK
    <2> QED
      BY <1>3, <2>1, UnheardFacts, OwingNext
  <1>9. CASE way = "ok"
    <2>1. ~Leaves(a.after)
      BY <1>5 DEF ActOK, WellMade, Leaves
    <2>2. Forgets(a) \/ (a.kinds = {} /\ a.spoils = {}) => ex \/ (Owing => Owing')
      BY <1>1, <1>2, <1>8 DEF DialogOwes
    <2> QED
      BY <1>3, <1>5, <1>7, <1>9, <2>1, <2>2, ThenKeeps
  <1>10. CASE way # "ok"
    <2>1. UNCHANGED <<role, kind, pageVars, tableVars>> /\ excused' = (excused \/ ex)
      BY <1>3, <1>10 DEF Stay
    <2>2. ~ex => ~DialogOwes(dialog)
      BY <1>1, <1>2, <1>10 DEF DialogOwes
    <2>3. excused' \in BOOLEAN
      BY <1>4, <1>5, <2>1 DEF PageTypes
    <2> QED
      BY <1>7, <1>8, <2>1, <2>2, <2>3, StayKeeps
  <1> QED
    BY <1>9, <1>10

LEMMA DeclineKeeps ==
    ASSUME CInv, Tidy, NEW a \in ActsOf(page), Decline(a)
    PROVE  CInv'
  <1>1. TalkOK /\ PageTypes /\ ActOK(page, kind, a)
    BY ActsOfOK DEF CInv, PageTypes
  <1>2. CASE Leaves(a.after)
    <2>1. Depart(a.after) /\ calls' = Aside(calls)
      BY <1>2 DEF Decline
    <2>2. a.after.do = "go" => a.after.to \in PageNames
      BY <1>1 DEF ActOK, Renews
    <2> QED
      BY <1>1, <2>1, <2>2, DepartKeeps DEF TalkOK
  <1>3. CASE ~Leaves(a.after)
    <2>1. Then(a.after, FALSE, FALSE) /\ UNCHANGED <<dialog, calls>>
      BY <1>3 DEF Decline
    <2>2. TalkOK'
      BY <1>1, <2>1, ThenUnchanged, TalkStays
    <2>3. Owing => Owing'
      BY <2>1 DEF Owing
    <2>4. PICK no \in BOOLEAN : no = FALSE
      OBVIOUS
    <2>5. Then(a.after, no, no) /\ ~Leaves(a.after) /\ ActOK(page, kind, a)
      BY <1>1, <1>3, <2>1, <2>4
    <2>6. Forgets(a) \/ (a.kinds = {} /\ a.spoils = {}) => no \/ (Owing => Owing')
      BY <2>3
    <2> QED
      BY <2>2, <2>5, <2>6, ThenKeeps
  <1> QED
    BY <1>2, <1>3

LEMMA MoveKeeps ==
    ASSUME CInv, NEW p \in Doors, Move(p)
    PROVE  CInv'
  <1>1. p \in PageNames
    <2>1. PageOK(page, PageOf(page))
      BY EveryPage DEF CInv, PageTypes
    <2>2. PageOf(page).links \subseteq PageNames
      BY <2>1 DEF PageOK
    <2>3. {"HOME", "ADMIN"} \subseteq PageNames
      BY PageNamesAre
    <2> QED
      BY <2>2, <2>3 DEF Doors
  <1>2. Enter(p) /\ calls' = Aside(calls) /\ excused' = FALSE
    BY DEF Move
  <1> QED
    BY <1>1, <1>2, AsideFacts, EnterKeeps DEF CInv, TalkOK

-----------------------------------------------------------------------------
(* The calls.                                                              *)

LEMMA CallsFacts ==
    ASSUME CInv, NEW i \in DOMAIN calls
    PROVE  /\ CallOK(dialog, calls[i]) /\ CallShape(calls[i])
           /\ PageTypes /\ TalkOK
  BY DEF CInv, TalkOK, CallOK

\* A call of which no more than the phase, and how old the answer is, changes.
LEMMA CallAlike ==
    ASSUME NEW d, NEW c, CallOK(d, c), NEW e, CallShape(e), e.act = c.act, e.form = c.form,
           e.here = c.here, e.heard = c.heard, e.some => c.some \/ (c.here /\ ~c.form)
    PROVE  CallOK(d, e)
  BY DEF CallOK, HereOK, AwayOK

\* What a call's act says, of the page it was made on or of the page it leads to.
LEMMA CallActs ==
    ASSUME CInv, NEW i \in DOMAIN calls
    PROVE  LET c == calls[i]
           IN  /\ c.here => ActOK(page, kind, c.act)
               /\ ~c.here => /\ c.act = Call(c.act.kinds, c.act.after)
                             /\ c.act.spoils = {} /\ c.act.done = "closes" /\ ~c.act.many
               /\ Leaves(c.act.after) /\ c.act.after.do = "go" => c.act.after.to \in PageNames
               /\ c.form => c.here /\ c.act.spoils = {} /\ ~c.some
  <1>1. PICK c : c = calls[i]
    OBVIOUS
  <1>2. CallOK(dialog, c) /\ PageTypes
    BY <1>1, CallsFacts
  <1>3. CASE c.here
    <2>1. ActOK(page, kind, c.act) /\ (c.form => c.act.way = "form") /\ (c.some => ~c.form)
      BY <1>2, <1>3, ActsOfOK DEF CallOK, HereOK, PageTypes
    <2>2. c.form => c.act.spoils = {}
      BY <2>1 DEF ActOK, WellMade
    <2>3. c.act.after.do = "go" => c.act.after.to \in PageNames
      BY <2>1 DEF ActOK, Renews
    <2> QED
      BY <1>1, <1>3, <2>1, <2>2, <2>3
  <1>4. CASE ~c.here
    <2>1. AwayOK(c)
      BY <1>2, <1>4 DEF CallOK
    <2>2. c.act = Call(c.act.kinds, c.act.after) /\ ~c.form
      BY <2>1 DEF AwayOK
    <2>3. c.act.spoils = {} /\ c.act.done = "closes" /\ ~c.act.many
      <3>1. \A ks, f : Call(ks, f).spoils = {} /\ Call(ks, f).done = "closes" /\ ~Call(ks, f).many
        BY DEF Call
      <3> QED
        BY <2>2, <3>1
    <2>4. c.act.after.do = "go" => c.act.after.to \in PageNames
      BY <2>1, Steps DEF AwayOK
    <2> QED
      BY <1>1, <1>4, <2>2, <2>3, <2>4
  <1> QED
    BY <1>3, <1>4

\* One call changes, all else stays.
LEMMA OneCallKeeps ==
    ASSUME CInv, UNCHANGED <<role, kind, pageVars, dialog, excused, tableVars>>,
           NEW i \in DOMAIN calls, NEW e, calls' = [calls EXCEPT ![i] = e],
           CallOK(dialog, e), Owes(calls[i]) => Owes(e)
    PROVE  CInv'
  <1>1. UNCHANGED <<role, kind, page, dialog>>
    BY DEF pageVars
  <1>2. DOMAIN calls' = DOMAIN calls /\ calls'[i] = e
        /\ \A j \in DOMAIN calls \ {i} : calls'[j] = calls[j]
    OBVIOUS
  <1>3. TalkOK /\ PageTypes
    BY DEF CInv
  <1>4. TalkOK'
    BY <1>1, <1>2, <1>3, TalkNext DEF TalkOK
  <1>5. Owing => Owing'
    BY <1>1, <1>2, OwingNext
  <1>6. excused' = excused /\ excused' \in BOOLEAN
    BY <1>3 DEF PageTypes
  <1> QED
    BY <1>4, <1>5, <1>6, StayKeeps

LEMMA RefuseCallKeeps ==
    ASSUME CInv, NEW i \in DOMAIN calls, RefuseCall(i)
    PROVE  CInv'
  <1>1. PICK c, e : c = calls[i] /\ e = [c EXCEPT !.phase = "refused"]
    OBVIOUS
  <1>2. /\ calls' = [calls EXCEPT ![i] = e] /\ c.phase = "asked"
        /\ UNCHANGED <<role, kind, pageVars, dialog, excused, tableVars>>
    BY <1>1 DEF RefuseCall
  <1>3. CallOK(dialog, c) /\ CallShape(c)
    BY <1>1, CallsFacts
  <1>4. /\ CallShape(e) /\ e.act = c.act /\ e.form = c.form /\ e.here = c.here
        /\ e.heard = c.heard /\ e.some = c.some
    BY <1>1, <1>3 DEF CallShape
  <1>5. CallOK(dialog, e)
    BY <1>3, <1>4, CallAlike
  <1>6. Owes(c) => Owes(e)
    BY <1>2, <1>4 DEF Owes
  <1> QED
    BY <1>1, <1>2, <1>5, <1>6, OneCallKeeps

LEMMA AskNextKeeps ==
    ASSUME CInv, NEW i \in DOMAIN calls, AskNext(i)
    PROVE  CInv'
  <1>1. PICK c, e : c = calls[i] /\ e = [c EXCEPT !.phase = "asked", !.some = TRUE, !.old = FALSE]
    OBVIOUS
  <1>2. /\ calls' = [calls EXCEPT ![i] = e] /\ c.phase = "done" /\ c.act.many /\ c.here
        /\ UNCHANGED <<role, kind, pageVars, dialog, excused, tableVars>>
    BY <1>1 DEF AskNext
  <1>3. CallOK(dialog, c) /\ CallShape(c) /\ ActOK(page, kind, c.act)
    BY <1>1, <1>2, CallsFacts, CallActs
  <1>4. /\ CallShape(e) /\ e.act = c.act /\ e.form = c.form /\ e.here = c.here
        /\ e.heard = c.heard /\ e.some
    BY <1>1, <1>3 DEF CallShape
  <1>5. ~c.form
    BY <1>2, <1>3 DEF CallOK, HereOK, ActOK, WellMade
  <1>6. CallOK(dialog, e)
    BY <1>2, <1>3, <1>4, <1>5, CallAlike
  <1>7. Owes(c) => Owes(e)
    BY <1>4 DEF Owes
  <1> QED
    BY <1>1, <1>2, <1>6, <1>7, OneCallKeeps

LEMMA ServeCallKeeps ==
    ASSUME CInv, NEW i \in DOMAIN calls, ServeCall(i)
    PROVE  CInv'
  <1>1. PICK c, e : c = calls[i] /\ e = [c EXCEPT !.phase = "done"]
    OBVIOUS
  <1>2. c.phase = "asked" /\ UNCHANGED <<role, kind, page, loading, stuck, dialog, excused, mixed>>
    BY <1>1 DEF ServeCall
  <1>3. CallOK(dialog, c) /\ CallShape(c) /\ PageTypes /\ TalkOK
    BY <1>1, CallsFacts
  <1>4. /\ CallShape(e) /\ e.act = c.act /\ e.form = c.form /\ e.here = c.here
        /\ e.heard = c.heard /\ e.some = c.some /\ e.phase = "done"
    BY <1>1, <1>3 DEF CallShape
  <1>5. CallOK(dialog, e)
    BY <1>3, <1>4, CallAlike
  <1>6. CASE c.act.kinds = {}
    <2>1. calls' = [calls EXCEPT ![i] = e] /\ UNCHANGED <<shown, runs, table, fetches>>
      BY <1>1, <1>6 DEF ServeCall
    <2>2. UNCHANGED <<role, kind, pageVars, dialog, excused, tableVars>>
      BY <1>2, <2>1 DEF pageVars, tableVars
    <2>3. Owes(c) => Owes(e)
      BY <1>4 DEF Owes
    <2> QED
      BY <1>1, <1>5, <2>1, <2>2, <2>3, OneCallKeeps
  <1>7. CASE c.act.kinds # {}
    <2>1. /\ calls' = [j \in DOMAIN calls |->
                         IF j = i THEN e
                         ELSE [calls[j] EXCEPT !.old = Overtaken(calls[j])]]
          /\ Changed
      BY <1>1, <1>7 DEF ServeCall
    <2>2. ASSUME NEW j \in DOMAIN calls, j # i
          PROVE  CallOK(dialog, calls'[j])
      <3>1. PICK b, o : b = calls[j] /\ o = Overtaken(b)
        OBVIOUS
      <3>2. CallShape(b) /\ CallOK(dialog, b)
        BY <3>1, CallsFacts
      <3>3. o \in BOOLEAN
        BY <3>1, <3>2 DEF Overtaken, CallShape
      <3>4. PICK x : x = [b EXCEPT !.old = o]
        OBVIOUS
      <3>5. /\ CallShape(x) /\ x.act = b.act /\ x.form = b.form /\ x.here = b.here
            /\ x.heard = b.heard /\ x.some = b.some
        BY <3>2, <3>3, <3>4 DEF CallShape
      <3>6. calls'[j] = x
        BY <2>1, <2>2, <3>1, <3>4
      <3> QED
        BY <3>2, <3>5, <3>6, CallAlike
    <2>3. DOMAIN calls' = DOMAIN calls /\ calls'[i] = e
      BY <2>1
    <2>4. TalkOK'
      BY <1>2, <1>3, <1>5, <2>2, <2>3, TalkNext DEF TalkOK
    <2>5. Owing'
      BY <1>4, <1>7, <2>3, OwingNext DEF Owes
    <2>6. /\ shown' \in {"none", "old", "now"}
          /\ ~Lists(page) => UNCHANGED <<table, fetches>>
      BY <1>3, <2>1 DEF Changed, PageTypes
    <2>7. DOMAIN runs' = DOMAIN runs
      BY <2>1 DEF Changed
    <2>8. ASSUME NEW j \in DOMAIN runs
          PROVE  /\ runs'[j] \in Run /\ runs'[j].quiet = runs[j].quiet
                 /\ runs'[j].loads = runs[j].loads /\ runs'[j].rest = runs[j].rest
      <3>1. PICK r : r = runs[j]
        OBVIOUS
      <3>2. PICK o : o = (r.old \/ r.have \/ (r.served /\ \E n \in NextOf(r) : kind \in r.loads[n]))
        OBVIOUS
      <3>3. r \in Run
        BY <1>3, <3>1 DEF PageTypes
      <3>4. o \in BOOLEAN
        BY <3>2, <3>3 DEF Run
      <3>5. runs'[j] = [r EXCEPT !.old = o]
        BY <2>1, <2>8, <3>1, <3>2 DEF Changed
      <3> QED
        BY <3>1, <3>3, <3>4, <3>5 DEF Run
    <2> QED
      BY <1>2, <2>4, <2>5, <2>6, <2>7, <2>8, OwedKeeps
  <1> QED
    BY <1>6, <1>7

-----------------------------------------------------------------------------
(* The answers.                                                            *)

\* A call is over, and the dialog stays.
LEMMA GoneFacts ==
    ASSUME CInv, NEW i \in DOMAIN calls, calls' = Without(calls, i),
           UNCHANGED <<role, kind, page>>, dialog' = dialog
    PROVE  /\ TalkOK'
           /\ ~Owes(calls[i]) => (Owing => Owing')
  <1>1. DOMAIN calls' = DOMAIN calls \ {i} /\ \A j \in DOMAIN calls \ {i} : calls'[j] = calls[j]
    BY DEF Without, Restrict
  <1>2. TalkOK'
    BY <1>1, TalkNext DEF CInv, TalkOK
  <1>3. ~Owes(calls[i]) => (Owing => Owing')
    BY <1>1, OwingNext
  <1> QED
    BY <1>2, <1>3

\* A call is over; if it was a form's, the form closes, and its other calls go unheard.
LEMMA ClosedFacts ==
    ASSUME CInv, NEW i \in DOMAIN calls, Heard(calls[i]), Closed(calls[i], Without(calls, i)),
           UNCHANGED <<role, kind, page>>
    PROVE  /\ TalkOK'
           /\ /\ ~Owes(calls[i])
              /\ calls[i].form => ~dialog.made \/ calls[i].act.kinds = {}
              => (Owing => Owing')
  <1>1. PICK c, rest : c = calls[i] /\ rest = Without(calls, i)
    OBVIOUS
  <1>2. CASE ~c.form
    <2>1. dialog' = dialog /\ calls' = Without(calls, i)
      BY <1>1, <1>2 DEF Closed
    <2> QED
      BY <2>1, GoneFacts
  <1>3. CASE c.form
    <2>1. dialog' = NoDialog /\ calls' = Unheard(rest)
      BY <1>1, <1>3 DEF Closed
    <2>2. DOMAIN rest = DOMAIN calls \ {i} /\ \A j \in DOMAIN rest : rest[j] = calls[j]
      BY <1>1 DEF Without, Restrict
    <2>3. \A j \in DOMAIN rest : CallOK(dialog, rest[j])
      BY <2>2 DEF CInv, TalkOK
    <2>4. /\ DOMAIN calls' = DOMAIN calls \ {i}
          /\ \A j \in DOMAIN calls' : /\ CallOK(NoDialog, calls'[j])
                                      /\ Owes(calls'[j]) <=> Owes(calls[j])
      <3>1. /\ DOMAIN Unheard(rest) = DOMAIN rest
            /\ \A j \in DOMAIN rest : /\ CallOK(NoDialog, Unheard(rest)[j])
                                      /\ Owes(Unheard(rest)[j]) <=> Owes(rest[j])
        BY <2>3, UnheardFacts
      <3> QED
        BY <2>1, <2>2, <3>1
    <2>5. TalkOK'
      BY <2>1, <2>4, NoDialogFacts, TalkNext DEF CInv, TalkOK
    <2>6. c.here /\ c.heard /\ c.act.spoils = {}
      BY <1>1, <1>3, CallActs DEF Heard
    <2>7. dialog.open /\ dialog.act = c.act
      BY <1>1, <1>3, <2>6, CallsFacts DEF CallOK, HereOK
    <2>8. ~dialog.made \/ c.act.kinds = {} => ~DialogOwes(dialog)
      BY <2>6, <2>7 DEF DialogOwes
    <2> QED
      BY <1>1, <1>3, <2>4, <2>5, <2>8, OwingNext
  <1> QED
    BY <1>2, <1>3

LEMMA DropKeeps ==
    ASSUME CInv, NEW i \in DOMAIN calls, Drop(i)
    PROVE  CInv'
  <1>1. PICK c : c = calls[i]
    OBVIOUS
  <1>2. /\ c.phase # "asked" /\ ~Heard(c) /\ calls' = Without(calls, i) /\ dialog' = dialog
        /\ UNCHANGED <<role, kind, pageVars, tableVars>>
        /\ excused' = (excused \/ c.phase = "done")
    BY <1>1 DEF Drop, Stay
  <1>3. CallOK(dialog, c) /\ PageTypes
    BY <1>1, CallsFacts
  <1>4. ~excused' => ~Owes(c)
    <2>1. CASE c.here
      <3>1. c.form
        BY <1>2, <1>3, <2>1 DEF Heard, CallOK, HereOK
      <3> QED
        BY <1>1, <1>2, <3>1, CallActs DEF Owes
    <2>2. CASE ~c.here
      BY <1>1, <1>2, <1>3, <2>2, CallActs DEF Owes, CallOK, AwayOK
    <2> QED
      BY <2>1, <2>2
  <1>5. TalkOK' /\ (~Owes(c) => (Owing => Owing'))
    BY <1>1, <1>2, GoneFacts DEF pageVars
  <1>6. excused' \in BOOLEAN /\ (excused => excused')
    BY <1>2, <1>3 DEF PageTypes
  <1> QED
    BY <1>2, <1>4, <1>5, <1>6, StayKeeps

LEMMA GoOnKeeps ==
    ASSUME CInv, Tidy, NEW i \in DOMAIN calls, NEW ex \in BOOLEAN, Heard(calls[i]), GoOn(i, ex),
           Forgets(calls[i].act) =>
              ex \/ (~Owes(calls[i]) /\ ~(calls[i].form /\ dialog.made))
    PROVE  CInv'
  <1>1. PICK c, rest : c = calls[i] /\ rest = Without(calls, i)
    OBVIOUS
  <1>2. CASE Leaves(c.act.after)
    <2>1. Depart(c.act.after) /\ calls' = Aside(rest)
      BY <1>1, <1>2 DEF GoOn
    <2>2. c.act.after.do = "go" => c.act.after.to \in PageNames
      BY <1>1, <1>2, CallActs
    <2>3. DOMAIN rest \subseteq CallIds /\ \A j \in DOMAIN rest : CallOK(dialog, rest[j])
      BY <1>1 DEF CInv, TalkOK, Without, Restrict
    <2> QED
      BY <2>1, <2>2, <2>3, DepartKeeps
  <1>3. CASE ~Leaves(c.act.after)
    <2>1. Then(c.act.after, c.old, ex) /\ Closed(c, rest)
      BY <1>1, <1>3 DEF GoOn
    <2>2. c.here /\ ActOK(page, kind, c.act) /\ c.old \in BOOLEAN
      BY <1>1, <1>3, CallActs, CallsFacts DEF Heard, CallShape
    <2>3. TalkOK' /\ ( /\ ~Owes(c)
                       /\ c.form => ~dialog.made \/ c.act.kinds = {}
                       => (Owing => Owing') )
      BY <1>1, <2>1, ThenUnchanged, ClosedFacts
    <2>4. Forgets(c.act) \/ (c.act.kinds = {} /\ c.act.spoils = {}) => ex \/ (Owing => Owing')
      BY <1>1, <2>3 DEF Owes
    <2> QED
      BY <1>3, <2>1, <2>2, <2>3, <2>4, ThenKeeps
  <1> QED
    BY <1>2, <1>3

LEMMA AcceptedKeeps ==
    ASSUME CInv, Tidy, NEW i \in DOMAIN calls, Accepted(i)
    PROVE  CInv'
  <1>1. PICK c : c = calls[i]
    OBVIOUS
  <1>2. c.phase = "done" /\ Heard(c)
    BY <1>1 DEF Accepted
  <1>3. CASE c.act.done # "stays"
    <2>1. GoOn(i, Forgets(c.act))
      BY <1>1, <1>3 DEF Accepted
    <2>2. PICK ex \in BOOLEAN : ex = Forgets(c.act)
      BY DEF Forgets
    <2> QED
      BY <1>1, <1>2, <2>1, <2>2, GoOnKeeps
  <1>4. CASE c.act.done = "stays"
    <2>1. /\ calls' = Without(calls, i) /\ dialog' = [dialog EXCEPT !.made = TRUE]
          /\ UNCHANGED <<role, kind, pageVars, tableVars>> /\ excused' = (excused \/ FALSE)
      BY <1>1, <1>4 DEF Accepted, Stay
    <2>2. CallOK(dialog, c) /\ TalkOK /\ PageTypes
      BY <1>1, CallsFacts
    <2>3. c.here /\ c.form
      <3>1. c.here /\ ActOK(page, kind, c.act)
        BY <1>1, <1>4, CallActs
      <3> QED
        BY <1>4, <2>2, <3>1 DEF CallOK, HereOK, ActOK, WellMade
    <2>4. dialog.open /\ dialog.act = c.act
      BY <1>2, <2>2, <2>3 DEF Heard, CallOK, HereOK
    <2>5. /\ dialog'.act = dialog.act /\ dialog'.open = dialog.open /\ dialog'.made = TRUE
          /\ dialog' \in [act: {dialog'.act}, open: BOOLEAN, made: BOOLEAN]
      BY <2>1, <2>2 DEF TalkOK
    <2>6. DOMAIN calls' = DOMAIN calls \ {i} /\ \A j \in DOMAIN calls \ {i} : calls'[j] = calls[j]
      BY <2>1 DEF Without, Restrict
    <2>7. TalkOK'
      <3>1. \A j \in DOMAIN calls' : CallOK(dialog', calls'[j])
        BY <2>2, <2>5, <2>6 DEF TalkOK, CallOK, HereOK
      <3> QED
        BY <2>1, <2>2, <2>4, <2>5, <2>6, <3>1, TalkNext DEF TalkOK, pageVars
    <2>8. Owing => Owing'
      <3>1. Owes(c) => DialogOwes(dialog')
        BY <2>4, <2>5 DEF Owes, DialogOwes
      <3>2. DialogOwes(dialog) => DialogOwes(dialog')
        BY <2>5 DEF DialogOwes
      <3> QED
        BY <1>1, <2>6, <3>1, <3>2, OwingNext
    <2>9. excused' \in BOOLEAN /\ (excused => excused')
      BY <2>1, <2>2 DEF PageTypes
    <2> QED
      BY <2>1, <2>7, <2>8, <2>9, StayKeeps
  <1> QED
    BY <1>3, <1>4

LEMMA RejectedKeeps ==
    ASSUME CInv, Tidy, NEW i \in DOMAIN calls, Rejected(i)
    PROVE  CInv'
  <1>1. PICK c : c = calls[i]
    OBVIOUS
  <1>2. PICK ex : ex = (c.phase = "done" \/ c.some \/ c.act.spoils # {} \/ (c.form /\ dialog.made))
    OBVIOUS
  <1>3. CallOK(dialog, c) /\ CallShape(c) /\ TalkOK /\ PageTypes
    BY <1>1, CallsFacts
  <1>4. ex \in BOOLEAN
    BY <1>2, <1>3 DEF CallShape, TalkOK
  <1>5. /\ c.phase # "asked" /\ Heard(c)
        /\ \/ GoOn(i, ex)
           \/ Closed(c, Without(calls, i)) /\ Stay(ex)
           \/ calls' = Without(calls, i) /\ dialog' = dialog /\ Stay(ex)
    BY <1>1, <1>2 DEF Rejected
  <1>6. ~ex => ~Owes(c) /\ ~(c.form /\ dialog.made)
    BY <1>2 DEF Owes
  <1>7. CASE GoOn(i, ex)
    BY <1>1, <1>4, <1>5, <1>6, <1>7, GoOnKeeps
  <1>8. ASSUME Stay(ex), TalkOK', ~ex => (Owing => Owing')
        PROVE  CInv'
    <2>1. /\ UNCHANGED <<role, kind, pageVars, tableVars>> /\ excused' = (excused \/ ex)
          /\ excused' \in BOOLEAN
      BY <1>3, <1>4, <1>8 DEF Stay, PageTypes
    <2> QED
      BY <1>8, <2>1, StayKeeps
  <1>9. Stay(ex) => UNCHANGED <<role, kind, page>>
    BY DEF Stay, pageVars
  <1>10. CASE Closed(c, Without(calls, i)) /\ Stay(ex)
    BY <1>1, <1>5, <1>6, <1>8, <1>9, <1>10, ClosedFacts
  <1>11. CASE calls' = Without(calls, i) /\ dialog' = dialog /\ Stay(ex)
    BY <1>1, <1>6, <1>8, <1>9, <1>11, GoneFacts
  <1> QED
    BY <1>5, <1>7, <1>10, <1>11

-----------------------------------------------------------------------------
(* The table takes a step of its own, or nothing happens.                  *)

LEMMA TableKeeps ==
    ASSUME CInv, Tidy, Lists(page), TableStep,
           UNCHANGED <<role, kind, pageVars, dialog, calls, excused>>
    PROVE  CInv'
  <1>1. UNCHANGED <<role, kind, page, loading, stuck, shown, runs, dialog, calls, excused>>
    BY DEF pageVars
  <1>2. PageTypes' /\ LoadingOK' /\ FreshPage' /\ TalkOK'
    <2>1. PageTypes' /\ LoadingOK'
      BY <1>1 DEF CInv, PageTypes, LoadingOK, Frees
    <2>2. Owing' <=> Owing
      BY <1>1 DEF Owing
    <2>3. FreshPage'
      BY <1>1, <2>2 DEF CInv, FreshPage, PageNow, Brings, Shows
    <2>4. TalkOK'
      BY <1>1, TalkStays DEF CInv
    <2> QED
      BY <2>1, <2>3, <2>4
  <1>3. FreshTable'
    <2>1. Owing' <=> Owing
      BY <1>1 DEF Owing
    <2>2. ASSUME ~excused, ~mixed', ~Owing
          PROVE  TableNow'
      <3>1. ~mixed => TableNow
        BY <2>2 DEF CInv, FreshTable
      <3> QED
        BY <2>2, <3>1, StepFresh
    <2> QED
      BY <1>1, <2>1, <2>2 DEF FreshTable
  <1>4. PlainTable'
    BY <1>1 DEF PlainTable, Lists
  <1> QED
    BY <1>2, <1>3, <1>4 DEF CInv

LEMMA StutterKeeps ==
    ASSUME CInv, UNCHANGED vars
    PROVE  CInv'
  <1>1. UNCHANGED <<role, kind, page, pageVars, tableVars, dialog, calls, excused>>
    BY DEF vars, pageVars
  <1>2. TalkOK' /\ (Owing => Owing') /\ excused' \in BOOLEAN
    BY <1>1, TalkStays DEF CInv, Owing, PageTypes
  <1> QED
    BY <1>1, <1>2, StayKeeps

LEMMA CInit ==
    ASSUME Init
    PROVE  CInv
  <1>1. /\ role \in Roles /\ kind \in Followed /\ page = "HOME" /\ loading = FALSE /\ stuck = FALSE
        /\ shown = "none" /\ runs = NoneInFlight /\ dialog = NoDialog /\ calls = NoneInFlight
        /\ excused = FALSE /\ table = NewTable /\ fetches = <<>>
    BY DEF Init
  <1>2. PageTypes /\ TalkOK /\ LoadingOK
    BY <1>1, NothingInFlight, NoDialogFacts, PageNamesAre DEF PageTypes, TalkOK, LoadingOK
  <1>3. ~Shows(page)
    <2>1. Home.loads = <<>>
      BY DEF Home, Page
    <2>2. LoadsOf(role, "HOME") = <<>>
      BY <2>1, OwnPages DEF LoadsOf
    <2>3. DOMAIN <<>> = {}
      OBVIOUS
    <2> QED
      BY <1>1, <2>2, <2>3 DEF Shows, ShowsTo, RangeOf
  <1>4. TableNow
    BY <1>1 DEF TableNow, NewTable
  <1>5. FreshPage /\ FreshTable /\ PlainTable
    BY <1>1, <1>3, <1>4 DEF FreshPage, FreshTable, PlainTable
  <1> QED
    BY <1>2, <1>5 DEF CInv

LEMMA CNext ==
    ASSUME CInv, Tidy, [Next]_vars
    PROVE  CInv'
  <1>1. CASE \E i \in DOMAIN runs : ServeRun(i) \/ ArriveRun(i) \/ FailRun(i)
    BY <1>1, ServeRunKeeps, ArriveRunKeeps, FailRunKeeps
  <1>2. CASE \E a \in ActsOf(page) : Open(a) \/ Begin(a) \/ Decline(a)
    BY <1>2, OpenKeeps, BeginKeeps, DeclineKeeps
  <1>3. CASE Submit
    BY <1>3, SubmitKeeps
  <1>4. CASE \E way \in {"ok", "dismiss", Cross} : Leave(way)
    BY <1>4, LeaveKeeps
  <1>5. CASE \E p \in Doors : Move(p)
    BY <1>5, MoveKeeps
  <1>6. CASE \E i \in DOMAIN calls : \/ ServeCall(i) \/ RefuseCall(i) \/ AskNext(i)
                                     \/ Drop(i) \/ Accepted(i) \/ Rejected(i)
    BY <1>6, ServeCallKeeps, RefuseCallKeeps, AskNextKeeps, DropKeeps, AcceptedKeeps, RejectedKeeps
  <1>7. CASE /\ \/ Lists(page) /\ ~excused /\ Busy < MaxBusy /\ ~dialog.open /\ TableUse
                \/ TableAnswer
             /\ UNCHANGED <<role, kind, pageVars, dialog, calls, excused>>
    <2>1. TableAnswer => fetches # <<>>
      BY DEF TableAnswer
    <2>2. Lists(page)
      BY <1>7, <2>1 DEF CInv, PlainTable
    <2>3. TableStep
      BY <1>7 DEF TableStep
    <2> QED
      BY <1>7, <2>2, <2>3, TableKeeps
  <1>8. CASE UNCHANGED vars
    BY <1>8, StutterKeeps
  <1> QED
    BY <1>1, <1>2, <1>3, <1>4, <1>5, <1>6, <1>7, <1>8 DEF Next

LEMMA RestingShows ==
    ASSUME CInv
    PROVE  ShowsOwnChanges
  <1> SUFFICES ASSUME AtRest, Claimed
               PROVE  /\ ~loading
                      /\ Shows(page) => shown = "now"
                      /\ table.kind = "data" => \A i \in DOMAIN table.rows : ~table.rows[i].old
    BY DEF ShowsOwnChanges
  <1>1. DOMAIN runs = {} /\ DOMAIN calls = {} /\ ~dialog.open /\ ~excused /\ ~mixed
    BY DEF AtRest, AllDone, Claimed
  <1>2. ~Owing
    BY <1>1 DEF Owing, DialogOwes
  <1>3. ~loading
    BY <1>1 DEF CInv, LoadingOK
  <1>4. Shows(page) => shown = "now"
    BY <1>1, <1>2 DEF CInv, FreshPage, PageNow
  <1>5. CASE Lists(page)
    BY <1>1, <1>2, <1>3, <1>4, <1>5 DEF CInv, FreshTable, TableNow
  <1>6. CASE ~Lists(page)
    BY <1>3, <1>4, <1>6 DEF CInv, PlainTable, NewTable
  <1> QED
    BY <1>5, <1>6

LEMMA PagesTyped ==
    ASSUME CInv, Tidy
    PROVE  TypeOK
  <1>1. RangeOf(runs) \subseteq Run
    BY DEF CInv, PageTypes, RangeOf
  <1>2. \A i \in DOMAIN calls :
           /\ calls[i].phase \in {"asked", "done", "refused"}
           /\ {calls[i].form, calls[i].heard, calls[i].here, calls[i].old, calls[i].some}
              \subseteq BOOLEAN
    BY DEF CInv, TalkOK, CallOK, CallShape
  <1> QED
    BY <1>1, <1>2 DEF CInv, PageTypes, TalkOK, Tidy, TypeOK

\* Whatever the user does and however the answers come, a change that is not
\* owed to the page any more is shown on it, or on its way to it, the loading
\* flag is up only while a load is in flight, and the table holds nothing old.
THEOREM ConsoleInvariant == Spec => []CInv
  <1>1. Init => CInv
    BY CInit
  <1>2. CInv /\ Tidy /\ [Next]_vars => CInv'
    BY CNext
  <1> QED
    BY <1>1, <1>2, TableInvariant, PTL DEF Spec

\* A page at rest shows everything it is there to show, and nothing that the
\* user's own changes have made out of date, for any number of calls and loads
\* at a time and tables of any length.
THEOREM PagesShowOwnChanges == Spec => []ShowsOwnChanges
  BY ConsoleInvariant, RestingShows, PTL

\* The page, its loads, the form on top of it and the calls of this page and of
\* those before it keep their types; a form that is open is one the page offers.
THEOREM ConsoleTypes == Spec => []TypeOK
  BY ConsoleInvariant, TableInvariant, PagesTyped, PTL

-----------------------------------------------------------------------------
(***************************************************************************)
(* BrowserSession                                                          *)
(*                                                                         *)
(* What a handler makes of the tab Follows what the tab was: no handler    *)
(* brings back a state, so each state is validated once and its code sent  *)
(* once.  A logout that is answered without an error has revoked the       *)
(* sign-in of the refresh token in its body (Revoking), and a server never *)
(* takes that back.                                                        *)
(***************************************************************************)
\* A tab that holds a refresh token holds an access token, as SessionTypeOK says.
GoodTab == {t \in Tab : t.refresh # NoToken => t.access # NoToken}

\* What a request of each kind carries.
Proper(req) ==
    /\ req \in Request
    /\ req.kind = "code" => req.bearer # NoToken
    /\ req.kind = "logout" => req.body # NoToken
    /\ req.pc = "refresh" => req.presented # NoToken

\* A state is stored until its code is sent, and while a code is under way it is
\* the only request, sent with the verifier that the tab stores.
Exchanging ==
    /\ \A f \in Flows : sent[f] <= 1 /\ (f > flows => sent[f] = 0)
    /\ tab.state # NoFlow => tab.state <= flows /\ tab.flow = tab.state /\ sent[tab.state] = 0
    /\ tab.waiting # {} => tab.state = NoFlow
    /\ tab.at = "away" => flows # 0
    /\ \A c \in Slots : requests[c].kind = "code" =>
          /\ requests[c].pc = "late" /\ tab.at = "callback"
          /\ tab.state = NoFlow /\ tab.waiting = {} /\ tab.flow = requests[c].bearer.by
          /\ \A d \in Slots \ {c} : requests[d] = Idle

\* Whoever is told that a logout was done finds its sign-in among those revoked.
Revoking ==
    /\ quit \subseteq server.revoked
    /\ \A c \in Slots :
          requests[c].kind = "logout" /\ requests[c].reply = "ok" /\ requests[c].pc # "refresh" =>
              requests[c].body.by \in server.revoked

SInv == SessionTypeOK /\ (\A c \in Slots : Proper(requests[c])) /\ Exchanging /\ Revoking

\* u is what a handler that starts no sign-in makes of the tab t.
Follows(t, u) ==
    /\ u \in GoodTab
    /\ u.state # NoFlow => u.state = t.state /\ u.flow = t.flow
    /\ u.waiting # {} => t.waiting # {}
    /\ u.at = "away" => t.at = "away"

Ready(t) == t \in GoodTab /\ (t.waiting # {} => t.state = NoFlow)

\* A request that has just been sent, or waits to be.
Launched(req) == Proper(req) /\ req.reply = "none"

LEMMA TokenFields ==
    ASSUME NEW t \in Token \cup {NoToken}
    PROVE  /\ t.by \in Flows \cup {NoFlow}
           /\ t # NoToken => t.by \in Flows /\ t.gen \in 1 .. MaxTokens
  BY DEF Token, NoToken, NoFlow

LEMMA FlowZero == NoFlow \notin Flows
  BY FlowsAreCounted DEF NoFlow, Flows

LEMMA IdleProper == Launched(Idle)
  BY DEF Launched, Proper, Idle, Request

LEMMA ClearedFollows ==
    ASSUME NEW t \in GoodTab
    PROVE  /\ Follows(t, Cleared(t))
           /\ Cleared(t).waiting = t.waiting /\ Cleared(t).state = t.state
  BY DEF GoodTab, Follows, Cleared, Tab

LEMMA OutFollows ==
    ASSUME NEW t \in GoodTab
    PROVE  /\ Follows(t, Out(t))
           /\ Out(t).waiting = t.waiting /\ Out(t).state = t.state
  BY DEF GoodTab, Follows, Cleared, Out, Tab

LEMMA FailedFollows ==
    ASSUME NEW t \in GoodTab
    PROVE  /\ Follows(t, Failed(t))
           /\ Failed(t).waiting = {} /\ Failed(t).state = NoFlow
  BY DEF GoodTab, Follows, Failed, Tab, NoFlow

LEMMA EnterConsoleFollows ==
    ASSUME NEW t \in GoodTab
    PROVE  /\ Follows(t, EnterConsole(t))
           /\ EnterConsole(t).waiting = t.waiting /\ EnterConsole(t).state = t.state
  BY DEF GoodTab, Follows, Cleared, Out, EnterConsole, Tab

LEMMA SignedFollows ==
    ASSUME NEW t \in GoodTab, t.state = NoFlow
    PROVE  Follows(t, Signed(t))
  <1> DEFINE u == [t EXCEPT !.who = t.access.by, !.flow = NoFlow]
  <1>1. t.access.by \in Flows \cup {NoFlow}
    BY TokenFields DEF GoodTab, Tab
  <1>2. u \in GoodTab /\ u.state = NoFlow /\ u.waiting = t.waiting
    BY <1>1 DEF GoodTab, Tab
  <1>3. /\ Follows(u, EnterConsole(u))
        /\ EnterConsole(u).waiting = t.waiting /\ EnterConsole(u).state = NoFlow
    BY <1>2, EnterConsoleFollows
  <1> QED
    BY <1>3 DEF Signed, Follows

LEMMA FollowsReady ==
    ASSUME NEW t, NEW u, Ready(t), Follows(t, u)
    PROVE  Ready(u)
  BY DEF Ready, Follows

LEMMA FollowsOn ==
    ASSUME NEW t, NEW u, NEW v, Follows(t, u), Follows(u, v)
    PROVE  Follows(t, v)
  BY DEF Follows

LEMMA OnSuccessFollows ==
    ASSUME NEW t, Ready(t), NEW sort
    PROVE  Follows(t, OnSuccess(sort, t))
  <1> t \in GoodTab
    BY DEF Ready
  <1>1. CASE sort \in t.waiting
    <2>0. sort \notin {"logout", "leave"}
      BY <1>1 DEF GoodTab, Tab
    <2>1. CASE t.waiting = {sort}
      <3> DEFINE u == [t EXCEPT !.waiting = {}]
      <3>1. u \in GoodTab /\ u.state = NoFlow /\ u.waiting = {}
        BY <2>1 DEF Ready, GoodTab, Tab
      <3>2. Follows(u, Signed(u))
        BY <3>1, SignedFollows
      <3>3. Follows(t, u)
        BY <3>1 DEF Follows
      <3> QED
        BY <1>1, <2>0, <2>1, <3>2, <3>3, FollowsOn DEF OnSuccess
    <2>2. CASE t.waiting # {sort}
      <3> DEFINE u == [t EXCEPT !.waiting = @ \ {sort}]
      <3>1. u \in GoodTab /\ u.state = t.state /\ u.flow = t.flow
        BY DEF GoodTab, Tab
      <3>2. OnSuccess(sort, t) = u
        BY <1>1, <2>0, <2>2 DEF OnSuccess
      <3> QED
        BY <1>1, <3>1, <3>2 DEF Follows
    <2> QED
      BY <2>1, <2>2
  <1>2. CASE sort \notin t.waiting /\ sort = "logout"
    BY <1>2, OutFollows DEF OnSuccess
  <1>3. CASE sort \notin t.waiting /\ sort = "leave"
    BY <1>3, ClearedFollows DEF OnSuccess
  <1>4. CASE sort \notin t.waiting /\ sort \notin {"logout", "leave"}
    BY <1>4 DEF OnSuccess, Follows
  <1> QED
    BY <1>1, <1>2, <1>3, <1>4

LEMMA OnErrorFollows ==
    ASSUME NEW t \in GoodTab, NEW sort
    PROVE  Follows(t, OnError(sort, t))
  <1>1. CASE sort \in {"profile", "permissions"} /\ t.waiting # {}
    <2>1. Follows(t, Cleared(t)) /\ Cleared(t) \in GoodTab
      BY ClearedFollows DEF Follows
    <2>2. Follows(Cleared(t), Failed(Cleared(t)))
      BY <2>1, FailedFollows
    <2> QED
      BY <1>1, <2>1, <2>2, FollowsOn DEF OnError
  <1>2. CASE sort = "logout"
    BY <1>2, OutFollows DEF OnError
  <1>3. CASE sort = "leave"
    BY <1>3, ClearedFollows DEF OnError
  <1>4. CASE /\ sort \notin {"logout", "leave"}
             /\ ~(sort \in {"profile", "permissions"} /\ t.waiting # {})
    BY <1>4 DEF OnError, Follows
  <1> QED
    BY <1>1, <1>2, <1>3, <1>4

\* A request that asks for a refresh is queued, starts it, or is given up; it
\* stays the request that it was.
LEMMA RenewFollows ==
    ASSUME NEW t \in GoodTab, NEW req, Proper(req), req.kind # "code"
    PROVE  /\ Follows(t, Renew(t, req).tab)
           /\ Launched(Renew(t, req).req)
           /\ Renew(t, req).req.kind \in {"none", req.kind}
  <1> DEFINE queued == [req EXCEPT !.pc = "queued", !.bearer = NoToken, !.reply = "none"]
             refresh == [req EXCEPT !.pc = "refresh", !.bearer = NoToken,
                                     !.presented = t.refresh, !.reply = "none"]
             busy == [t EXCEPT !.busy = TRUE]
  <1>1. Launched(queued) /\ queued.kind = req.kind
    BY DEF Launched, Proper, Request
  <1>2. CASE t.busy
    <2>1. Renew(t, req).tab = t /\ Renew(t, req).req = queued
      BY <1>2 DEF Renew
    <2> QED
      BY <1>1, <2>1 DEF Follows
  <1>3. CASE ~t.busy /\ (t.refresh = NoToken \/ t.access = NoToken)
    <2>1. Renew(t, req).tab = OnError(req.kind, Out(t)) /\ Renew(t, req).req = Idle
      BY <1>3 DEF Renew
    <2>2. Follows(t, Out(t)) /\ Out(t) \in GoodTab
      BY OutFollows DEF Follows
    <2>3. Follows(Out(t), OnError(req.kind, Out(t)))
      BY <2>2, OnErrorFollows
    <2>4. Follows(t, OnError(req.kind, Out(t)))
      BY <2>2, <2>3, FollowsOn
    <2> QED
      BY <2>1, <2>4, IdleProper DEF Idle
  <1>4. CASE ~t.busy /\ t.refresh # NoToken /\ t.access # NoToken
    <2>1. Renew(t, req).tab = busy /\ Renew(t, req).req = refresh
      BY <1>4 DEF Renew
    <2>2. Follows(t, busy)
      BY DEF Follows, GoodTab, Tab
    <2>3. Launched(refresh) /\ refresh.kind = req.kind
      BY <1>4 DEF Launched, Proper, Request, GoodTab, Tab
    <2> QED
      BY <2>1, <2>2, <2>3
  <1> QED
    BY <1>2, <1>3, <1>4

LEMMA LaunchFollows ==
    ASSUME NEW t \in GoodTab, NEW req, Launched(req), req.kind # "code"
    PROVE  /\ Follows(t, Launch(t, req).tab)
           /\ Launched(Launch(t, req).req)
           /\ Launch(t, req).req.kind \in {"none", req.kind}
  <1>1. CASE Expired(t.access)
    BY <1>1, RenewFollows DEF Launch, Launched
  <1>2. CASE ~Expired(t.access)
    <2> DEFINE started == [req EXCEPT !.pc = "sent", !.bearer = t.access]
    <2>1. Launch(t, req).tab = t /\ Launch(t, req).req = started
      BY <1>2 DEF Launch
    <2>2. t.access \in Token \cup {NoToken}
      BY DEF GoodTab, Tab
    <2>3. started \in Request /\ started.pc = "sent" /\ started.kind = req.kind
          /\ started.body = req.body /\ started.reply = req.reply
      BY <2>2 DEF Launched, Proper, Request
    <2>4. Launched(started)
      BY <2>3 DEF Launched, Proper
    <2> QED
      BY <2>1, <2>3, <2>4 DEF Follows
  <1> QED
    BY <1>1, <1>2

LEMMA OfLaunched ==
    /\ \A k \in {"profile", "permissions", "api", "leave"} :
          Launched(Of(k)) /\ Of(k).kind = k
    /\ \A token \in Token : token # NoToken =>
          /\ Launched([Of("logout") EXCEPT !.body = token])
          /\ [Of("logout") EXCEPT !.body = token].kind = "logout"
  BY DEF Of, Idle, Launched, Proper, Request

LEMMA GiveUpFollows ==
    ASSUME NEW t \in GoodTab, NEW sort
    PROVE  /\ Follows(t, GiveUp(t, sort).tab)
           /\ Launched(GiveUp(t, sort).req)
           /\ GiveUp(t, sort).req.kind \in {"none", "logout"}
  <1> DEFINE free == [t EXCEPT !.busy = FALSE]
             logout == [Of("logout") EXCEPT !.body = Held(free)]
             launched == IF Held(free) = NoToken
                           THEN [tab |-> Out(free), req |-> Idle]
                           ELSE Launch(free, logout)
  <1>1. free \in GoodTab /\ Follows(t, free) /\ Held(free) \in Token \cup {NoToken}
    <2>1. /\ free \in Tab /\ free.refresh = t.refresh /\ free.access = t.access
          /\ free.state = t.state /\ free.flow = t.flow
          /\ free.waiting = t.waiting /\ free.at = t.at
      BY DEF GoodTab, Tab
    <2>2. free.refresh \in Token \cup {NoToken}
      BY <2>1 DEF Tab
    <2> QED
      BY <2>1, <2>2 DEF Follows, GoodTab, Held
  <1>2. /\ Follows(free, launched.tab)
        /\ Launched(launched.req)
        /\ launched.req.kind \in {"none", "logout"}
    <2>1. CASE Held(free) = NoToken
      <3>1. Follows(free, Out(free))
        BY <1>1, OutFollows
      <3> QED
        BY <2>1, <3>1, IdleProper DEF Idle
    <2>2. CASE Held(free) # NoToken
      <3>1. Launched(logout) /\ logout.kind = "logout"
        BY <1>1, <2>2, OfLaunched
      <3>2. /\ Follows(free, Launch(free, logout).tab)
            /\ Launched(Launch(free, logout).req)
            /\ Launch(free, logout).req.kind \in {"none", "logout"}
        <4> HIDE DEF free, logout
        <4> QED
          BY <1>1, <3>1, LaunchFollows
      <3> QED
        BY <2>2, <3>2
    <2> QED
      BY <2>1, <2>2
  <1>3. GiveUp(t, sort).tab = OnError(sort, launched.tab) /\ GiveUp(t, sort).req = launched.req
    BY DEF GiveUp
  <1>4. Follows(launched.tab, OnError(sort, launched.tab))
    <2> HIDE DEF launched
    <2> QED
      BY <1>2, OnErrorFollows DEF Follows
  <1> HIDE DEF free, launched
  <1> QED
    BY <1>1, <1>2, <1>3, <1>4, FollowsOn

-----------------------------------------------------------------------------
(* Steps of the page: they change the tab and its requests.                *)

NoCode == \A c \in Slots : requests[c].kind # "code"

\* The invariant, when a handler has dealt with the tab and its requests and
\* the history of sign-outs is accounted for.
LEMMA HandlerKeeps ==
    ASSUME SInv, UNCHANGED <<flows, cookies, server, sent>>,
           Follows(tab, tab'), NoCode',
           requests' \in [Slots -> Request], \A c \in Slots : Proper(requests'[c]),
           \A c \in Slots : requests'[c].kind = "logout" /\ requests'[c].reply = "ok"
                            /\ requests'[c].pc # "refresh" => requests'[c].body.by \in server.revoked,
           quit' \subseteq server.revoked
    PROVE  SInv'
  <1>1. SessionTypeOK'
    <2>1. server.revoked \subseteq Flows
      BY DEF SInv, SessionTypeOK, Server
    <2> QED
      BY <2>1 DEF SInv, SessionTypeOK, Follows, GoodTab
  <1>2. Exchanging'
    <2>1. \A f \in Flows : sent'[f] <= 1 /\ (f > flows' => sent'[f] = 0)
      BY DEF SInv, Exchanging
    <2>2. tab'.state # NoFlow => /\ tab'.state <= flows' /\ tab'.flow = tab'.state
                               /\ sent'[tab'.state] = 0
      BY DEF SInv, Exchanging, Follows
    <2>3. tab'.waiting # {} => tab'.state = NoFlow
      BY DEF SInv, Exchanging, Follows
    <2>4. tab'.at = "away" => flows' # 0
      BY DEF SInv, Exchanging, Follows
    <2> QED
      BY <2>1, <2>2, <2>3, <2>4 DEF Exchanging, NoCode
  <1>3. Revoking'
    BY DEF Revoking
  <1> QED
    BY <1>1, <1>2, <1>3 DEF SInv

\* While a handler runs that is not the callback page's, no code is under way.
LEMMA NoCodeUnderWay ==
    ASSUME SInv
    PROVE  /\ tab.at # "callback" => NoCode
           /\ \A c \in Slots : requests[c].pc # "idle" /\ requests[c].kind # "code" => NoCode
           /\ Ready(tab)
  <1>1. tab.at # "callback" => NoCode
    BY DEF SInv, Exchanging, NoCode
  <1>2. ASSUME NEW c \in Slots, requests[c].pc # "idle", requests[c].kind # "code"
        PROVE  NoCode
    BY <1>2 DEF SInv, Exchanging, NoCode, Idle
  <1>3. Ready(tab)
    BY DEF SInv, SessionTypeOK, Exchanging, Ready, GoodTab
  <1> QED
    BY <1>1, <1>2, <1>3

\* A handler of the request in one slot.
LEMMA SlotKeeps ==
    ASSUME SInv, UNCHANGED <<flows, cookies, server, sent>>, quit' \subseteq server.revoked,
           NEW c \in Slots, NEW req, NoCode,
           Follows(tab, tab'), Launched(req), req.kind # "code",
           requests' = [requests EXCEPT ![c] = req]
    PROVE  SInv'
  <1>1. \A d \in Slots : requests'[d] = IF d = c THEN req ELSE requests[d]
    BY DEF SInv, SessionTypeOK
  <1>2. requests' \in [Slots -> Request] /\ \A d \in Slots : Proper(requests'[d])
    BY <1>1 DEF SInv, SessionTypeOK, Launched, Proper
  <1>3. \A d \in Slots : requests'[d].kind = "logout" /\ requests'[d].reply = "ok"
                         /\ requests'[d].pc # "refresh" => requests'[d].body.by \in server.revoked
    BY <1>1 DEF SInv, Revoking, Launched
  <1>4. NoCode'
    BY <1>1 DEF NoCode
  <1> QED
    BY <1>2, <1>3, <1>4, HandlerKeeps

LEMMA QuitStays ==
    ASSUME SInv, UNCHANGED quit
    PROVE  quit' \subseteq server.revoked
  BY DEF SInv, Revoking

LEMMA AskServerKeeps ==
    ASSUME SInv, NEW c \in Slots, AskServer(c)
    PROVE  SInv'
  <1>1. NoCode /\ tab \in GoodTab
    BY NoCodeUnderWay DEF AskServer, Ready
  <1>2. PICK req : req = Launch(tab, Of("api")).req
    OBVIOUS
  <1>3. Follows(tab, tab') /\ Launched(req) /\ req.kind # "code"
    <2>1. tab' = Launch(tab, Of("api")).tab
      BY DEF AskServer, Becomes
    <2>2. Launched(Of("api")) /\ Of("api").kind = "api"
      BY OfLaunched
    <2> QED
      BY <1>1, <1>2, <2>1, <2>2, LaunchFollows
  <1>4. requests' = [requests EXCEPT ![c] = req]
    BY <1>2 DEF AskServer, Becomes
  <1>5. UNCHANGED <<flows, cookies, server, sent>> /\ quit' \subseteq server.revoked
    BY QuitStays DEF AskServer
  <1> QED
    BY <1>1, <1>3, <1>4, <1>5, SlotKeeps

LEMMA HearKeeps ==
    ASSUME SInv, NEW c \in Slots, Hear(c)
    PROVE  SInv'
  <1> DEFINE req == requests[c]
             good == req.reply \in {"ok", "elsewhere"}
  <1>0. req.pc # "idle" /\ req.pc # "refresh" /\ req.kind # "code" /\ Proper(req)
    BY DEF Hear, Answered, Renewal, SInv
  <1>1. NoCode /\ Ready(tab) /\ tab \in GoodTab
    BY <1>0, NoCodeUnderWay DEF Ready
  <1>2. UNCHANGED <<flows, cookies, server, sent>>
    BY DEF Hear
  <1>3. quit' \subseteq server.revoked
    <2>1. CASE req.kind = "logout" /\ req.reply = "ok"
      <3>1. req.body.by \in server.revoked
        BY <1>0, <2>1 DEF SInv, Revoking
      <3>2. quit' = quit \cup {req.body.by}
        BY <2>1 DEF Hear
      <3> QED
        BY <3>1, <3>2 DEF SInv, Revoking
    <2>2. CASE ~(req.kind = "logout" /\ req.reply = "ok")
      BY <2>2, QuitStays DEF Hear
    <2> QED
      BY <2>1, <2>2
  <1>4. CASE good
    <2>1. tab' = OnSuccess(req.kind, tab) /\ requests' = [requests EXCEPT ![c] = Idle]
      BY <1>4 DEF Hear, Becomes
    <2>2. Follows(tab, tab')
      BY <1>1, <2>1, OnSuccessFollows
    <2>3. Launched(Idle) /\ Idle.kind # "code"
      BY IdleProper DEF Idle
    <2> QED
      BY <1>1, <1>2, <1>3, <2>1, <2>2, <2>3, SlotKeeps
  <1>5. CASE req.reply = "401" /\ req.pc = "sent"
    <2>1. PICK next : next = Renew(tab, req).req
      OBVIOUS
    <2>2. tab' = Renew(tab, req).tab /\ requests' = [requests EXCEPT ![c] = next]
      BY <1>5, <2>1 DEF Hear, Becomes
    <2>3. Follows(tab, tab') /\ Launched(next) /\ next.kind # "code"
      <3> HIDE DEF req
      <3> QED
        BY <1>0, <1>1, <2>1, <2>2, RenewFollows
    <2> QED
      BY <1>1, <1>2, <1>3, <2>2, <2>3, SlotKeeps
  <1>6. CASE ~good /\ req.pc = "retry"
    <2>1. PICK next : next = GiveUp(tab, req.kind).req
      OBVIOUS
    <2>2. tab' = GiveUp(tab, req.kind).tab /\ requests' = [requests EXCEPT ![c] = next]
      BY <1>6, <2>1 DEF Hear, Becomes
    <2>3. Follows(tab, tab') /\ Launched(next) /\ next.kind # "code"
      <3> HIDE DEF req
      <3> QED
        BY <1>1, <2>1, <2>2, GiveUpFollows
    <2> QED
      BY <1>1, <1>2, <1>3, <2>2, <2>3, SlotKeeps
  <1>7. CASE ~good /\ ~(req.reply = "401" /\ req.pc = "sent") /\ req.pc # "retry"
    <2>1. tab' = OnError(req.kind, tab) /\ requests' = [requests EXCEPT ![c] = Idle]
      BY <1>7 DEF Hear, Becomes
    <2>2. Follows(tab, tab')
      BY <1>1, <2>1, OnErrorFollows
    <2>3. Launched(Idle) /\ Idle.kind # "code"
      BY IdleProper DEF Idle
    <2> QED
      BY <1>1, <1>2, <1>3, <2>1, <2>2, <2>3, SlotKeeps
  <1> QED
    BY <1>4, <1>5, <1>6, <1>7

LEMMA RefreshedKeeps ==
    ASSUME SInv, NEW c \in Slots, Refreshed(c)
    PROVE  SInv'
  <1> DEFINE req == requests[c]
             fresh == req.bearer
  <1>0. req.pc = "refresh" /\ req.kind # "code" /\ Proper(req)
    <2>1. req.pc = "refresh" /\ Proper(req)
      BY DEF Refreshed, Renewal, SInv
    <2>2. req.kind # "code"
      BY <2>1 DEF SInv, Exchanging
    <2> QED
      BY <2>1, <2>2
  <1>1. NoCode /\ Ready(tab) /\ tab \in GoodTab
    BY <1>0, NoCodeUnderWay DEF Ready
  <1>2. UNCHANGED <<flows, cookies, server, sent>> /\ quit' \subseteq server.revoked
    BY QuitStays DEF Refreshed
  <1>3. CASE req.reply # "ok"
    <2>1. PICK next : next = GiveUp(tab, req.kind).req
      OBVIOUS
    <2>2. tab' = GiveUp(tab, req.kind).tab /\ requests' = [requests EXCEPT ![c] = next]
      BY <1>3, <2>1 DEF Refreshed, Becomes
    <2>3. Follows(tab, tab') /\ Launched(next) /\ next.kind # "code"
      <3> HIDE DEF req
      <3> QED
        BY <1>1, <2>1, <2>2, GiveUpFollows
    <2> QED
      BY <1>1, <1>2, <2>2, <2>3, SlotKeeps
  <1>4. CASE req.reply = "ok" /\ Expired(fresh)
    <2>1. PICK next : next = GiveUp(Cleared(tab), req.kind).req
      OBVIOUS
    <2>2. tab' = GiveUp(Cleared(tab), req.kind).tab /\ requests' = [requests EXCEPT ![c] = next]
      BY <1>4, <2>1 DEF Refreshed, Becomes
    <2>3. Follows(tab, Cleared(tab)) /\ Cleared(tab) \in GoodTab
      BY <1>1, ClearedFollows DEF Follows
    <2>4. Follows(tab, tab') /\ Launched(next) /\ next.kind # "code"
      <3> HIDE DEF req
      <3> QED
        BY <2>1, <2>2, <2>3, GiveUpFollows, FollowsOn
    <2> QED
      BY <1>1, <1>2, <2>2, <2>4, SlotKeeps
  <1>5. CASE req.reply = "ok" /\ ~Expired(fresh)
    <2> DEFINE again == [req EXCEPT !.pc = "retry", !.reply = "none", !.presented = NoToken]
    <2>1. tab' = [Save(tab, fresh, fresh) EXCEPT !.busy = FALSE]
      BY <1>5 DEF Refreshed
    <2>2. \A d \in Slots : requests'[d] = IF d = c THEN again
                             ELSE IF requests[d].pc = "queued"
                               THEN [requests[d] EXCEPT !.pc = "late", !.bearer = fresh]
                               ELSE requests[d]
      BY <1>5 DEF Refreshed
    <2>3. fresh \in Token \cup {NoToken}
      BY <1>0 DEF Proper, Request
    <2>4. Follows(tab, tab')
      BY <1>1, <2>1, <2>3 DEF Follows, Save, GoodTab, Tab
    <2>5. again \in Request /\ Proper(again) /\ again.kind = req.kind /\ again.reply = "none"
      BY <1>0 DEF Proper, Request
    <2>6. ASSUME NEW d \in Slots
          PROVE  /\ Proper(requests'[d]) /\ requests'[d].kind = requests[d].kind
                 /\ d # c => /\ requests'[d].reply = requests[d].reply
                             /\ requests'[d].body = requests[d].body
                             /\ requests'[d].pc = "refresh" <=> requests[d].pc = "refresh"
      <3>1. Proper(requests[d])
        BY DEF SInv
      <3>2. CASE d = c
        BY <2>2, <2>5, <3>2
      <3>3. CASE d # c /\ requests[d].pc = "queued"
        <4>1. requests[d].kind # "code"
          BY <1>1 DEF NoCode
        <4>2. PICK r \in Request : r = requests[d] /\ Proper(r) /\ r.kind # "code"
          BY <3>1, <4>1 DEF Proper
        <4> DEFINE late == [r EXCEPT !.pc = "late", !.bearer = fresh]
        <4>3. /\ late \in Request /\ late.kind = r.kind /\ late.reply = r.reply
              /\ late.body = r.body /\ late.pc = "late"
          BY <2>3 DEF Request
        <4>4. Proper(late)
          BY <4>2, <4>3 DEF Proper
        <4>5. requests'[d] = late
          BY <2>2, <3>3, <4>2
        <4> HIDE DEF late
        <4> QED
          BY <3>3, <4>2, <4>3, <4>4, <4>5
      <3>4. CASE d # c /\ requests[d].pc # "queued"
        BY <2>2, <3>1, <3>4
      <3> QED
        BY <3>2, <3>3, <3>4
    <2>7. requests' \in [Slots -> Request]
      <3>1. requests' = [d \in Slots |-> requests'[d]]
        BY <1>5 DEF Refreshed
      <3> QED
        BY <2>6, <3>1 DEF Proper
    <2>8. NoCode'
      BY <1>1, <2>6 DEF NoCode
    <2>9. \A d \in Slots : requests'[d].kind = "logout" /\ requests'[d].reply = "ok"
                           /\ requests'[d].pc # "refresh" => requests'[d].body.by \in server.revoked
      <3> SUFFICES ASSUME NEW d \in Slots, requests'[d].kind = "logout", requests'[d].reply = "ok",
                          requests'[d].pc # "refresh"
                   PROVE  requests'[d].body.by \in server.revoked
        OBVIOUS
      <3>1. d # c
        BY <2>2, <2>5
      <3> QED
        BY <2>6, <3>1 DEF SInv, Revoking
    <2> QED
      BY <1>2, <2>4, <2>6, <2>7, <2>8, <2>9, HandlerKeeps
  <1> QED
    BY <1>3, <1>4, <1>5

LEMMA SignOutKeeps ==
    ASSUME SInv, NEW c \in Slots, SignOut(c)
    PROVE  SInv'
  <1>1. NoCode /\ tab \in GoodTab
    BY NoCodeUnderWay DEF SignOut, Ready
  <1>2. UNCHANGED <<flows, cookies, server, sent>>
    BY DEF SignOut
  <1>3. CASE Held(tab) = NoToken
    <2>1. tab' = Out(tab) /\ requests' = [requests EXCEPT ![c] = Idle]
      BY <1>3 DEF SignOut, Becomes
    <2>2. quit' = quit
      BY <1>3, FlowZero DEF SignOut, Held, NoToken
    <2>3. Follows(tab, tab') /\ Launched(Idle) /\ Idle.kind # "code"
      BY <1>1, <2>1, OutFollows, IdleProper DEF Idle
    <2> QED
      BY <1>1, <1>2, <2>1, <2>2, <2>3, QuitStays, SlotKeeps
  <1>4. CASE Held(tab) # NoToken
    <2> DEFINE logout == [Of("logout") EXCEPT !.body = Held(tab)]
    <2>1. PICK req : req = Launch(tab, logout).req
      OBVIOUS
    <2>2. tab' = Launch(tab, logout).tab /\ requests' = [requests EXCEPT ![c] = req] /\ quit' = quit
      BY <1>4, <2>1 DEF SignOut, Becomes
    <2>3. Launched(logout) /\ logout.kind = "logout"
      <3>1. Held(tab) \in Token
        BY <1>1, <1>4 DEF Held, GoodTab, Tab
      <3> QED
        BY <1>4, <3>1, OfLaunched
    <2>4. Follows(tab, tab') /\ Launched(req) /\ req.kind # "code"
      <3> HIDE DEF logout
      <3> QED
        BY <1>1, <2>1, <2>2, <2>3, LaunchFollows
    <2> QED
      BY <1>1, <1>2, <2>2, <2>4, QuitStays, SlotKeeps
  <1> QED
    BY <1>3, <1>4

\* A page load: of the old page's requests none is left, and c is a new one.
LEMMA LoadKeeps ==
    ASSUME SInv, UNCHANGED <<flows, cookies, server, sent, quit>>, Follows(tab, tab'),
           \A c \in Slots : requests'[c] = Idle \/ (Launched(requests'[c]) /\ requests'[c].kind # "code"),
           requests' \in [Slots -> Request]
    PROVE  SInv'
  <1>1. \A c \in Slots : Launched(requests'[c]) /\ requests'[c].kind # "code"
    BY IdleProper DEF Idle
  <1>2. NoCode' /\ quit' \subseteq server.revoked
    BY <1>1, QuitStays DEF NoCode
  <1> QED
    BY <1>1, <1>2, HandlerKeeps DEF Launched

LEMMA LoadedFollows ==
    ASSUME NEW t \in GoodTab, NEW at \in {"login", "callback", "failed", "app", "bye"}
    PROVE  Follows(t, Loaded(t, at)) /\ Loaded(t, at).waiting = {} /\ Loaded(t, at) \in GoodTab
  <1>1. PICK u : u = Loaded(t, at)
    OBVIOUS
  <1>2. /\ u \in Tab /\ u.refresh = t.refresh /\ u.access = t.access
        /\ u.state = t.state /\ u.flow = t.flow /\ u.waiting = {} /\ u.at = at
    BY <1>1 DEF GoodTab, Loaded, Tab
  <1> QED
    BY <1>1, <1>2 DEF GoodTab, Follows

LEMMA NoRequestsType == NoRequests \in [Slots -> Request] /\ \A c \in Slots : NoRequests[c] = Idle
  BY IdleProper DEF NoRequests, Launched, Proper

LEMMA VisitKeeps ==
    ASSUME SInv, Visit
    PROVE  SInv'
  <1>1. tab \in GoodTab
    BY NoCodeUnderWay DEF Ready
  <1>2. Follows(tab, Loaded(tab, "app")) /\ Loaded(tab, "app") \in GoodTab
    BY <1>1, LoadedFollows
  <1>3. Follows(tab, EnterConsole(Loaded(tab, "app")))
    BY <1>2, EnterConsoleFollows, FollowsOn
  <1>4. Follows(tab, Loaded(tab, "login"))
    BY <1>1, LoadedFollows
  <1>5. Follows(tab, tab')
    BY <1>3, <1>4 DEF Visit
  <1> QED
    BY <1>5, NoRequestsType, LoadKeeps DEF Visit

LEMMA LeaveSessionKeeps ==
    ASSUME SInv, NEW c \in Slots, LeaveSession(c)
    PROVE  SInv'
  <1> DEFINE bye == Loaded(tab, "bye")
  <1>1. PICK req : req = Launch(bye, Of("leave")).req
    OBVIOUS
  <1>2. /\ tab' = Launch(bye, Of("leave")).tab /\ requests' = [NoRequests EXCEPT ![c] = req]
        /\ UNCHANGED <<flows, cookies, server, sent, quit>>
    BY <1>1 DEF LeaveSession
  <1>3. Follows(tab, bye) /\ bye \in GoodTab
    BY NoCodeUnderWay, LoadedFollows DEF Ready
  <1>4. Launched(Of("leave")) /\ Of("leave").kind = "leave"
    BY OfLaunched
  <1>5. Follows(tab, tab') /\ Launched(req) /\ req.kind # "code"
    <2> HIDE DEF bye
    <2> QED
      BY <1>1, <1>2, <1>3, <1>4, LaunchFollows, FollowsOn
  <1>6. \A d \in Slots : requests'[d] = IF d = c THEN req ELSE Idle
    BY <1>2, NoRequestsType
  <1>7. requests' \in [Slots -> Request]
    BY <1>2, <1>5, NoRequestsType DEF Launched, Proper
  <1> QED
    BY <1>2, <1>5, <1>6, <1>7, LoadKeeps

LEMMA LookKeeps ==
    ASSUME SInv, Look
    PROVE  SInv'
  <1>1. NoCode /\ tab \in GoodTab
    BY NoCodeUnderWay DEF Look, Ready
  <1>2. Follows(tab, tab')
    BY <1>1, ClearedFollows DEF Look
  <1>3. NoCode' /\ requests' = requests
    BY <1>1 DEF Look, NoCode
  <1> QED
    BY <1>2, <1>3, QuitStays, HandlerKeeps DEF Look, SInv, SessionTypeOK, Revoking

LEMMA DeclineSignInKeeps ==
    ASSUME SInv, DeclineSignIn
    PROVE  SInv'
  <1>1. NoCode /\ tab \in GoodTab
    BY NoCodeUnderWay DEF DeclineSignIn, Ready
  <1>2. Follows(tab, tab')
    <2> DEFINE back == [tab EXCEPT !.at = "callback"]
    <2>1. Follows(tab, back) /\ back \in GoodTab
      BY <1>1 DEF Follows, GoodTab, Tab
    <2>2. Follows(back, Failed(back))
      BY <2>1, FailedFollows
    <2> QED
      BY <2>1, <2>2, FollowsOn DEF DeclineSignIn
  <1>3. NoCode' /\ requests' = requests
    BY <1>1 DEF DeclineSignIn, NoCode
  <1> QED
    BY <1>2, <1>3, QuitStays, HandlerKeeps DEF DeclineSignIn, SInv, SessionTypeOK, Revoking

LEMMA ExchangedKeeps ==
    ASSUME SInv, NEW c \in Slots, NEW d \in Slots, Exchanged(c, d)
    PROVE  SInv'
  <1> DEFINE access == requests[c].bearer
             refresh == IF requests[c].reply = "ok" THEN access ELSE tab.refresh
             known == [Save(tab, access, refresh) EXCEPT !.nonce = NoFlow,
                                                          !.waiting = {"profile", "permissions"}]
  <1>0. tab \in GoodTab
    BY NoCodeUnderWay DEF Ready
  <1>1. access \in Token /\ access # NoToken /\ tab.state = NoFlow
    BY DEF Exchanged, SInv, Proper, Exchanging, Request
  <1>2. UNCHANGED <<flows, cookies, server, sent, quit>>
    BY DEF Exchanged
  <1>3. CASE requests[c].reply = "refused" \/ Expired(access)
    <2>1. tab' = Failed(Cleared(tab)) /\ requests' = NoRequests
      BY <1>3 DEF Exchanged
    <2>2. Follows(tab, tab')
      BY <1>0, <2>1, ClearedFollows, FailedFollows, FollowsOn DEF Follows
    <2> QED
      BY <1>2, <2>1, <2>2, NoRequestsType, LoadKeeps
  <1>4. CASE /\ ~(requests[c].reply = "refused" \/ Expired(access))
             /\ tab.nonce \notin {access.by, NoFlow}
    <2>1. tab' = Failed(tab) /\ requests' = NoRequests
      BY <1>4 DEF Exchanged
    <2>2. Follows(tab, tab')
      BY <1>0, <2>1, FailedFollows
    <2> QED
      BY <1>2, <2>1, <2>2, NoRequestsType, LoadKeeps
  <1>5. CASE /\ ~(requests[c].reply = "refused" \/ Expired(access))
             /\ tab.nonce \in {access.by, NoFlow}
    <2>1. PICK first, second : /\ first = Launch(known, Of("profile")).req
                               /\ second = Launch(known, Of("permissions")).req
      OBVIOUS
    <2>2. /\ tab' = known /\ d # c
          /\ requests' = [NoRequests EXCEPT ![c] = first, ![d] = second]
      BY <1>5, <2>1 DEF Exchanged
    <2>3. known \in GoodTab /\ known.state = NoFlow /\ known.at = "callback"
      <3>1. tab.at = "callback"
        BY DEF Exchanged, SInv, Exchanging
      <3> QED
        BY <1>0, <1>1, <3>1 DEF Save, GoodTab, Tab, NoFlow
    <2>4. Launched(first) /\ first.kind # "code" /\ Launched(second) /\ second.kind # "code"
      <3>1. /\ Launched(Of("profile")) /\ Of("profile").kind = "profile"
            /\ Launched(Of("permissions")) /\ Of("permissions").kind = "permissions"
        BY OfLaunched
      <3> HIDE DEF known
      <3> QED
        BY <2>1, <2>3, <3>1, LaunchFollows
    <2>5. \A e \in Slots : requests'[e] = IF e = d THEN second ELSE IF e = c THEN first ELSE Idle
      BY <2>2, NoRequestsType
    <2>6. requests' \in [Slots -> Request]
      BY <2>2, <2>4, NoRequestsType DEF Launched, Proper
    <2>7. SessionTypeOK'
      BY <1>2, <2>2, <2>3, <2>6 DEF SInv, SessionTypeOK, GoodTab
    <2>8. \A e \in Slots : Launched(requests'[e]) /\ requests'[e].kind # "code"
      BY <2>4, <2>5, IdleProper DEF Idle
    <2>9. Exchanging'
      BY <1>2, <2>2, <2>3, <2>8 DEF SInv, Exchanging, NoFlow
    <2>10. Revoking'
      BY <1>2, <2>8 DEF SInv, Revoking, Launched
    <2> QED
      BY <2>7, <2>8, <2>9, <2>10 DEF SInv, Launched
  <1> QED
    BY <1>3, <1>4, <1>5

-----------------------------------------------------------------------------
(* Steps that start a sign-in or spend its code.                           *)

LEMMA StartKeeps ==
    ASSUME SInv, Start
    PROVE  SInv'
  <1>1. flows \in Nat /\ flows + 1 \in Flows /\ flows + 1 # NoFlow /\ flows' = flows + 1
    BY FlowsAreCounted DEF Start, SInv, SessionTypeOK, Flows, NoFlow
  <1>2. /\ tab' \in GoodTab /\ tab'.state = flows' /\ tab'.flow = flows'
        /\ tab'.waiting = {} /\ tab'.at = "away"
    <2>1. tab' = [Loaded(tab, "away") EXCEPT !.state = flows', !.nonce = flows', !.flow = flows']
      BY DEF Start
    <2>2. /\ Loaded(tab, "away") \in GoodTab /\ Loaded(tab, "away").waiting = {}
          /\ Loaded(tab, "away").at = "away"
      BY NoCodeUnderWay DEF Ready, GoodTab, Tab, Loaded
    <2> HIDE DEF Loaded
    <2> QED
      BY <1>1, <2>1, <2>2 DEF GoodTab, Tab
  <1>3. requests' = NoRequests /\ UNCHANGED <<cookies, server, sent, quit>>
    BY DEF Start
  <1>4. \A c \in Slots : requests'[c] = Idle
    BY <1>3, NoRequestsType
  <1>5. SessionTypeOK'
    BY <1>1, <1>2, <1>3, NoRequestsType DEF SInv, SessionTypeOK, GoodTab, Flows
  <1>6. \A c \in Slots : Launched(requests'[c]) /\ requests'[c].kind \notin {"code", "logout"}
    BY <1>4, IdleProper DEF Idle
  <1>7. Exchanging'
    <2>1. sent[flows + 1] = 0
      BY <1>1 DEF SInv, Exchanging
    <2>2. \A f \in Flows : sent'[f] <= 1 /\ (f > flows' => sent'[f] = 0)
      BY <1>1, <1>3 DEF SInv, Exchanging, Flows
    <2> QED
      BY <1>1, <1>2, <1>3, <1>6, <2>1, <2>2 DEF Exchanging
  <1>8. Revoking'
    BY <1>3, <1>6 DEF SInv, Revoking
  <1> QED
    BY <1>5, <1>6, <1>7, <1>8 DEF SInv, Launched

LEMMA CallbackKeeps ==
    ASSUME SInv, NEW f \in Flows, NEW c \in Slots, Callback(f, c)
    PROVE  SInv'
  <1> DEFINE t == Loaded(tab, "callback")
  <1>0. tab \in GoodTab
    BY NoCodeUnderWay DEF Ready
  <1>1. /\ t \in GoodTab /\ Follows(tab, t) /\ t.waiting = {} /\ t.at = "callback"
        /\ t.flow = tab.flow /\ t.state = tab.state
    <2>1. t \in GoodTab /\ Follows(tab, t) /\ t.waiting = {}
      BY <1>0, LoadedFollows
    <2>2. t.at = "callback" /\ t.flow = tab.flow /\ t.state = tab.state
      BY <1>0 DEF Loaded, GoodTab, Tab
    <2> QED
      BY <2>1, <2>2
  <1>2. UNCHANGED <<flows, cookies, server, quit>>
    BY DEF Callback
  <1>3. CASE tab.state # f
    <2>1. tab' = Failed(t) /\ requests' = NoRequests /\ UNCHANGED sent
      BY <1>3 DEF Callback
    <2>2. Follows(tab, tab')
      <3> HIDE DEF t
      <3> QED
        BY <1>1, <2>1, FailedFollows, FollowsOn
    <2> QED
      BY <1>2, <2>1, <2>2, NoRequestsType, LoadKeeps
  <1>4. CASE tab.state = f
    <2> DEFINE bearer == [by |-> f, gen |-> 1]
               req == [Of("code") EXCEPT !.pc = "late", !.bearer = bearer]
    <2>1. /\ tab' = Validated(t) /\ requests' = [NoRequests EXCEPT ![c] = req]
          /\ sent' = [sent EXCEPT ![f] = @ + 1]
      BY <1>4 DEF Callback
    <2>2. /\ tab' \in GoodTab /\ tab'.state = NoFlow /\ tab'.waiting = {}
          /\ tab'.at = "callback" /\ tab'.flow = tab.flow
      <3> HIDE DEF t
      <3> QED
        BY <1>1, <2>1 DEF Validated, GoodTab, Tab
    <2>3. bearer \in Token /\ bearer # NoToken /\ bearer.by = f
      BY TokensAreCounted DEF Token, NoToken
    <2>4. /\ Proper(req) /\ req.kind = "code" /\ req.pc = "late"
          /\ req.bearer = bearer
      <3> HIDE DEF bearer
      <3> QED
        BY <2>3 DEF Of, Idle, Proper, Request
    <2>5. \A d \in Slots : requests'[d] = IF d = c THEN req ELSE Idle
      BY <2>1, NoRequestsType
    <2>6. sent[f] = 0 /\ tab.flow = f /\ f <= flows
      <3>1. f # NoFlow
        BY FlowZero
      <3> QED
        BY <1>4, <3>1 DEF SInv, Exchanging
    <2>7. sent' \in [Flows -> 0 .. 2] /\ \A g \in Flows : sent'[g] = IF g = f THEN 1 ELSE sent[g]
      BY <2>1, <2>6 DEF SInv, SessionTypeOK
    <2> HIDE DEF req
    <2>8. SessionTypeOK'
      <3>1. requests' \in [Slots -> Request]
        BY <2>1, <2>4, NoRequestsType DEF Proper
      <3> QED
        BY <1>2, <2>2, <2>7, <3>1 DEF SInv, SessionTypeOK, GoodTab
    <2>9. \A d \in Slots : Proper(requests'[d])
      BY <2>4, <2>5, IdleProper DEF Launched
    <2>10. Exchanging'
      <3>1. \A g \in Flows : sent'[g] <= 1 /\ (g > flows' => sent'[g] = 0)
        BY <1>2, <2>6, <2>7 DEF SInv, Exchanging, SessionTypeOK, Flows
      <3>2. ASSUME NEW d \in Slots, requests'[d].kind = "code"
            PROVE  /\ requests'[d].pc = "late" /\ tab'.flow = requests'[d].bearer.by
                   /\ \A e \in Slots \ {d} : requests'[e] = Idle
        <4>1. d = c
          BY <2>5, <3>2 DEF Idle
        <4> QED
          BY <2>2, <2>3, <2>4, <2>5, <2>6, <4>1
      <3> QED
        BY <2>2, <3>1, <3>2 DEF Exchanging
    <2>11. Revoking'
      <3>1. \A d \in Slots : requests'[d].kind # "logout"
        BY <2>4, <2>5 DEF Idle
      <3> QED
        BY <1>2, <3>1 DEF SInv, Revoking
    <2> QED
      BY <2>8, <2>9, <2>10, <2>11 DEF SInv
  <1> QED
    BY <1>3, <1>4

-----------------------------------------------------------------------------
(* Steps of the server, of the network and of time.                        *)

\* The tab is as it was, and of the requests only answers have changed: whoever
\* is told that a logout was done finds its sign-in among those revoked.
LEMMA AnswerKeeps ==
    ASSUME SInv, UNCHANGED <<tab, flows, sent, quit>>,
           cookies' \in Cookies, server' \in Server, server.revoked \subseteq server'.revoked,
           NEW c \in Slots, NEW req, Proper(req), requests' = [requests EXCEPT ![c] = req],
           req.kind = requests[c].kind, req.pc = requests[c].pc, requests[c].pc # "idle",
           req.kind = "code" => req.bearer.by = requests[c].bearer.by,
           req.kind = "logout" /\ req.reply = "ok" /\ req.pc # "refresh" =>
              req.body.by \in server'.revoked
    PROVE  SInv'
  <1>1. \A d \in Slots : requests'[d] = IF d = c THEN req ELSE requests[d]
    BY DEF SInv, SessionTypeOK
  <1>2. requests' \in [Slots -> Request] /\ \A d \in Slots : Proper(requests'[d])
    BY <1>1 DEF SInv, SessionTypeOK, Proper
  <1>3. SessionTypeOK'
    <2>1. quit' \subseteq Flows
      BY DEF SInv, SessionTypeOK
    <2> QED
      BY <1>2, <2>1 DEF SInv, SessionTypeOK
  <1>4. Exchanging'
    <2>1. ASSUME NEW d \in Slots, requests'[d].kind = "code"
          PROVE  /\ requests'[d].pc = "late" /\ tab'.at = "callback"
                 /\ tab'.state = NoFlow /\ tab'.waiting = {} /\ tab'.flow = requests'[d].bearer.by
                 /\ \A e \in Slots \ {d} : requests'[e] = Idle
      <3>1. requests[d].kind = "code"
        BY <1>1, <2>1
      <3>2. /\ requests[d].pc = "late" /\ tab.at = "callback"
            /\ tab.state = NoFlow /\ tab.waiting = {} /\ tab.flow = requests[d].bearer.by
            /\ \A e \in Slots \ {d} : requests[e] = Idle
        BY <3>1 DEF SInv, Exchanging
      <3>3. d = c
        BY <3>2 DEF Idle
      <3> QED
        BY <1>1, <2>1, <3>2, <3>3
    <2> QED
      BY <2>1 DEF SInv, Exchanging
  <1>5. Revoking'
    BY <1>1 DEF SInv, Revoking
  <1> QED
    BY <1>2, <1>3, <1>4, <1>5 DEF SInv

\* A step that leaves the page alone altogether.
LEMMA ServerKeeps ==
    ASSUME SInv, UNCHANGED <<tab, requests, flows, sent, quit>>,
           cookies' \in Cookies, server' \in Server, server.revoked \subseteq server'.revoked
    PROVE  SInv'
  <1>1. SessionTypeOK'
    BY DEF SInv, SessionTypeOK
  <1>2. Exchanging'
    BY DEF SInv, Exchanging
  <1>3. Revoking'
    BY DEF SInv, Revoking
  <1> QED
    BY <1>1, <1>2, <1>3 DEF SInv

\* An answer changes nothing of a request but its reply.
LEMMA Replied ==
    ASSUME SInv, NEW c \in Slots, NEW r \in {"ok", "bare", "elsewhere", "401", "refused"},
           Reply(c, r)
    PROVE  \E req : /\ Proper(req) /\ requests' = [requests EXCEPT ![c] = req]
                     /\ req.kind = requests[c].kind /\ req.pc = requests[c].pc
                     /\ req.bearer = requests[c].bearer /\ req.body = requests[c].body
                     /\ req.reply = r
  <1> DEFINE req == [requests[c] EXCEPT !.reply = r]
  <1>1. Proper(requests[c])
    BY DEF SInv
  <1>2. /\ Proper(req) /\ req.kind = requests[c].kind /\ req.pc = requests[c].pc
        /\ req.bearer = requests[c].bearer /\ req.body = requests[c].body /\ req.reply = r
    BY <1>1 DEF Proper, Request
  <1>3. requests' = [requests EXCEPT ![c] = req]
    BY DEF Reply
  <1> QED
    BY <1>2, <1>3

LEMMA AskUserKeeps ==
    ASSUME SInv, AskUser \/ Forget
    PROVE  SInv'
  <1>1. cookies' \in Cookies /\ server' = server /\ UNCHANGED <<tab, requests, flows, sent, quit>>
    BY DEF AskUser, Forget, SInv, SessionTypeOK, Cookies
  <1> QED
    BY <1>1, ServerKeeps DEF SInv, SessionTypeOK

LEMMA GrantKeeps ==
    ASSUME SInv, NEW s \in Flows, Grant(s)
    PROVE  SInv'
  <1>1. flows \in Flows
    <2>1. flows \in 0 .. MaxFlows /\ server \in Server /\ server.live \subseteq Flows
      BY DEF SInv, SessionTypeOK, Server
    <2>2. flows # 0
      BY DEF Grant, SInv, Exchanging
    <2> QED
      BY <2>1, <2>2, FlowsAreCounted DEF Flows
  <1>2. cookies' \in Cookies /\ UNCHANGED <<tab, requests, flows, sent, quit>>
    BY DEF Grant, Cookies
  <1>3. server' \in Server /\ server'.revoked = server.revoked
    BY <1>1 DEF Grant, SInv, SessionTypeOK, Server
  <1> QED
    BY <1>2, <1>3, ServerKeeps

LEMMA ExpireKeeps ==
    ASSUME SInv, NEW f \in Flows, Expire(f)
    PROVE  SInv'
  <1>1. UNCHANGED <<tab, requests, flows, cookies, sent, quit>>
    BY DEF Expire
  <1>2. server.expired[f] + 1 \in 0 .. MaxTokens
    BY TokensAreCounted DEF Expire, SInv, SessionTypeOK, Server
  <1>3. server' \in Server /\ server'.revoked = server.revoked
    BY <1>2 DEF Expire, SInv, SessionTypeOK, Server
  <1> QED
    BY <1>1, <1>3, ServerKeeps DEF SInv, SessionTypeOK

LEMMA AnsweredKeeps ==
    ASSUME SInv, NEW c \in Slots, Answer(c)
    PROVE  SInv'
  <1>1. PICK r \in {"ok", "401", "refused"} : Reply(c, r)
    BY DEF Answer
  <1>2. PICK req : /\ Proper(req) /\ requests' = [requests EXCEPT ![c] = req]
                    /\ req.kind = requests[c].kind /\ req.pc = requests[c].pc
                    /\ req.bearer = requests[c].bearer
    BY <1>1, Replied
  <1>3. requests[c].kind # "logout" /\ requests[c].pc # "idle"
        /\ UNCHANGED <<tab, flows, cookies, server, sent, quit>>
    BY DEF Answer, Unanswered
  <1> QED
    BY <1>2, <1>3, AnswerKeeps DEF SInv, SessionTypeOK

LEMMA LoseKeeps ==
    ASSUME SInv, NEW c \in Slots, Lose(c)
    PROVE  SInv'
  <1>1. PICK req : /\ Proper(req) /\ requests' = [requests EXCEPT ![c] = req]
                    /\ req.kind = requests[c].kind /\ req.pc = requests[c].pc
                    /\ req.bearer = requests[c].bearer /\ req.reply = "refused"
    BY Replied DEF Lose
  <1>2. requests[c].pc # "idle" /\ UNCHANGED <<tab, flows, cookies, server, sent, quit>>
    BY DEF Lose
  <1> QED
    BY <1>1, <1>2, AnswerKeeps DEF SInv, SessionTypeOK

LEMMA RedeemKeeps ==
    ASSUME SInv, NEW c \in Slots, Redeem(c)
    PROVE  SInv'
  <1> DEFINE f == requests[c].bearer.by
  <1>0. PICK r \in {"ok", "bare", "refused"} : Reply(c, r)
    BY DEF Redeem
  <1>1. PICK req : /\ Proper(req) /\ requests' = [requests EXCEPT ![c] = req]
                    /\ req.kind = requests[c].kind /\ req.pc = requests[c].pc
                    /\ req.bearer = requests[c].bearer
    BY <1>0, Replied
  <1>2. /\ requests[c].kind = "code" /\ requests[c].pc # "idle"
        /\ UNCHANGED <<tab, flows, cookies, sent, quit>>
    BY DEF Redeem, Unanswered
  <1>3. server' \in Server /\ server'.revoked = server.revoked
    <2>1. f \in server.codes => f \in Flows
      BY DEF SInv, SessionTypeOK, Server
    <2>2. CASE f \in server.codes /\ tab.flow = f
      <3>1. server' = [server EXCEPT !.codes = @ \ {f}, !.tokens[f] = 1]
        BY <2>2 DEF Redeem
      <3>2. f \in Flows /\ 1 \in 0 .. MaxTokens
        BY <2>1, <2>2, TokensAreCounted
      <3> HIDE DEF f
      <3> QED
        BY <3>1, <3>2 DEF SInv, SessionTypeOK, Server
    <2>3. CASE ~(f \in server.codes /\ tab.flow = f)
      <3>1. server' = [server EXCEPT !.codes = @ \ {f}]
        BY <2>3 DEF Redeem
      <3> HIDE DEF f
      <3> QED
        BY <3>1 DEF SInv, SessionTypeOK, Server
    <2> QED
      BY <2>2, <2>3
  <1> QED
    BY <1>1, <1>2, <1>3, AnswerKeeps DEF SInv, SessionTypeOK

LEMMA RotateKeeps ==
    ASSUME SInv, NEW c \in Slots, Rotate(c)
    PROVE  SInv'
  <1> DEFINE f == requests[c].presented.by
  <1>0. /\ requests[c].pc = "refresh" /\ Proper(requests[c])
        /\ UNCHANGED <<tab, flows, cookies, sent, quit>>
    BY DEF Rotate, Renewal, SInv
  <1>1. f \in Flows
    BY <1>0, TokenFields DEF Proper, Request
  <1>2. CASE /\ f \notin server.revoked
             /\ server.tokens[f] < MaxTokens
             /\ server' = [server EXCEPT !.tokens[f] = @ + 1]
             /\ requests' = [requests EXCEPT ![c].reply = "ok",
                              ![c].bearer = [by |-> f, gen |-> server'.tokens[f]]]
    <2>1. server.tokens[f] + 1 \in 1 .. MaxTokens
      BY <1>1, <1>2, TokensAreCounted DEF SInv, SessionTypeOK, Server
    <2>2. /\ server' \in Server /\ server'.revoked = server.revoked
          /\ server'.tokens[f] = server.tokens[f] + 1
      <3> HIDE DEF f
      <3> QED
        BY <1>1, <1>2, <2>1, TokensAreCounted DEF SInv, SessionTypeOK, Server
    <2> DEFINE bearer == [by |-> f, gen |-> server.tokens[f] + 1]
               req == [requests[c] EXCEPT !.reply = "ok", !.bearer = bearer]
    <2>3. bearer \in Token /\ bearer # NoToken
      BY <1>1, <2>1, FlowZero DEF Token, NoToken
    <2>4. Proper(req) /\ req.kind = requests[c].kind /\ req.pc = "refresh"
      <3> HIDE DEF bearer
      <3> QED
        BY <1>0, <2>3 DEF Proper, Request
    <2>5. requests' = [requests EXCEPT ![c] = req]
      BY <1>2, <2>2
    <2>6. req.kind # "code"
      BY <1>0, <2>4 DEF SInv, Exchanging
    <2> HIDE DEF req
    <2> QED
      BY <1>0, <2>2, <2>4, <2>5, <2>6, AnswerKeeps DEF SInv, SessionTypeOK
  <1>3. CASE /\ Reply(c, "refused")
             /\ server' = server \/ server' = [server EXCEPT !.revoked = @ \cup {f}]
    <2>1. PICK req : /\ Proper(req) /\ requests' = [requests EXCEPT ![c] = req]
                      /\ req.kind = requests[c].kind /\ req.pc = requests[c].pc
                      /\ req.bearer = requests[c].bearer /\ req.reply = "refused"
      BY <1>3, Replied
    <2>2. server' \in Server /\ server.revoked \subseteq server'.revoked
      <3> HIDE DEF f
      <3> QED
        BY <1>1, <1>3 DEF SInv, SessionTypeOK, Server
    <2> QED
      BY <1>0, <2>1, <2>2, AnswerKeeps DEF SInv, SessionTypeOK
  <1> QED
    BY <1>2, <1>3 DEF Rotate

LEMMA LogoutKeeps ==
    ASSUME SInv, NEW c \in Slots, Logout(c)
    PROVE  SInv'
  <1> DEFINE sid == cookies.sid
             ofSession == {f \in Flows : sid # NoFlow /\ server.sid[f] = sid}
  <1>0. /\ requests[c].pc # "idle" /\ requests[c].kind \in {"logout", "leave"} /\ Proper(requests[c])
        /\ UNCHANGED <<tab, flows, sent, quit>>
    BY DEF Logout, Unanswered, SInv
  <1>1. requests[c].kind = "logout" => requests[c].body.by \in Flows
    BY <1>0, TokenFields DEF Proper, Request
  <1>2. PICK valid \in BOOLEAN :
          IF cookies.flowId \/ (~valid /\ sid = NoFlow)
            THEN Reply(c, "refused") /\ UNCHANGED <<server, cookies>>
            ELSE /\ server' = [server EXCEPT !.revoked = @ \cup ofSession
                                                \cup {f \in {requests[c].body.by} \cap Flows : valid},
                                             !.live = @ \ {sid}]
                 /\ cookies' = [cookies EXCEPT !.sid = NoFlow]
                 /\ Reply(c, IF valid \/ requests[c].body.by \in ofSession
                               THEN "ok" ELSE "elsewhere")
    BY DEF Logout
  <1>3. CASE cookies.flowId \/ (~valid /\ sid = NoFlow)
    <2>1. PICK req : /\ Proper(req) /\ requests' = [requests EXCEPT ![c] = req]
                      /\ req.kind = requests[c].kind /\ req.pc = requests[c].pc
                      /\ req.bearer = requests[c].bearer /\ req.reply = "refused"
      BY <1>2, <1>3, Replied
    <2> QED
      BY <1>0, <1>2, <1>3, <2>1, AnswerKeeps DEF SInv, SessionTypeOK
  <1>4. CASE ~(cookies.flowId \/ (~valid /\ sid = NoFlow))
    <2> DEFINE ofBody == {f \in {requests[c].body.by} \cap Flows : valid}
               r == IF valid \/ requests[c].body.by \in ofSession THEN "ok" ELSE "elsewhere"
    <2>1. /\ server' = [server EXCEPT !.revoked = @ \cup ofSession \cup ofBody, !.live = @ \ {sid}]
          /\ cookies' = [cookies EXCEPT !.sid = NoFlow] /\ Reply(c, r)
      BY <1>2, <1>4
    <2>2. PICK req : /\ Proper(req) /\ requests' = [requests EXCEPT ![c] = req]
                      /\ req.kind = requests[c].kind /\ req.pc = requests[c].pc
                      /\ req.bearer = requests[c].bearer /\ req.body = requests[c].body
                      /\ req.reply = r
      BY <2>1, Replied
    <2>3. ofSession \subseteq Flows /\ ofBody \subseteq Flows
      OBVIOUS
    <2>4. /\ server' \in Server /\ cookies' \in Cookies
          /\ server'.revoked = server.revoked \cup ofSession \cup ofBody
      <3> HIDE DEF ofSession, ofBody, sid
      <3> QED
        BY <2>1, <2>3 DEF SInv, SessionTypeOK, Server, Cookies
    <2>5. req.kind = "logout" /\ req.reply = "ok" => req.body.by \in server'.revoked
      <3> SUFFICES ASSUME req.kind = "logout", req.reply = "ok"
                   PROVE  requests[c].body.by \in ofSession \cup ofBody
        BY <2>2, <2>4
      <3>1. valid \/ requests[c].body.by \in ofSession
        BY <2>2
      <3>2. requests[c].body.by \in Flows
        BY <1>1, <2>2
      <3> QED
        BY <3>1, <3>2
    <2>6. req.kind # "code"
      BY <1>0, <2>2
    <2> HIDE DEF ofSession, ofBody, r
    <2> QED
      BY <1>0, <2>2, <2>4, <2>5, <2>6, AnswerKeeps
  <1> QED
    BY <1>3, <1>4

-----------------------------------------------------------------------------
(* The theorems about the session.                                         *)

LEMMA InitKeeps == SessionInit => SInv
  <1> SUFFICES ASSUME SessionInit
               PROVE  SInv
    OBVIOUS
  <1>1. tab \in GoodTab
    BY DEF SessionInit, GoodTab, Tab
  <1>2. server \in Server /\ cookies \in Cookies
    BY TokensAreCounted DEF SessionInit, Server, Cookies
  <1>3. SessionTypeOK
    BY <1>1, <1>2, NoRequestsType, FlowsAreCounted DEF SessionInit, SessionTypeOK, GoodTab
  <1>4. \A c \in Slots : Launched(requests[c]) /\ requests[c].kind = "none"
    BY NoRequestsType, IdleProper DEF SessionInit, Idle
  <1>5. /\ tab.state = NoFlow /\ tab.waiting = {} /\ tab.at = "login" /\ quit = {}
        /\ \A f \in Flows : sent[f] = 0
    BY DEF SessionInit
  <1>6. Exchanging
    BY <1>4, <1>5 DEF Exchanging
  <1>7. Revoking
    BY <1>4, <1>5 DEF Revoking
  <1> QED
    BY <1>3, <1>4, <1>6, <1>7 DEF SInv, Launched

LEMMA NextKeeps ==
    ASSUME SInv, [SessionNext]_sessionVars
    PROVE  SInv'
  <1>1. CASE SignIn
    <2>1. CASE Start
      BY <2>1, StartKeeps
    <2>2. CASE AskUser
      BY <2>2, AskUserKeeps
    <2>3. CASE DeclineSignIn
      BY <2>3, DeclineSignInKeeps
    <2>4. CASE \E s \in Flows : Grant(s)
      BY <2>4, GrantKeeps
    <2>5. CASE \E f \in Flows, c \in Slots : Callback(f, c)
      BY <2>5, CallbackKeeps
    <2>6. CASE \E c \in Slots : Redeem(c)
      BY <2>6, RedeemKeeps
    <2>7. CASE \E c, d \in Slots : Exchanged(c, d)
      BY <2>7, ExchangedKeeps
    <2> QED
      BY <1>1, <2>1, <2>2, <2>3, <2>4, <2>5, <2>6, <2>7 DEF SignIn
  <1>2. CASE \E c \in Slots : AskServer(c) \/ Answer(c) \/ Rotate(c) \/ Logout(c) \/ Lose(c)
    BY <1>2, AskServerKeeps, AnsweredKeeps, RotateKeeps, LogoutKeeps, LoseKeeps
  <1>3. CASE \E c \in Slots : Hear(c) \/ Refreshed(c) \/ SignOut(c) \/ LeaveSession(c)
    BY <1>3, HearKeeps, RefreshedKeeps, SignOutKeeps, LeaveSessionKeeps
  <1>4. CASE Visit
    BY <1>4, VisitKeeps
  <1>5. CASE Look
    BY <1>5, LookKeeps
  <1>6. CASE Forget
    BY <1>6, AskUserKeeps
  <1>7. CASE \E f \in Flows : Expire(f)
    BY <1>7, ExpireKeeps
  <1>8. CASE UNCHANGED sessionVars
    <2>1. UNCHANGED <<tab, requests, flows, cookies, server, sent, quit>>
      BY <1>8 DEF sessionVars
    <2> QED
      BY <2>1, ServerKeeps DEF SInv, SessionTypeOK
  <1> QED
    BY <1>1, <1>2, <1>3, <1>4, <1>5, <1>6, <1>7, <1>8 DEF SessionNext

\* Tab, requests and server keep their types, a stored state has never been sent
\* to the token endpoint, and an answered logout has revoked its sign-in.
THEOREM SessionInvariant == SessionSpec => []SInv
  <1>1. SessionInit => SInv
    BY InitKeeps
  <1>2. SInv /\ [SessionNext]_sessionVars => SInv'
    BY NextKeeps
  <1> QED
    BY <1>1, <1>2, PTL DEF SessionSpec

\* Tab, requests and server keep their types: in particular a tab that holds a
\* refresh token holds an access token too, after any page load or lost answer.
THEOREM SessionTypes == SessionSpec => []SessionTypeOK
  <1>1. SInv => SessionTypeOK
    BY DEF SInv
  <1> QED
    BY <1>1, SessionInvariant, PTL

\* A code goes to the token endpoint once, with its own flow's verifier, however
\* often the callback page is loaded and whatever requests are in flight.
THEOREM SessionExchangesOnce == SessionSpec => []OneExchangePerCode
  <1>1. SInv => OneExchangePerCode
    BY DEF SInv, Exchanging, OneExchangePerCode
  <1> QED
    BY <1>1, SessionInvariant, PTL

\* A sign-out that ended without an error has revoked its sign-in on the server,
\* whatever refreshes, losses and page loads came between.
THEOREM SessionSignOutRevokes == SessionSpec => []SignOutRevokes
  <1>1. SInv => SignOutRevokes
    BY DEF SInv, Revoking, SignOutRevokes
  <1> QED
    BY <1>1, SessionInvariant, PTL
=============================================================================
