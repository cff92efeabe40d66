------------------------------- MODULE Tables -------------------------------
(***************************************************************************)
(* The table of the console's list pages: AppTableComponent over the       *)
(* paging and caching DataModel over a source that asks the server         *)
(* (RestApiModel).  A row is one page of the answer, and of its contents   *)
(* only its query, its page number and whether the server's data has       *)
(* changed since it was read are kept.  Rows, answers on their way and     *)
(* cached answers all carry that mark, `old`.  The cache holds ten pages,  *)
(* more than the instances have.                                           *)
(***************************************************************************)
EXTENDS Naturals, Sequences, SequencesExt

CONSTANTS
    Queries,        \* filters and sort orders a user can ask for
    FirstQuery,     \* the query of a table just opened: no filter
    Total,          \* the pages of the answer to each query
    MaxPage,        \* bound: the page number scrolling can count up to
    MaxFetches      \* bound: fetches in flight

ASSUME TablesAssumption == /\ FirstQuery \in Queries
                           /\ Total \in [Queries -> Nat]
                           /\ MaxPage \in Nat \ {0}
                           /\ MaxFetches \in Nat \ {0}

VARIABLES
    table,          \* what the component and its DataModel hold
    fetches,        \* the fetches in flight, in the order they were sent
    mixed           \* history: a query was started while a fetch was in flight

tableVars == <<table, fetches, mixed>>

Chunk == [query: Queries, page: 0 .. MaxPage, old: BOOLEAN]

\* A table just bound to its source: nothing cached, no total known.
NewTable == [kind |-> "loading", rows |-> <<>>, busy |-> {}, query |-> FirstQuery,
             pageNo |-> 0, total |-> 0, cache |-> {}]

Fetch == [append: BOOLEAN, query: Queries, page: 0 .. MaxPage,
          served: BOOLEAN, old: BOOLEAN]

TablesTypeOK ==
    /\ table \in [kind: {"loading", "data", "empty", "error"}, rows: Seq(Chunk),
                  busy: SUBSET (0 .. MaxPage), query: Queries, pageNo: 0 .. MaxPage,
                  total: Nat, cache: SUBSET Chunk]
    /\ fetches \in Seq(Fetch)
    /\ mixed \in BOOLEAN

(***************************************************************************)
(* The data model                                                          *)
(***************************************************************************)
\* A total of 0 stands for null: only page 0 is then known to exist.
HasPage(t, no) == no = 0 \/ no < t.total

Cached(t, no) == {c \in t.cache : c.query = t.query /\ c.page = no}

\* Faulty form: the cached pages outlive a refresh.
ResetTotalOnly(t) == [t EXCEPT !.total = 0]

\* reset(): the cached pages and the total are forgotten.
Reset(t) == [t EXCEPT !.total = 0, !.cache = {}]

\* Rows of the answer to query q, page no: none beyond the last page.
Chunks(c) == IF c.page < Total[c.query] THEN <<c>> ELSE <<>>

\* An answer reaches the component: appended to what is shown, or in its place.
\* The page taken off `busy` is the query's present one, not the answer's.
Show(t, append, c) ==
    LET q == [t EXCEPT !.busy = @ \ {t.pageNo}]
    IN  IF append /\ t.kind = "data"
        THEN [q EXCEPT !.rows = @ \o Chunks(c)]
        ELSE [q EXCEPT !.rows = Chunks(c),
                       !.kind = IF Chunks(c) = <<>> THEN "empty" ELSE "data"]

\* The data model keeps the total and caches the page before the component
\* sees the answer, whatever was reset since the fetch was sent.
Remember(t, c) ==
    [t EXCEPT !.total = Total[c.query],
              !.cache = {d \in @ : d.query # c.query \/ d.page # c.page} \cup {c}]

(***************************************************************************)
(* The component                                                           *)
(***************************************************************************)
\* Faulty form: scrolling asks for the page it has.
SamePage(t, append) == IF append THEN t.pageNo ELSE 0

\* fetchData(query, append): a first page or the next one, unless it is under
\* way or known not to exist; a cached page is shown without a request.
NextPage(t, append) == IF append THEN t.pageNo + 1 ELSE 0

FetchData(t, append) ==
    LET no == NextPage(t, append)
        q  == [t EXCEPT !.pageNo = no, !.busy = IF append THEN @ ELSE {}]
        b  == [q EXCEPT !.busy = @ \cup {no},
                        !.kind = IF append THEN @ ELSE "loading",
                        !.rows = IF append THEN @ ELSE <<>>]
    IN  IF no \in q.busy \/ ~HasPage(q, no)
        THEN table' = q /\ UNCHANGED fetches
        ELSE IF Cached(q, no) # {}
        THEN /\ table' = Show(b, append, CHOOSE c \in Cached(q, no) : TRUE)
             /\ UNCHANGED fetches
        ELSE /\ table' = b
             /\ fetches' = Append(fetches, [append |-> append, query |-> q.query,
                                            page |-> no, served |-> FALSE, old |-> FALSE])

\* refresh(): the button, the retry after an error, or the page's own call of
\* dataSource.refresh(), which DataModel and component both hear.
Refresh ==
    /\ Len(fetches) < MaxFetches
    /\ FetchData(Reset(table), FALSE)
    /\ mixed' = (fetches # <<>>)

\* filter() or onSort(): another query from its first page; nothing is reset.
Ask(q) ==
    /\ Len(fetches) < MaxFetches
    /\ FetchData([table EXCEPT !.query = q], FALSE)
    /\ mixed' = (mixed \/ fetches # <<>>)

\* onLoadMore(): the end of the list is scrolled into view.
LoadMore ==
    /\ table.busy = {} /\ table.kind = "data"
    /\ Len(fetches) < MaxFetches /\ table.pageNo < MaxPage
    /\ FetchData(table, TRUE)
    /\ mixed' = (mixed \/ fetches # <<>>)

\* The server answers; its data may change before the answer arrives.
ServeFetch(i) ==
    /\ ~fetches[i].served
    /\ fetches' = [fetches EXCEPT ![i].served = TRUE]
    /\ UNCHANGED <<table, mixed>>

Arrive(i) ==
    LET f == fetches[i]
        c == [query |-> f.query, page |-> f.page, old |-> f.old]
    IN  /\ f.served
        /\ table' = Show(Remember(table, c), f.append, c)
        /\ fetches' = RemoveAt(fetches, i)
        /\ UNCHANGED mixed

FailFetch(i) ==
    /\ table' = [table EXCEPT !.kind = "error", !.rows = <<>>, !.busy = @ \ {table.pageNo}]
    /\ fetches' = RemoveAt(fetches, i)
    /\ UNCHANGED mixed

\* What the user does to a table, and what comes back for it.
TableUse == Refresh \/ LoadMore \/ \E q \in Queries : Ask(q)

TableAnswer == \E i \in DOMAIN fetches : ServeFetch(i) \/ Arrive(i) \/ FailFetch(i)

TableStep == TableUse \/ TableAnswer

\* The server's data has changed: every copy of it is now old.
Age(c) == [c EXCEPT !.old = TRUE]

Aged(t) == [t EXCEPT !.rows = [i \in DOMAIN @ |-> Age(@[i])],
                     !.cache = {Age(c) : c \in @}]

AgedFetches(fs) == [i \in DOMAIN fs |-> [fs[i] EXCEPT !.old = @ \/ fs[i].served]]

\* The rows shown are the first pages of the query that is asked, each once and
\* in order, and scrolling goes on after the last of them: no page is skipped,
\* unless the total last answered, which may be another query's, says that there
\* is none, or there is none.  Holds as long as no query was started while a
\* fetch was in flight.
WholePrefix ==
    ~mixed /\ table.kind = "data" =>
        /\ \A i \in DOMAIN table.rows :
              table.rows[i].page = i - 1 /\ table.rows[i].query = table.query
        /\ table.busy = {} => \/ table.pageNo = Len(table.rows) - 1
                              \/ ~HasPage(table, Len(table.rows))
                              \/ Len(table.rows) >= Total[table.query]
=============================================================================
