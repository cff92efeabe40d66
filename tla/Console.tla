------------------------------- MODULE Console -------------------------------
(***************************************************************************)
(* One tab of the console: a page that loads its data request by request,  *)
(* dialogs and confirmed calls that change data on the server, and what    *)
(* each handler does when its answer arrives.  Answers arrive in any       *)
(* order, may be refused or get lost, and the user goes on clicking while  *)
(* they are under way.  Of the data only its freshness is kept: whether    *)
(* what is shown, on its way or cached is what the server has now.         *)
(***************************************************************************)
EXTENDS ConsolePages, Tables, FiniteSets

CONSTANTS
    Roles,          \* the users that work with it: VIEWER, TENANT_ADMIN, SUPER_ADMIN
    Followed,       \* the kinds of data that are followed
    RunIds,         \* bound: loads of a page in flight
    CallIds,        \* bound: calls in flight
    MaxBusy         \* bound: loads, calls and table fetches in flight together

ASSUME ConsoleAssumption == /\ Followed \subseteq Kinds
                            /\ MaxBusy \in Nat \ {0}

VARIABLES
    role,           \* what the session's token says of its user
    kind,           \* the kind of data that is followed, the same all along
    page,           \* the page shown
    loading,        \* its loading flag
    stuck,          \* what the page cannot be shown without has not come yet
    shown,          \* how fresh its data of the followed kind is
    runs,           \* its loads in flight, by their ids
    dialog,         \* the form on top of it, if any
    calls,          \* the changing calls in flight, of this page or an earlier one, by id
    excused         \* history: the page may show what is out of date, see ShowsOwnChanges

pageVars == <<page, loading, stuck, shown, runs>>
vars == <<role, kind, pageVars, dialog, calls, excused, tableVars>>

RangeOf(f) == {f[x] : x \in DOMAIN f}

\* What is in flight: function f with x at i, or without what is there.
With(f, i, x) == [j \in DOMAIN f \cup {i} |-> IF j = i THEN x ELSE f[j]]
Without(f, i) == Restrict(f, DOMAIN f \ {i})
AllDone(f)    == DOMAIN f = {}
NoneInFlight  == [i \in {} |-> i]

\* isTenantAdmin also decides whether TN02 asks for the credentials.
LoadsOf(r, p) == IF p = "TN02" /\ r = "VIEWER" THEN Tail(PageOf(p).loads)
                 ELSE PageOf(p).loads

\* A page that, once it is loaded, shows data of kind k, but for that of a table.
ShowsTo(r, k, p) == /\ k \notin PageOf(p).unshown
                    /\ \E kinds \in RangeOf(LoadsOf(r, p)) : k \in kinds

ListsOf(k, p) == k \in PageOf(p).rows

Leaves(after) == after.do \in {"go", "back"}

\* Data is followed kind by kind: of an act only what it does to the followed
\* kind is kept.
Follow(k, a) == [a EXCEPT !.kinds = @ \cap {k}, !.after.kinds = @ \cap {k},
                          !.spoils = @ \cap {k}, !.gated = FALSE]

\* The acts the page offers, but for those that neither change the followed
\* data nor show it, where the page does not show it either.
ActsFor ==
    [r \in Roles |-> [k \in Followed |-> [p \in PageNames |->
        {Follow(k, a) : a \in {b \in PageOf(p).acts :
            /\ b.gated => r # "VIEWER"
            /\ ShowsTo(r, k, p) \/ ListsOf(k, p) \/ k \in b.kinds \cup b.after.kinds}}]]]

\* Of the requests of a load, those for the followed data are kept, those
\* the page is stuck without, and the last.
Kept(k, p, loads) ==
    {n \in DOMAIN loads : n = Len(loads) \/ loads[n] \cap ({k} \cup PageOf(p).sticks) # {}}

\* In the present session.
ActsOf(p) == ActsFor[role][kind][p]
Shows(p)  == ShowsTo(role, kind, p)
Lists(p)  == ListsOf(kind, p)

NoDialog == [act |-> Follow("", Call({}, Nothing)), open |-> FALSE, made |-> FALSE]

\* A load: its requests, the numbers of those that have yet to be answered, and
\* of what it brings whether it is there, and old.
Run == [loads: Seq(SUBSET Kinds), rest: SUBSET (Nat \ {0}), have: BOOLEAN, old: BOOLEAN,
        served: BOOLEAN, quiet: BOOLEAN]

\* The request of a load that is under way.
NextOf(r) == {n \in r.rest : \A m \in r.rest : n <= m}

TypeOK ==
    /\ role \in Roles /\ kind \in Followed /\ page \in PageNames
    /\ {loading, stuck} \subseteq BOOLEAN /\ shown \in {"none", "old", "now"}
    /\ DOMAIN runs \subseteq RunIds /\ RangeOf(runs) \subseteq Run
    /\ dialog.open \in BOOLEAN /\ dialog.made \in BOOLEAN
    /\ dialog.open => dialog.act \in ActsOf(page)
    /\ DOMAIN calls \subseteq CallIds
    /\ \A i \in DOMAIN calls :
          /\ calls[i].phase \in {"asked", "done", "refused"}
          /\ {calls[i].form, calls[i].heard, calls[i].here, calls[i].old, calls[i].some}
             \subseteq BOOLEAN
    /\ excused \in BOOLEAN
    /\ TablesTypeOK

(***************************************************************************)
(* Pages come and load                                                     *)
(***************************************************************************)
NewRun(p, loads, quiet) ==
    [loads |-> loads, rest |-> Kept(kind, p, loads), have |-> FALSE, old |-> FALSE,
     served |-> FALSE, quiet |-> quiet]

\* A component is made for page p: the calls of the page before live on, and
\* their handlers with them, but what they load is shown nowhere.
Enter(p) ==
    /\ page' = p
    /\ loading' = (LoadsOf(role, p) # <<>> /\ PageOf(p).hides)
    /\ stuck' = (PageOf(p).sticks # {})
    /\ shown' = "none"
    /\ IF LoadsOf(role, p) = <<>> THEN runs' = NoneInFlight
       ELSE \E i \in RunIds : runs' = With(NoneInFlight, i, NewRun(p, LoadsOf(role, p), FALSE))
    /\ IF Lists(p)
       THEN /\ table' = [NewTable EXCEPT !.busy = {0}]
            /\ fetches' = <<[append |-> FALSE, query |-> FirstQuery, page |-> 0,
                             served |-> FALSE, old |-> FALSE]>>
       ELSE table' = NewTable /\ fetches' = <<>>
    /\ mixed' = FALSE
    /\ dialog' = NoDialog
    /\ UNCHANGED <<role, kind>>

NewCall(act, form) ==
    [act |-> act, form |-> form, heard |-> TRUE, here |-> TRUE, phase |-> "asked",
     old |-> FALSE, some |-> FALSE]

\* Of a call whose page was left only what it changes, if it has yet to, and
\* where its handler goes are kept.
Away(c) ==
    [NewCall(Call(IF c.phase = "asked" THEN c.act.kinds ELSE {},
                  IF c.heard /\ Leaves(c.act.after) THEN c.act.after ELSE Nothing), FALSE)
     EXCEPT !.here = FALSE, !.phase = c.phase]

Matters(c) == Leaves(c.act.after) \/ c.act.kinds # {}

Aside(cs) == [i \in {j \in DOMAIN cs : Matters(Away(cs[j]))} |-> Away(cs[i])]

Put(old) == IF old THEN "old" ELSE "now"

ServeRun(i) ==
    /\ ~runs[i].served
    /\ runs' = [runs EXCEPT ![i].served = TRUE]
    /\ UNCHANGED <<role, kind, page, loading, stuck, shown, dialog, calls, excused, tableVars>>

ArriveRun(i) ==
    \E n \in NextOf(runs[i]) :
    LET r    == runs[i]
        it   == kind \in r.loads[n]
        have == r.have \/ it
        last == r.rest = {n}
        puts == IF PageOf(page).late /\ ~r.quiet THEN last /\ have ELSE it
    IN  /\ r.served
        /\ shown' = IF puts THEN Put(r.old) ELSE shown
        /\ stuck' = (stuck /\ ~(PageOf(page).sticks \subseteq r.loads[n]))
        /\ runs' = IF last THEN Without(runs, i)
                   ELSE [runs EXCEPT ![i] = [r EXCEPT !.rest = @ \ {n}, !.have = have,
                                                      !.served = FALSE]]
        /\ loading' = IF last /\ ~r.quiet THEN stuck' ELSE loading
        /\ UNCHANGED <<role, kind, page, dialog, calls, excused, tableVars>>

\* A failed request ends the load, unless the page swallows the failure.
FailRun(i) ==
    \E n \in NextOf(runs[i]) :
    LET r    == runs[i]
        goes == PageOf(page).swallows /\ ~r.quiet /\ r.rest # {n}
    IN  /\ runs' = IF goes
                   THEN [runs EXCEPT ![i] = [r EXCEPT !.rest = @ \ {n}, !.served = FALSE]]
                   ELSE Without(runs, i)
        /\ loading' = IF goes \/ r.quiet THEN loading ELSE stuck
        /\ excused' = TRUE
        /\ UNCHANGED <<role, kind, page, stuck, shown, dialog, calls, tableVars>>

\* Pages with handlers that do not load again what their act has changed; TN01A
\* refreshes its table, but not the number of keys beside it.
NeverReload == {"GP01A", "RL01A", "UR01A", "UR02A", "TN01A"}

Forgets(a) ==
    /\ page \in NeverReload /\ a.kinds \cup a.spoils # {}
    /\ a.after.do = "none" \/ (a.after.do = "rows" /\ ~Lists(page))

(***************************************************************************)
(* What a handler goes on with                                             *)
(***************************************************************************)
StartRun(r, ex) ==
    /\ \E i \in RunIds \ DOMAIN runs : runs' = With(runs, i, r)
    /\ loading' = (loading \/ (~r.quiet /\ PageOf(page).hides))
    /\ excused' = IF ~AllDone(runs) THEN TRUE
                  ELSE IF r.quiet THEN excused \/ ex ELSE FALSE
    /\ UNCHANGED <<role, kind, page, stuck, shown, tableVars>>

Stay(ex) ==
    /\ excused' = (excused \/ ex)
    /\ UNCHANGED <<role, kind, pageVars, tableVars>>

\* The pages from which the user may have come to this one.
CameFrom == {p \in PageNames : page \in PageOf(p).links}

\* Variables dialog and calls are the caller's, but for a navigation's dialog.
Then(after, old, ex) ==
    CASE after.do = "reload" -> StartRun(NewRun(page, LoadsOf(role, page), FALSE), ex)
      [] after.do = "part"   -> StartRun(NewRun(page, <<after.kinds>>, TRUE), ex)
      [] after.do = "rows"   -> /\ IF Lists(page) THEN Refresh ELSE UNCHANGED tableVars
                                /\ excused' = (excused \/ ex)
                                /\ UNCHANGED <<role, kind, pageVars>>
      [] after.do = "keep"   -> /\ shown' = IF after.kinds = {} THEN shown ELSE Put(old)
                                /\ excused' = (excused \/ ex \/ old \/ ~AllDone(runs))
                                /\ UNCHANGED <<role, kind, page, loading, stuck, runs, tableVars>>
      [] OTHER               -> Stay(ex)

Depart(after) ==
    /\ \E p \in IF after.do = "go" THEN {after.to} ELSE CameFrom : Enter(p)
    /\ excused' = FALSE

(***************************************************************************)
(* The user                                                                *)
(***************************************************************************)
Busy == Cardinality(DOMAIN runs) + Cardinality(DOMAIN calls) + Len(fetches)

NewlyCalled(c) == \E i \in CallIds \ DOMAIN calls : calls' = With(calls, i, c)

\* Bound: where nothing is claimed of what is shown, nothing new is begun
\* before the page, or another one, is loaded afresh.
Claimed == ~excused /\ ~mixed

\* The page's buttons can be clicked.
Clickable == ~dialog.open /\ ~(PageOf(page).hides /\ loading) /\ Claimed

Open(a) ==
    /\ a.way \in {"form", "help"} /\ Clickable
    /\ dialog' = [act |-> a, open |-> TRUE, made |-> FALSE]
    /\ shown' = IF a.spoils = {} THEN shown ELSE "old"
    /\ UNCHANGED <<role, kind, page, loading, stuck, runs, calls, excused, tableVars>>

\* The button is not disabled while an answer is awaited: a second click sends
\* the form again.  A value help closes when its choice is confirmed.
Submit ==
    /\ dialog.open /\ ~dialog.made /\ Claimed
    /\ Busy < MaxBusy
    /\ NewlyCalled(NewCall(dialog.act, dialog.act.way = "form"))
    /\ dialog' = IF dialog.act.way = "form" THEN dialog ELSE NoDialog
    /\ UNCHANGED <<role, kind, pageVars, excused, tableVars>>

\* No answer to the closed form is heard any more.
Unheard(cs) == [i \in DOMAIN cs |-> [cs[i] EXCEPT !.heard = @ /\ ~cs[i].form]]

Leave(way) ==
    LET a  == dialog.act
        ex == (dialog.made /\ (way # "ok" \/ Forgets(a))) \/ a.spoils # {}
    IN  /\ dialog.open /\ way \in a.leaves
        /\ IF way = "ok" THEN Then(a.after, FALSE, ex) ELSE Stay(ex)
        /\ dialog' = NoDialog
        /\ calls' = Unheard(calls)

\* A question answered with yes, or a value help confirmed: no dialog is open
\* while the call is under way.
Begin(a) ==
    /\ a.way = "call" /\ Clickable
    /\ Busy < MaxBusy
    /\ NewlyCalled(NewCall(a, FALSE))
    /\ UNCHANGED <<role, kind, pageVars, dialog, excused, tableVars>>

\* A question answered with no, where the handler goes on all the same.
Decline(a) ==
    /\ "no" \in a.also /\ Clickable
    /\ IF Leaves(a.after) THEN Depart(a.after) /\ calls' = Aside(calls)
       ELSE Then(a.after, FALSE, FALSE) /\ UNCHANGED <<dialog, calls>>

\* Where the page and the two navigation bars lead; AdminGuard keeps others out.
Doors == (PageOf(page).links \cup {"HOME"}
            \cup IF role = "SUPER_ADMIN" THEN {"ADMIN"} ELSE {}) \ {page}

Move(p) ==
    /\ ~dialog.open
    /\ Enter(p)
    /\ calls' = Aside(calls)
    /\ excused' = FALSE

(***************************************************************************)
(* Calls                                                                   *)
(***************************************************************************)
\* The server changes the data: every copy of it is out of date.
Changed ==
    /\ shown' = IF shown = "now" THEN "old" ELSE shown
    /\ runs' = [i \in DOMAIN runs |->
                  [runs[i] EXCEPT !.old = \/ @ \/ runs[i].have
                                          \/ /\ runs[i].served
                                             /\ \E n \in NextOf(runs[i]) : kind \in runs[i].loads[n]]]
    /\ table' = IF Lists(page) THEN Aged(table) ELSE table
    /\ fetches' = IF Lists(page) THEN AgedFetches(fetches) ELSE fetches

\* An answer on its way holds data that has been changed since.
Overtaken(c) == c.old \/ (c.phase = "done" /\ c.act.after.kinds # {})

ServeCall(i) ==
    LET done == [calls EXCEPT ![i].phase = "done"]
    IN  /\ calls[i].phase = "asked"
        /\ IF calls[i].act.kinds = {}
           THEN calls' = done /\ UNCHANGED <<shown, runs, table, fetches>>
           ELSE /\ calls' = [j \in DOMAIN calls |->
                               IF j = i THEN done[j]
                               ELSE [calls[j] EXCEPT !.old = Overtaken(calls[j])]]
                /\ Changed
        /\ UNCHANGED <<role, kind, page, loading, stuck, dialog, excused, mixed>>

RefuseCall(i) ==
    /\ calls[i].phase = "asked"
    /\ calls' = [calls EXCEPT ![i].phase = "refused"]
    /\ UNCHANGED <<role, kind, pageVars, dialog, excused, tableVars>>

\* One of several chosen rows is done: its successor is asked for.
AskNext(i) ==
    /\ calls[i].phase = "done" /\ calls[i].act.many /\ calls[i].here
    /\ calls' = [calls EXCEPT ![i].phase = "asked", ![i].some = TRUE, ![i].old = FALSE]
    /\ UNCHANGED <<role, kind, pageVars, dialog, excused, tableVars>>

Heard(c) == c.heard /\ (c.here \/ Leaves(c.act.after))

\* The answer reaches nobody: its form was closed, or its page was left.
Drop(i) ==
    /\ calls[i].phase # "asked" /\ ~Heard(calls[i])
    /\ calls' = Without(calls, i)
    /\ UNCHANGED dialog
    /\ Stay(calls[i].phase = "done")

\* A form that is done closes, and what else it had asked for goes unheard.
Closed(c, cs) ==
    IF c.form THEN dialog' = NoDialog /\ calls' = Unheard(cs)
    ELSE dialog' = dialog /\ calls' = cs

\* What the handler does, if anything, once the outcome is known to it.
GoOn(i, ex) ==
    LET c    == calls[i]
        rest == Without(calls, i)
        next == c.act.after
    IN  IF Leaves(next) THEN Depart(next) /\ calls' = Aside(rest)
        ELSE Then(next, c.old, ex) /\ Closed(c, rest)

Accepted(i) ==
    LET c == calls[i]
    IN  /\ c.phase = "done" /\ Heard(c)
        /\ IF c.act.done = "stays"
           THEN /\ calls' = Without(calls, i)
                /\ dialog' = [dialog EXCEPT !.made = TRUE]
                /\ Stay(FALSE)
           ELSE GoOn(i, Forgets(c.act))

\* A refusal, or a success whose answer was lost.
Rejected(i) ==
    LET c  == calls[i]
        a  == c.act
        ex == c.phase = "done" \/ c.some \/ a.spoils # {} \/ (c.form /\ dialog.made)
    IN  /\ c.phase # "asked" /\ Heard(c)
        /\ \/ /\ a.fails = "closes" \/ "refused" \in a.also
              /\ GoOn(i, ex)
           \/ /\ a.fails = "dismisses"
              /\ Closed(c, Without(calls, i)) /\ Stay(ex)
           \/ /\ a.fails = "stays" /\ "refused" \notin a.also
              /\ calls' = Without(calls, i) /\ UNCHANGED dialog /\ Stay(ex)

(***************************************************************************)
(* The specification                                                       *)
(***************************************************************************)
Init ==
    /\ role \in Roles /\ kind \in Followed
    /\ page = "HOME" /\ loading = FALSE /\ stuck = FALSE
    /\ shown = "none" /\ runs = NoneInFlight
    /\ dialog = NoDialog /\ calls = NoneInFlight /\ excused = FALSE
    /\ table = NewTable /\ fetches = <<>> /\ mixed = FALSE

Next ==
    \/ \E i \in DOMAIN runs : ServeRun(i) \/ ArriveRun(i) \/ FailRun(i)
    \/ \E a \in ActsOf(page) : Open(a) \/ Begin(a) \/ Decline(a)
    \/ Submit
    \/ \E way \in {"ok", "dismiss", Cross} : Leave(way)
    \/ \E p \in Doors : Move(p)
    \/ \E i \in DOMAIN calls : \/ ServeCall(i) \/ RefuseCall(i) \/ AskNext(i)
                               \/ Drop(i) \/ Accepted(i) \/ Rejected(i)
    \/ /\ \/ Lists(page) /\ ~excused /\ Busy < MaxBusy /\ ~dialog.open /\ TableUse
          \/ TableAnswer
       /\ UNCHANGED <<role, kind, pageVars, dialog, calls, excused>>

Spec == Init /\ [][Next]_vars

(***************************************************************************)
(* Properties                                                              *)
(***************************************************************************)
AtRest == AllDone(runs) /\ AllDone(calls) /\ fetches = <<>> /\ ~dialog.open

\* When nothing is under way, a page shows everything it is there to show, and
\* nothing the user's own changes have made out of date, unless two loads of it
\* or two answers overlapped, a load failed, an answer was lost or came when its
\* form was closed, a finished form was closed by its cross, a value help put its
\* own rows over the page's and was cancelled or refused (RL02's users), or the
\* page is one of those that never load again what was changed (NeverReload).
ShowsOwnChanges ==
    AtRest /\ Claimed =>
        /\ ~loading
        /\ Shows(page) => shown = "now"
        /\ table.kind = "data" => \A i \in DOMAIN table.rows : ~table.rows[i].old
=============================================================================
