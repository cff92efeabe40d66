----------------------------- MODULE AuthorizeFlow -----------------------------
(***************************************************************************)
(* The conversation of one browser with the authorize endpoint.            *)
(*                                                                         *)
(* A client application sends the user to GET /authorize; the server       *)
(* answers with a redirect, to the client (a code or an error) or to a     *)
(* view of the UI: login, consent, session-confirm.  What the user does    *)
(* there is a POST followed by GET /authorize again, or GET /authorize     *)
(* alone, with the same parameters and at most one one-shot flag.  The     *)
(* server keeps no conversation: a tab carries its parameters in URLs, and *)
(* all the tabs of the browser share the cookies sid and flow_id.          *)
(*                                                                         *)
(* A GET /authorize takes the cookies along when it leaves; its answer     *)
(* sets them when it arrives, which the action for the last step of the    *)
(* server includes.  A POST that has one database write is one action.     *)
(***************************************************************************)
EXTENDS Naturals, FiniteSets

CONSTANTS
    Tabs,           \* tabs of the browser
    Users,          \* people who log in at this browser
    Sids,           \* session ids
    FlowIds,        \* flow ids
    Scopes,         \* scope values of the client
    Tenants,        \* tenants that subscribe to the client's application
    TenantsOf,      \* the subscriber tenants each user is a member of
    Requested,      \* the parameters the client may start with
    MaxExpiries,    \* bound of the model: cookies and sessions that expire
    NoUser, NoSid, NoFlow, NoTenant

Prompts == {"absent", "none", "login", "consent", "unsupported"}

\* external: not isFirstParty, so consent is needed; maxAge: max_age is given;
\* hint: subscriber_tenant_hint; skipConfirm: the setting of the client's tenant.
Params == [prompt : Prompts, maxAge : BOOLEAN, scope : SUBSET Scopes,
           external : BOOLEAN, hint : Tenants \cup {NoTenant},
           skipConfirm : BOOLEAN]

ASSUME FlowConstants ==
    /\ Requested \subseteq Params /\ Requested # {}
    /\ TenantsOf \in [Users -> SUBSET Tenants]
    /\ MaxExpiries \in Nat
    /\ NoUser \notin Users /\ NoSid \notin Sids /\ NoFlow \notin FlowIds
    /\ NoTenant \notin Tenants

VARIABLES
    sessions,   \* the sessions of table login_sessions that are not over
    consents,   \* table user_consents, of the client
    jar,        \* the browser's cookies
    tabs,       \* the browser's tabs, with the request each has in flight
    approved,   \* history: the scopes whose grant by each user was stored
    expiries    \* how often something has expired

vars == <<sessions, consents, jar, tabs, approved, expiries>>

Session == [user : Users \cup {NoUser}, recent : BOOLEAN]

Consent == [exists : BOOLEAN, scopes : SUBSET Scopes]

Cookies == [sid : Sids \cup {NoSid}, flow : FlowIds \cup {NoFlow}]

Views == {"login", "tenants", "consent", "confirm", "error"}

Handlers == {"authorize", "checkConsent", "saveConsent"}

\* code is the client with a code, client the client otherwise; deadend is a page
\* without a way on: the UI's error view without "Start Over", or the server's
\* own error.
Places == {"client", "code", "deadend"} \cup Views \cup Handlers

Flags == {"none", "session_confirmed", "from_logout", "consent_denied"}

\* sent: the cookies of the GET in flight; csrf: the flow whose csrf_token the
\* view has; user: whose session the handler found, or whose credentials the
\* tenant selection holds; shown: whose email the view shows; read: the consent
\* the handler read.
\* present, chosen and stale are history of the conversation: who logged in or
\* pressed Continue last, and has not logged out since; the tenant selected;
\* whether the session was over, or too old, when the last GET left.
Tab == [at : Places, params : Params, flag : Flags, sent : Cookies,
        csrf : FlowIds \cup {NoFlow},
        user : Users \cup {NoUser}, shown : Users \cup {NoUser},
        read : Consent,
        present : Users \cup {NoUser}, chosen : Tenants \cup {NoTenant},
        stale : BOOLEAN]

TypeOK ==
    /\ sessions \in [Sids -> Session]
    /\ consents \in [Users -> Consent]
    /\ jar \in Cookies
    /\ tabs \in [Tabs -> Tab]
    /\ approved \in [Users -> SUBSET Scopes]
    /\ expiries \in 0..MaxExpiries

-----------------------------------------------------------------------------
NoCookies == [sid |-> NoSid, flow |-> NoFlow]

NoSession == [user |-> NoUser, recent |-> FALSE]

NoParams == CHOOSE p \in Requested : TRUE

NoConsent == [exists |-> FALSE, scopes |-> {}]

\* A tab without a conversation, and one about to begin with parameters p.
Fresh(p) == [at |-> "client", params |-> p, flag |-> "none", sent |-> NoCookies,
             csrf |-> NoFlow, user |-> NoUser, shown |-> NoUser,
             read |-> NoConsent, present |-> NoUser, chosen |-> NoTenant,
             stale |-> FALSE]

Closed == Fresh(NoParams)

Init ==
    /\ sessions = [s \in Sids |-> NoSession]
    /\ consents = [u \in Users |-> NoConsent]
    /\ jar = NoCookies
    /\ tabs = [t \in Tabs |-> Closed]
    /\ approved = [u \in Users |-> {}]
    /\ expiries = 0

At(t, place) == tabs[t].at = place

\* findSessionBySid: a session that is missing, invalidated or expired is none.
SessionValid(s) == s # NoSid /\ sessions[s].user # NoUser

\* A session the request may use: valid and, if max_age is given, recent.
Acceptable(s, p) == SessionValid(s) /\ (p.maxAge => sessions[s].recent)

\* Faulty forms of some of the operators below, which show that the properties
\* can fail: max_age is forgotten, any row will do as consent, prompt=consent
\* stays or is echoed as text, session_confirmed is not asked for.
AnySession(s, p) == SessionValid(s)

AnyConsent(u, scope) == consents[u].exists

PromptKept(p, view) == p

PromptUndefined(p, view) ==
    IF view = "consent" THEN [p EXCEPT !.prompt = "undefined"] ELSE p

AlwaysConfirmed(t) == TRUE

\* resolveSession.
ResolveSession(s, p) == Acceptable(s, p)

\* checkConsent: the row covers every requested scope.
Consented(u, scope) == consents[u].exists /\ scope \subseteq consents[u].scopes

Union(row, scope) == [exists |-> TRUE, scopes |-> row.scopes \cup scope]

\* The parameters a view is given: prompt=consent is done with once the consent
\* view shows.
Forwarded(p, view) ==
    IF view = "consent" /\ p.prompt = "consent" THEN [p EXCEPT !.prompt = "absent"] ELSE p

\* Ids that nothing refers to may be used again; any one is as good as another.
AnyOf(ids) == IF ids = {} THEN {} ELSE {CHOOSE id \in ids : TRUE}

HeldSids == {jar.sid} \cup {tabs[t].sent.sid : t \in Tabs}

FreshSid == AnyOf(Sids \ HeldSids)

FreshFlow == AnyOf(FlowIds \ ({jar.flow} \cup {tabs[t].csrf : t \in Tabs}
                                \cup {tabs[t].sent.flow : t \in Tabs}))

-----------------------------------------------------------------------------
\* The browser.

\* toAuthorizeEndpoint: the tab goes to GET /authorize with its parameters, one
\* flag, and the cookies the browser then has.
Leaving(tab, flag, cookies) ==
    [tab EXCEPT !.at = "authorize", !.flag = flag, !.sent = cookies, !.csrf = NoFlow,
                !.user = NoUser, !.shown = NoUser, !.read = NoConsent,
                !.stale = ~Acceptable(cookies.sid, tab.params)]

Navigate(t, flag) == tabs' = [tabs EXCEPT ![t] = Leaving(@, flag, jar)]

\* verifyOrThrow: the token belongs to the flow_id cookie the request carries.
CsrfHolds(t) == jar.flow # NoFlow /\ tabs[t].csrf = jar.flow

ShowError(t) == tabs' = [tabs EXCEPT ![t].at = "error"]

\* The client sends the user to the authorize endpoint.
Open(t) ==
    /\ tabs[t].at \in {"client", "code"}
    /\ \E p \in Requested : tabs' = [tabs EXCEPT ![t] = Leaving(Fresh(p), "none", jar)]
    /\ UNCHANGED <<sessions, consents, jar, approved, expiries>>

\* The user closes the page or goes elsewhere.
Abandon(t) ==
    /\ tabs[t].at \in Views \cup {"deadend"}
    /\ tabs' = [tabs EXCEPT ![t] = Closed]
    /\ UNCHANGED <<sessions, consents, jar, approved, expiries>>

\* onStartOver: the parameters of this view, without a flag.
StartOver(t) ==
    /\ At(t, "error")
    /\ Navigate(t, "none")
    /\ UNCHANGED <<sessions, consents, jar, approved, expiries>>

\* A POST of the login or the logout that gets no answer in time shows the error
\* view.  (A session that such a login stored is never named to anybody.)
Timeout(t) ==
    /\ tabs[t].at \in {"login", "tenants"} \/ (At(t, "confirm") /\ tabs[t].shown # NoUser)
    /\ ShowError(t)
    /\ UNCHANGED <<sessions, consents, jar, approved, expiries>>

\* GET /session-info, which the consent and the confirm view send on loading.
SessionInfo(t) ==
    /\ tabs[t].at \in {"consent", "confirm"} /\ tabs[t].shown = NoUser
    /\ IF SessionValid(jar.sid)
       THEN tabs' = [tabs EXCEPT ![t].shown = sessions[jar.sid].user]
       ELSE ShowError(t)
    /\ UNCHANGED <<sessions, consents, jar, approved, expiries>>

-----------------------------------------------------------------------------
\* POST /login.  An answer with an error (wrong password, csrf_token refused) is
\* shown on the view as it is, a stuttering step.

\* A session is stored, its sid set, and the tab goes on as confirmed.
StoreSession(t, u, tenant) ==
    \E s \in FreshSid :
        /\ sessions' = [r \in Sids |->
               IF r = s THEN [user |-> u, recent |-> TRUE]
               ELSE IF r \in HeldSids THEN sessions[r] ELSE NoSession]
        /\ jar' = [jar EXCEPT !.sid = s]
        /\ tabs' = [tabs EXCEPT ![t] =
               [Leaving(@, "session_confirmed", jar')
                   EXCEPT !.present = u, !.chosen = tenant, !.stale = FALSE]]
        /\ UNCHANGED <<consents, approved, expiries>>

\* The first POST never has a hint, whatever the parameters are, so a client that
\* is not the tenant's own asks the user who is a member of several subscribers.
Ambiguous(t, u) == tabs[t].params.external /\ Cardinality(TenantsOf[u]) > 1

LogIn(t, u) ==
    /\ At(t, "login") /\ CsrfHolds(t) /\ ~Ambiguous(t, u)
    /\ StoreSession(t, u, NoTenant)

\* The view asks, and keeps the credentials.
AskTenant(t, u) ==
    /\ At(t, "login") /\ CsrfHolds(t) /\ Ambiguous(t, u)
    /\ tabs' = [tabs EXCEPT ![t].at = "tenants", ![t].user = u]
    /\ UNCHANGED <<sessions, consents, jar, approved, expiries>>

\* The second POST carries the tenant; the redirect after it does not.
SelectTenant(t) ==
    /\ At(t, "tenants") /\ CsrfHolds(t)
    /\ \E tenant \in TenantsOf[tabs[t].user] : StoreSession(t, tabs[t].user, tenant)

-----------------------------------------------------------------------------
\* The confirm view.

Continue(t) ==
    /\ At(t, "confirm") /\ tabs[t].shown # NoUser
    /\ tabs' = [tabs EXCEPT ![t] =
           [Leaving(@, "session_confirmed", jar) EXCEPT !.present = tabs[t].shown]]
    /\ UNCHANGED <<sessions, consents, jar, approved, expiries>>

\* POST /logout: a csrf_token is asked for if the flow_id cookie is there, and a
\* session must be named.
LogoutAllowed(t) == (jar.flow # NoFlow => CsrfHolds(t)) /\ jar.sid # NoSid

Invalidated == [sessions EXCEPT ![jar.sid] = NoSession]

Logout(t) ==
    /\ At(t, "confirm") /\ tabs[t].shown # NoUser /\ LogoutAllowed(t)
    /\ sessions' = Invalidated
    /\ jar' = [jar EXCEPT !.sid = NoSid]
    /\ tabs' = [tabs EXCEPT ![t] =
           [Leaving(@, "from_logout", jar') EXCEPT !.present = NoUser]]
    /\ UNCHANGED <<consents, approved, expiries>>

\* The session is invalidated but the answer, which clears sid, is late.
LogoutUnanswered(t) ==
    /\ At(t, "confirm") /\ tabs[t].shown # NoUser /\ LogoutAllowed(t)
    /\ sessions' = Invalidated
    /\ tabs' = [tabs EXCEPT ![t].at = "error", ![t].present = NoUser]
    /\ UNCHANGED <<consents, jar, approved, expiries>>

RefuseLogout(t) ==
    /\ At(t, "confirm") /\ tabs[t].shown # NoUser /\ ~LogoutAllowed(t)
    /\ ShowError(t)
    /\ UNCHANGED <<sessions, consents, jar, approved, expiries>>

-----------------------------------------------------------------------------
\* POST /consent.  Without a session the answer, 401, is shown on the view as it
\* is, a stuttering step; so is a timeout.

Decides(t) == At(t, "consent") /\ tabs[t].shown # NoUser

\* The csrf_token is refused: 403, the error view.
RefuseConsent(t) ==
    /\ Decides(t) /\ ~CsrfHolds(t)
    /\ ShowError(t)
    /\ UNCHANGED <<sessions, consents, jar, approved, expiries>>

Deny(t) ==
    /\ Decides(t) /\ CsrfHolds(t) /\ SessionValid(jar.sid)
    /\ Navigate(t, "consent_denied")
    /\ UNCHANGED <<sessions, consents, jar, approved, expiries>>

\* grantConsent reads the row of the session's user ...
Grant(t) ==
    /\ Decides(t) /\ CsrfHolds(t) /\ SessionValid(jar.sid)
    /\ LET u == sessions[jar.sid].user IN
       tabs' = [tabs EXCEPT ![t].at = "saveConsent", ![t].user = u, ![t].read = consents[u]]
    /\ UNCHANGED <<sessions, consents, jar, approved, expiries>>

\* ... and saves it; an INSERT fails when a row has come into being since.
SaveFails(t) == ~tabs[t].read.exists /\ consents[tabs[t].user].exists

Save(t) ==
    /\ At(t, "saveConsent") /\ ~SaveFails(t)
    /\ consents' = [consents EXCEPT ![tabs[t].user] = Union(tabs[t].read, tabs[t].params.scope)]
    /\ approved' = [approved EXCEPT ![tabs[t].user] = @ \cup tabs[t].params.scope]
    /\ UNCHANGED <<sessions, jar, expiries>>

\* The consent view again, with the error.
BackToConsent(t) ==
    tabs' = [tabs EXCEPT ![t].at = "consent", ![t].user = NoUser, ![t].read = NoConsent]

SaveConsent(t) == Save(t) /\ Navigate(t, "none")

SaveUnanswered(t) == Save(t) /\ BackToConsent(t)

SaveRefused(t) ==
    /\ At(t, "saveConsent") /\ SaveFails(t)
    /\ BackToConsent(t)
    /\ UNCHANGED <<sessions, consents, jar, approved, expiries>>

-----------------------------------------------------------------------------
\* The server's GET /authorize.

\* A view arrives.  The UI refuses to show one for prompt=none, without a way on.
Showing(tab, view, f) ==
    LET silent == tab.params.prompt = "none" IN
    [tab EXCEPT !.at = IF silent THEN "deadend" ELSE view,
                !.csrf = IF silent THEN NoFlow ELSE f,
                !.params = Forwarded(tab.params, view),
                !.sent = NoCookies, !.flag = "none", !.user = NoUser]

\* mintIfAbsent: the flow is the one the request came with, or a new one, which
\* replaces what the browser may have by now.
FlowsFor(cookies) == IF cookies.flow # NoFlow THEN {cookies.flow} ELSE FreshFlow

ShowView(t, view) ==
    \E f \in FlowsFor(tabs[t].sent) :
        /\ jar' = [jar EXCEPT !.flow = IF tabs[t].sent.flow # NoFlow THEN @ ELSE f]
        /\ tabs' = [tabs EXCEPT ![t] = Showing(@, view, f)]
        /\ UNCHANGED <<sessions, consents, approved, expiries>>

\* A redirect to the client, which ends the flow: the flow_id cookie is cleared,
\* whichever it is by now.
Return(t, tab) ==
    /\ jar' = [jar EXCEPT !.flow = NoFlow]
    /\ tabs' = [tabs EXCEPT ![t] = tab]
    /\ UNCHANGED <<sessions, consents, approved, expiries>>

ReturnError(t) == Return(t, Closed)

Denied(t) == tabs[t].flag = "consent_denied"

Forced(t) == tabs[t].flag = "from_logout" \/ tabs[t].params.prompt = "login"

AccessDenied(t) == At(t, "authorize") /\ Denied(t) /\ ReturnError(t)

ForceLogin(t) == At(t, "authorize") /\ ~Denied(t) /\ Forced(t) /\ ShowView(t, "login")

RejectPrompt(t) ==
    /\ At(t, "authorize") /\ ~Denied(t) /\ ~Forced(t)
    /\ tabs[t].params.prompt = "unsupported"
    /\ ReturnError(t)

\* The session is looked up.
LooksUp(t) ==
    /\ At(t, "authorize") /\ ~Denied(t) /\ ~Forced(t)
    /\ tabs[t].params.prompt # "unsupported"

LoginRequired(t) ==
    /\ LooksUp(t) /\ ~ResolveSession(tabs[t].sent.sid, tabs[t].params)
    /\ IF tabs[t].params.prompt = "none" THEN ReturnError(t) ELSE ShowView(t, "login")

FindSession(t) ==
    /\ LooksUp(t) /\ ResolveSession(tabs[t].sent.sid, tabs[t].params)
    /\ tabs' = [tabs EXCEPT ![t].at = "checkConsent",
                           ![t].user = sessions[tabs[t].sent.sid].user]
    /\ UNCHANGED <<sessions, consents, jar, approved, expiries>>

\* Then the consent, and the answer.
ConsentGranted(t) ==
    tabs[t].params.external => Consented(tabs[t].user, tabs[t].params.scope)

Confirmed(t) == tabs[t].params.skipConfirm \/ tabs[t].flag = "session_confirmed"

AskConsent(t) ==
    /\ At(t, "checkConsent")
    /\ IF tabs[t].params.prompt = "consent" THEN Confirmed(t) ELSE ~ConsentGranted(t)
    /\ ShowView(t, "consent")

AskConfirm(t) ==
    /\ At(t, "checkConsent") /\ ~Confirmed(t)
    /\ tabs[t].params.prompt = "consent" \/ ConsentGranted(t)
    /\ ShowView(t, "confirm")

IssueCode(t) ==
    /\ At(t, "checkConsent") /\ Confirmed(t)
    /\ tabs[t].params.prompt # "consent" /\ ConsentGranted(t)
    /\ Return(t, [tabs[t] EXCEPT !.at = "code", !.sent = NoCookies, !.flag = "none"])

\* Anything thrown: the page is the server's error; but what the validation finds
\* wrong once client and redirect_uri are known goes to the client.
Fail(t) ==
    \/ /\ tabs[t].at \in {"authorize", "checkConsent"}
       /\ Return(t, [Closed EXCEPT !.at = "deadend"])
    \/ At(t, "authorize") /\ ReturnError(t)

-----------------------------------------------------------------------------
\* Time.

Expire == expiries < MaxExpiries /\ expiries' = expiries + 1

\* The flow_id cookie lives for 15 minutes, and is not renewed.
ExpireFlow ==
    /\ Expire /\ jar.flow # NoFlow
    /\ jar' = [jar EXCEPT !.flow = NoFlow]
    /\ UNCHANGED <<sessions, consents, tabs, approved>>

\* A session expires, or grows older than max_age.
ExpireSession(s) ==
    /\ Expire /\ SessionValid(s)
    /\ \/ sessions' = [sessions EXCEPT ![s] = NoSession]
       \/ sessions[s].recent /\ sessions' = [sessions EXCEPT ![s].recent = FALSE]
    /\ UNCHANGED <<consents, jar, tabs, approved>>

-----------------------------------------------------------------------------
Server(t) ==
    \/ AccessDenied(t) \/ ForceLogin(t) \/ RejectPrompt(t)
    \/ LoginRequired(t) \/ FindSession(t)
    \/ AskConsent(t) \/ AskConfirm(t) \/ IssueCode(t)

EnterCredentials(t) == \E u \in Users : LogIn(t, u) \/ AskTenant(t, u)

SignOff(t) == Logout(t) \/ LogoutUnanswered(t) \/ RefuseLogout(t)

Decide(t) == Grant(t) \/ Deny(t) \/ RefuseConsent(t)

AnswerConsent(t) == SaveConsent(t) \/ SaveRefused(t)

User(t) ==
    \/ Open(t) \/ Abandon(t) \/ StartOver(t)
    \/ EnterCredentials(t) \/ SelectTenant(t)
    \/ Continue(t) \/ SignOff(t) \/ Decide(t)

Next ==
    \/ \E t \in Tabs :
          \/ User(t) \/ Server(t) \/ Fail(t) \/ Timeout(t) \/ SessionInfo(t)
          \/ AnswerConsent(t) \/ SaveUnanswered(t)
    \/ ExpireFlow \/ \E s \in Sids : ExpireSession(s)

Spec == Init /\ [][Next]_vars

\* Requests are answered; a user who meets a view again and again does what it
\* asks for some time, and the answers to a grant get through some time.
FairTab(t) ==
    /\ WF_vars(Server(t)) /\ WF_vars(SessionInfo(t))
    /\ SF_vars(EnterCredentials(t)) /\ SF_vars(SelectTenant(t))
    /\ SF_vars(Continue(t)) /\ SF_vars(Decide(t)) /\ SF_vars(AnswerConsent(t))
    /\ WF_vars(StartOver(t))

FairSpec == Spec /\ \A t \in Tabs : FairTab(t)

-----------------------------------------------------------------------------
\* Properties

HasCode(t) == At(t, "code")

\* A client outside the server gets a code only for scopes whose grant by the user
\* the code names was stored, whatever overlaps (checkConsent, grantConsent).
ConsentedCode ==
    \A t \in Tabs : HasCode(t) /\ tabs[t].params.external =>
        tabs[t].params.scope \subseteq approved[tabs[t].user]

\* Unless the tenant turned the confirmation off, a code names the user who, in
\* this conversation, logged in or pressed Continue under their own address, and
\* has not logged out since (session_confirmed is used once and only so).
CodeForThePresent ==
    \A t \in Tabs : HasCode(t) /\ ~tabs[t].params.skipConfirm =>
        tabs[t].present = tabs[t].user

\* A session that was over, or too old for max_age, when the last request of the
\* conversation left yields no code (resolveSession).
NoStaleSession == \A t \in Tabs : HasCode(t) => ~tabs[t].stale

\* docs/user-consent.md: granting more scopes never removes granted ones, so what a
\* user's stored grants named stays in the row.  Overlapping grants break it.
GrantsAccumulate ==
    \A u \in Users : approved[u] \subseteq consents[u].scopes

\* authorize.service.ts: the selected tenant is the subscriber_tenant_hint, so the
\* code carries it.  The page's redirect drops it.
ChosenTenantReachesCode ==
    \A t \in Tabs : HasCode(t) /\ tabs[t].chosen # NoTenant =>
        tabs[t].params.hint = tabs[t].chosen

\* Views that show an error of every attempt and offer no other way: a csrf_token
\* whose flow is gone, a consent view whose session is gone.
Stuck(t) ==
    \/ tabs[t].at \in {"login", "tenants"} /\ ~CsrfHolds(t)
    \/ At(t, "consent") /\ ~SessionValid(jar.sid)

Ends(t) == tabs[t].at \in {"client", "code", "deadend"} \/ Stuck(t)

\* A conversation ends: the views do not send a user who goes on in circles
\* (prompt=login, which does, has its own property).
EndsAtClient ==
    \A t \in Tabs : (tabs[t].params.prompt # "login") ~> Ends(t)

\* docs/login-sessions.md: after the login that prompt=login asks for, the
\* conversation ends too.  It asks for the login again.
PromptLoginEnds ==
    \A t \in Tabs : (tabs[t].params.prompt = "login" /\ tabs[t].present # NoUser) ~> Ends(t)
=============================================================================
