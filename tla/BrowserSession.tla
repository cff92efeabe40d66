----------------------------- MODULE BrowserSession -----------------------------
(***************************************************************************)
(* One tab of the console: how it signs in, keeps and renews its tokens,   *)
(* and signs out.                                                          *)
(*                                                                         *)
(* The tab's state is its sessionStorage, which survives a page load, and  *)
(* the variables of the running page, which do not.  A sign-in is one      *)
(* authorization flow; flow n stores n as its state, nonce and verifier,   *)
(* and n stands for its code, and for the token family it leads to.        *)
(*                                                                         *)
(* A request of the page passes AuthInterceptor.  It is                    *)
(*   sent     with the access token; a 401 makes the interceptor refresh   *)
(*   refresh  waiting for the refresh that it has started itself           *)
(*   queued   waiting for a refresh that another request has started       *)
(*   retry    sent again after its own refresh: any error signs out        *)
(*   late     sent after the refresh it was queued for                     *)
(* The code between two answers runs at once.  What a sign-out still does  *)
(* after its logout request is done when that request ends.                *)
(***************************************************************************)
EXTENDS Naturals, FiniteSets

CONSTANTS
    Slots,      \* slots for the requests of a page
    MaxFlows,   \* bound: sign-ins started
    MaxTokens   \* bound: access tokens of a sign-in

ASSUME FlowsAreCounted == MaxFlows \in Nat
ASSUME TokensAreCounted == MaxTokens \in Nat \ {0}

Flows == 1 .. MaxFlows
NoFlow == 0

\* An access token, or the refresh token that was issued with it.
Token == [by : Flows, gen : 1 .. MaxTokens]
NoToken == [by |-> NoFlow, gen |-> 0]

VARIABLES
    tab,      \* sessionStorage (access ... flow) and the page (at, waiting, busy)
    requests, \* the requests of the page
    flows,    \* sign-ins started
    cookies,  \* the cookies sid and flow_id of the browser
    server,   \* codes, login sessions, token families
    sent,     \* history: how often each code went to the token endpoint
    quit      \* history: sign-ins that a sign-out has ended without an error

sessionVars == <<tab, requests, flows, cookies, server, sent, quit>>

Tab == [access : Token \cup {NoToken},
        refresh : Token \cup {NoToken},
        who : Flows \cup {NoFlow},      \* user profile and permissions
        state : Flows \cup {NoFlow},
        nonce : Flows \cup {NoFlow},
        flow : Flows \cup {NoFlow},     \* verifier, client id and return path
        at : {"login", "away", "callback", "failed", "app", "bye"},
        waiting : SUBSET {"profile", "permissions"},
        busy : BOOLEAN]                 \* isRefreshing

Request == [pc : {"idle", "sent", "refresh", "queued", "retry", "late"},
            kind : {"none", "code", "profile", "permissions", "api", "logout", "leave"},
            bearer : Token \cup {NoToken},
            presented : Token \cup {NoToken},  \* the refresh token, for refresh
            body : Token \cup {NoToken},       \* the refresh token, for logout
            reply : {"none", "ok", "bare", "elsewhere", "401", "refused"}]

Idle == [pc |-> "idle", kind |-> "none", bearer |-> NoToken, presented |-> NoToken,
         body |-> NoToken, reply |-> "none"]

Server == [codes : SUBSET Flows,                    \* not yet redeemed
           sid : [Flows -> Flows \cup {NoFlow}],    \* login session of the sign-in
           live : SUBSET Flows,                     \* login sessions still valid
           tokens : [Flows -> 0 .. MaxTokens],      \* tokens issued
           expired : [Flows -> 0 .. MaxTokens],     \* access tokens expired, the oldest
           revoked : SUBSET Flows]                  \* families

Cookies == [sid : Flows \cup {NoFlow}, flowId : BOOLEAN]

NoRequests == [c \in Slots |-> Idle]
Of(kind) == [Idle EXCEPT !.kind = kind]
Expired(t) == t # NoToken /\ t.gen <= server.expired[t.by]
Renewal(c) == requests[c].pc = "refresh"
Answered(c) == requests[c].pc \notin {"idle", "queued"} /\ requests[c].reply # "none"
Unanswered(c) == requests[c].pc \notin {"idle", "queued"} /\ requests[c].reply = "none"
Reply(c, r) == requests' = [requests EXCEPT ![c].reply = r]

SessionInit ==
    /\ tab = [access |-> NoToken, refresh |-> NoToken, who |-> NoFlow, state |-> NoFlow,
              nonce |-> NoFlow, flow |-> NoFlow, at |-> "login", waiting |-> {}, busy |-> FALSE]
    /\ requests = NoRequests
    /\ flows = 0
    /\ cookies = [sid |-> NoFlow, flowId |-> FALSE]
    /\ server = [codes |-> {}, sid |-> [f \in Flows |-> NoFlow], live |-> {},
                 tokens |-> [f \in Flows |-> 0], expired |-> [f \in Flows |-> 0],
                 revoked |-> {}]
    /\ sent = [f \in Flows |-> 0]
    /\ quit = {}

-----------------------------------------------------------------------------
(* What the handlers do to the tab.                                        *)

\* clearSession
Cleared(t) == [t EXCEPT !.access = NoToken, !.refresh = NoToken, !.who = NoFlow]

\* fail() of the callback page: what the flow had stored is removed
Failed(t) ==
    [t EXCEPT !.state = NoFlow, !.nonce = NoFlow, !.flow = NoFlow, !.waiting = {},
              !.at = IF t.at = "callback" THEN "failed" ELSE t.at]

\* the end of signOut: clearSession and navToLogin
Out(t) == [Cleared(t) EXCEPT !.at = "login"]

\* a page load ends what the old page was doing
Loaded(t, at) == [t EXCEPT !.at = at, !.waiting = {}, !.busy = FALSE]

\* UserAuthGuard in front of the console's pages
EnterConsole(t) == IF t.access = NoToken THEN Out(t) ELSE [t EXCEPT !.at = "app"]

\* saveToken takes a valid token; an invalid one clears the session
Save(t, token, refresh) == [t EXCEPT !.access = token, !.refresh = refresh]

\* Faulty form: signOut clears the session before it reads the refresh token.
HeldAfterClearing(t) == Cleared(t).refresh

\* The refresh token that signOut presents.
Held(t) == t.refresh

\* The end of the callback page: profile and permissions are stored, the flow's
\* verifier, client id and return path are removed, and the console is entered.
Signed(t) == EnterConsole([t EXCEPT !.who = t.access.by, !.flow = NoFlow])

\* What the caller of a request of that kind does when the request has succeeded.
OnSuccess(kind, t) ==
    CASE kind \in t.waiting ->
            IF t.waiting = {kind} THEN Signed([t EXCEPT !.waiting = {}])
                                  ELSE [t EXCEPT !.waiting = @ \ {kind}]
      [] kind = "logout" -> Out(t)
      [] kind = "leave" -> Cleared(t)
      [] OTHER -> t

\* ... and when it has failed.
OnError(kind, t) ==
    CASE kind \in {"profile", "permissions"} /\ t.waiting # {} -> Failed(Cleared(t))
      [] kind = "logout" -> Out(t)
      [] kind = "leave" -> Cleared(t)
      [] OTHER -> t

\* handleTokenRefresh for a request: the tab and the request after it.
Renew(t, req) ==
    IF t.busy
      THEN [tab |-> t, req |-> [req EXCEPT !.pc = "queued", !.bearer = NoToken, !.reply = "none"]]
      ELSE IF t.refresh = NoToken \/ t.access = NoToken
        THEN [tab |-> OnError(req.kind, Out(t)), req |-> Idle]
        ELSE [tab |-> [t EXCEPT !.busy = TRUE],
              req |-> [req EXCEPT !.pc = "refresh", !.bearer = NoToken,
                                  !.presented = t.refresh, !.reply = "none"]]

\* intercept
Launch(t, req) ==
    IF Expired(t.access)
      THEN Renew(t, req)
      ELSE [tab |-> t, req |-> [req EXCEPT !.pc = "sent", !.bearer = t.access]]

\* The catchError of handleTokenRefresh: the session is signed out, then the
\* caller of the request sees the error.  The logout request takes its slot.
GiveUp(t, kind) ==
    LET free == [t EXCEPT !.busy = FALSE]
        launched == IF Held(free) = NoToken
                      THEN [tab |-> Out(free), req |-> Idle]
                      ELSE Launch(free, [Of("logout") EXCEPT !.body = Held(free)])
    IN  [tab |-> OnError(kind, launched.tab), req |-> launched.req]

\* The tab and slot c are what a handler has made of them.
Becomes(c, result) ==
    /\ tab' = result.tab
    /\ requests' = [requests EXCEPT ![c] = result.req]

-----------------------------------------------------------------------------
(* Signing in.                                                             *)

\* startAuthorize of the login page: fresh state, nonce and verifier are stored
\* and the browser leaves for the authorize endpoint.
Start ==
    /\ tab.at = "login"
    /\ flows < MaxFlows
    /\ flows' = flows + 1
    /\ tab' = [Loaded(tab, "away") EXCEPT !.state = flows', !.nonce = flows', !.flow = flows']
    /\ requests' = NoRequests
    /\ UNCHANGED <<cookies, server, sent, quit>>

\* The authorize endpoint shows a page of its own: login, consent, confirmation.
AskUser ==
    /\ tab.at = "away"
    /\ cookies' = [cookies EXCEPT !.flowId = TRUE]
    /\ UNCHANGED <<tab, requests, flows, server, sent, quit>>

\* It issues a code, in the session of the cookie or after a new login.
Grant(s) ==
    /\ tab.at = "away"
    /\ server.sid[flows] = NoFlow
    /\ s \in {flows} \cup (server.live \cap {cookies.sid})
    /\ cookies' = [sid |-> s, flowId |-> FALSE]
    /\ server' = [server EXCEPT !.codes = @ \cup {flows}, !.sid[flows] = s,
                                !.live = @ \cup {s}]
    /\ UNCHANGED <<tab, requests, flows, sent, quit>>

\* Or it redirects with an error.
DeclineSignIn ==
    /\ tab.at = "away"
    /\ tab' = Failed([tab EXCEPT !.at = "callback"])
    /\ UNCHANGED <<requests, flows, cookies, server, sent, quit>>

\* Faulty form: the state is kept after it was validated.
ValidatedKeeps(t) == t

\* StateService.validate: the state counts once.
Validated(t) == [t EXCEPT !.state = NoFlow]

\* The callback page is loaded with the code and state of flow f: by the
\* redirect, or again, by a reload or by the browser's history.
Callback(f, c) ==
    /\ server.sid[f] # NoFlow
    /\ LET t == Loaded(tab, "callback") IN
         IF tab.state # f
           THEN /\ tab' = Failed(t)
                /\ requests' = NoRequests
                /\ UNCHANGED sent
           ELSE /\ sent[f] < 2
                /\ tab' = Validated(t)
                /\ requests' = [NoRequests EXCEPT ![c] =
                       [Of("code") EXCEPT !.pc = "late", !.bearer = [by |-> f, gen |-> 1]]]
                /\ sent' = [sent EXCEPT ![f] = @ + 1]
    /\ UNCHANGED <<flows, cookies, server, quit>>

\* The token endpoint redeems the code, which the verifier of the flow proves;
\* a client may be one that gets no refresh token.
Redeem(c) ==
    /\ Unanswered(c)
    /\ requests[c].kind = "code"
    /\ LET f == requests[c].bearer.by IN
         IF f \in server.codes /\ tab.flow = f
           THEN /\ server' = [server EXCEPT !.codes = @ \ {f}, !.tokens[f] = 1]
                /\ \E r \in {"ok", "bare"} : Reply(c, r)
           ELSE /\ server' = [server EXCEPT !.codes = @ \ {f}]
                /\ Reply(c, "refused")
    /\ UNCHANGED <<tab, flows, cookies, sent, quit>>

\* The callback page checks the nonce, stores the tokens and asks for profile
\* and permissions.  d is a second slot.
Exchanged(c, d) ==
    /\ Answered(c)
    /\ requests[c].kind = "code"
    /\ LET access == requests[c].bearer
           refresh == IF requests[c].reply = "ok" THEN access ELSE tab.refresh
           known == [Save(tab, access, refresh) EXCEPT !.nonce = NoFlow,
                                                        !.waiting = {"profile", "permissions"}]
           refused == requests[c].reply = "refused" \/ Expired(access)
           foreign == tab.nonce \notin {access.by, NoFlow}
       IN  \/ /\ refused
              /\ tab' = Failed(Cleared(tab))
              /\ requests' = NoRequests
           \/ /\ ~refused /\ foreign
              /\ tab' = Failed(tab)
              /\ requests' = NoRequests
           \/ /\ ~refused /\ ~foreign
              /\ d # c
              /\ tab' = known
              /\ requests' = [NoRequests EXCEPT ![c] = Launch(known, Of("profile")).req,
                                             ![d] = Launch(known, Of("permissions")).req]
    /\ UNCHANGED <<flows, cookies, server, sent, quit>>

-----------------------------------------------------------------------------
(* Requests and refreshes.                                                 *)

\* A page of the console asks for something.
AskServer(c) ==
    /\ tab.at = "app"
    /\ requests[c] = Idle
    /\ Becomes(c, Launch(tab, Of("api")))
    /\ UNCHANGED <<flows, cookies, server, sent, quit>>

\* The server answers: 401 without a valid token; it may also refuse a token
\* that the browser's clock takes to be valid.
Answer(c) ==
    /\ Unanswered(c)
    /\ ~Renewal(c)
    /\ requests[c].kind \in {"api", "profile", "permissions"}
    /\ \E r \in {"ok", "401", "refused"} :
          /\ requests[c].bearer = NoToken \/ Expired(requests[c].bearer) => r = "401"
          /\ Reply(c, r)
    /\ UNCHANGED <<tab, flows, cookies, server, sent, quit>>

\* The token endpoint rotates the presented token, once more for one that was
\* superseded a moment ago; or takes that for a replay and revokes the family;
\* or refuses, as for a locked user.
Rotate(c) ==
    /\ Unanswered(c)
    /\ Renewal(c)
    /\ LET f == requests[c].presented.by IN
         \/ /\ f \notin server.revoked
            /\ server.tokens[f] < MaxTokens
            /\ server' = [server EXCEPT !.tokens[f] = @ + 1]
            /\ requests' = [requests EXCEPT ![c].reply = "ok",
                                            ![c].bearer = [by |-> f, gen |-> server'.tokens[f]]]
         \/ /\ requests[c].presented.gen < server.tokens[f]
            /\ server' = [server EXCEPT !.revoked = @ \cup {f}]
            /\ Reply(c, "refused")
         \/ /\ Reply(c, "refused")
            /\ UNCHANGED server
    /\ UNCHANGED <<tab, flows, cookies, sent, quit>>

\* POST logout.  An unfinished flow in the browser (cookie flow_id) makes the
\* endpoint ask for a csrf token, which the console does not send.  The session
\* of the cookie and its families end, and with a valid access token the family
\* of the refresh token in the body.
Logout(c) ==
    /\ Unanswered(c)
    /\ ~Renewal(c)
    /\ requests[c].kind \in {"logout", "leave"}
    /\ \E valid \in BOOLEAN :
         LET req == requests[c]
             sid == cookies.sid
             ofSession == {f \in Flows : sid # NoFlow /\ server.sid[f] = sid}
             ofBody == {f \in {req.body.by} \cap Flows : valid}
         IN  /\ valid => req.bearer # NoToken /\ ~Expired(req.bearer)
             /\ IF cookies.flowId \/ (~valid /\ sid = NoFlow)
                  THEN /\ Reply(c, "refused")
                       /\ UNCHANGED <<server, cookies>>
                  ELSE /\ server' = [server EXCEPT !.revoked = @ \cup ofSession \cup ofBody,
                                                   !.live = @ \ {sid}]
                       /\ cookies' = [cookies EXCEPT !.sid = NoFlow]
                       /\ Reply(c, IF valid \/ req.body.by \in ofSession
                                     THEN "ok" ELSE "elsewhere")
    /\ UNCHANGED <<tab, flows, sent, quit>>

\* A request or its answer is lost: for the page, it was refused.
Lose(c) ==
    /\ requests[c].pc \notin {"idle", "queued"}
    /\ requests[c].reply # "refused"
    /\ Reply(c, "refused")
    /\ UNCHANGED <<tab, flows, cookies, server, sent, quit>>

\* The page hears the answer to a request.
Hear(c) ==
    /\ Answered(c)
    /\ ~Renewal(c)
    /\ requests[c].kind # "code"
    /\ LET req == requests[c]
           good == req.reply \in {"ok", "elsewhere"}
       IN  /\ CASE good -> Becomes(c, [tab |-> OnSuccess(req.kind, tab), req |-> Idle])
                [] req.reply = "401" /\ req.pc = "sent" -> Becomes(c, Renew(tab, req))
                [] ~good /\ req.pc = "retry" -> Becomes(c, GiveUp(tab, req.kind))
                [] OTHER -> Becomes(c, [tab |-> OnError(req.kind, tab), req |-> Idle])
           /\ quit' = IF req.kind = "logout" /\ req.reply = "ok"
                        THEN quit \cup {req.body.by} ELSE quit
    /\ UNCHANGED <<flows, cookies, server, sent>>

\* The page hears the answer to a refresh: the tokens are stored, the request
\* is sent again, and so are those that were queued.
Refreshed(c) ==
    /\ Answered(c)
    /\ Renewal(c)
    /\ LET req == requests[c]
           fresh == req.bearer
       IN  CASE req.reply # "ok" -> Becomes(c, GiveUp(tab, req.kind))
             [] req.reply = "ok" /\ Expired(fresh) ->
                  Becomes(c, GiveUp(Cleared(tab), req.kind))
             [] OTHER ->
                  /\ tab' = [Save(tab, fresh, fresh) EXCEPT !.busy = FALSE]
                  /\ requests' = [d \in Slots |->
                       IF d = c THEN [req EXCEPT !.pc = "retry", !.reply = "none",
                                                 !.presented = NoToken]
                       ELSE IF requests[d].pc = "queued"
                         THEN [requests[d] EXCEPT !.pc = "late", !.bearer = fresh]
                         ELSE requests[d]]
    /\ UNCHANGED <<flows, cookies, server, sent, quit>>

-----------------------------------------------------------------------------
(* Signing out, page loads and time.                                       *)

\* The user clicks Logout: signOut calls the logout endpoint when there is a
\* refresh token, and clears the session after it.
SignOut(c) ==
    /\ tab.at = "app"
    /\ requests[c] = Idle
    /\ IF Held(tab) = NoToken
         THEN /\ Becomes(c, [tab |-> Out(tab), req |-> Idle])
              /\ quit' = quit \cup ({tab.refresh.by} \cap Flows)
         ELSE /\ Becomes(c, Launch(tab, [Of("logout") EXCEPT !.body = Held(tab)]))
              /\ UNCHANGED quit
    /\ UNCHANGED <<flows, cookies, server, sent>>

\* The user loads the console, or the login page, in this tab.
Visit ==
    /\ tab' \in {EnterConsole(Loaded(tab, "app")), Loaded(tab, "login")}
    /\ tab' # tab
    /\ requests' = NoRequests
    /\ UNCHANGED <<flows, cookies, server, sent, quit>>

\* The user loads /logout, which ends the session of the cookie.
LeaveSession(c) ==
    /\ tab.at # "bye"
    /\ LET launched == Launch(Loaded(tab, "bye"), Of("leave"))
       IN  /\ tab' = launched.tab
           /\ requests' = [NoRequests EXCEPT ![c] = launched.req]
    /\ UNCHANGED <<flows, cookies, server, sent, quit>>

\* A component reads the user from the token: an expired one clears the session.
Look ==
    /\ tab.at = "app"
    /\ Expired(tab.access)
    /\ tab' = Cleared(tab)
    /\ UNCHANGED <<requests, flows, cookies, server, sent, quit>>

\* The oldest access token of a sign-in expires.
Expire(f) ==
    /\ server.expired[f] < server.tokens[f]
    /\ server' = [server EXCEPT !.expired[f] = @ + 1]
    /\ UNCHANGED <<tab, requests, flows, cookies, sent, quit>>

\* The flow_id cookie expires.
Forget ==
    /\ cookies.flowId
    /\ cookies' = [cookies EXCEPT !.flowId = FALSE]
    /\ UNCHANGED <<tab, requests, flows, server, sent, quit>>

SignIn ==
    \/ Start \/ AskUser \/ DeclineSignIn
    \/ \E s \in Flows : Grant(s)
    \/ \E f \in Flows, c \in Slots : Callback(f, c)
    \/ \E c \in Slots : Redeem(c)
    \/ \E c, d \in Slots : Exchanged(c, d)

SessionNext ==
    \/ SignIn
    \/ \E c \in Slots : AskServer(c) \/ Answer(c) \/ Rotate(c) \/ Logout(c) \/ Lose(c)
    \/ \E c \in Slots : Hear(c) \/ Refreshed(c) \/ SignOut(c) \/ LeaveSession(c)
    \/ Visit \/ Look \/ Forget
    \/ \E f \in Flows : Expire(f)

SessionSpec == SessionInit /\ [][SessionNext]_sessionVars

-----------------------------------------------------------------------------
(* Properties.                                                             *)

\* Every variable has its type, and a tab that holds a refresh token holds an
\* access token: the interceptor needs both to refresh.
SessionTypeOK ==
    /\ tab \in Tab
    /\ requests \in [Slots -> Request]
    /\ flows \in 0 .. MaxFlows
    /\ cookies \in Cookies
    /\ server \in Server
    /\ sent \in [Flows -> 0 .. 2]
    /\ quit \subseteq Flows
    /\ tab.refresh # NoToken => tab.access # NoToken

\* A code goes to the token endpoint once, and with the verifier of its own
\* flow, however often the callback page is loaded again: a code that is sent
\* twice is refused and may cost the user the tokens it was exchanged for.
OneExchangePerCode ==
    /\ \A f \in Flows : sent[f] <= 1
    /\ \A c \in Slots : requests[c].kind = "code" => requests[c].bearer.by = tab.flow

\* A sign-out that ended without an error has ended the sign-in on the server
\* too, also when tokens were refreshed while it was under way: no refresh
\* token of it is of use to anyone.  (Not promised by an answered request: a
\* logout the server refused, or took for another session's.)
SignOutRevokes == quit \subseteq server.revoked

=============================================================================
