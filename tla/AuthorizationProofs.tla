-------------------------- MODULE AuthorizationProofs --------------------------
(***************************************************************************)
(* Proofs about AuthorizeFlow, for any number of tabs, users and requests, *)
(* and about AuthorizationCodes, for any number of authorizations and      *)
(* requests, of which any number may draw the same six digits.             *)
(***************************************************************************)
EXTENDS AuthorizeFlow, AuthorizationCodes, TLAPS

(***************************************************************************)
(* AuthorizeFlow                                                           *)
(*                                                                         *)
(* A tab keeps what its request found while other tabs write the cookies,  *)
(* the sessions and the consents.  It may, because of what never happens   *)
(* behind its back: a session a request has named only gets worse          *)
(* (SessionsEnd), and a stored grant is never taken out of approved        *)
(* (ApprovedGrows), even when a stale save takes it out of the row.        *)
(* Who is present (PresentOK) is a matter of one tab.                      *)
(***************************************************************************)
\* What is stored was granted.
StoredConsentsOK == \A u \in Users : consents[u].scopes \subseteq approved[u]

\* What a tab may rely on between two steps.
TabOK(tab) ==
    /\ tab.at \in {"tenants", "checkConsent", "saveConsent", "code"} => tab.user \in Users
    /\ tab.at = "authorize" /\ Acceptable(tab.sent.sid, tab.params) => ~tab.stale
    /\ tab.at \in {"checkConsent", "code"} => ~tab.stale
    /\ tab.at = "saveConsent" => tab.read.scopes \subseteq approved[tab.user]
    /\ tab.at = "code" /\ tab.params.external => tab.params.scope \subseteq approved[tab.user]

IInv ==
    /\ TypeOK
    /\ StoredConsentsOK
    /\ \A t \in Tabs : TabOK(tabs[t])

ApprovedGrows == \A u \in Users : approved[u] \subseteq approved'[u]

SessionsEnd ==
    \A s \in HeldSids \ {NoSid} :
        \/ sessions'[s] = sessions[s]
        \/ sessions'[s] = NoSession
        \/ sessions'[s] = [sessions[s] EXCEPT !.recent = FALSE]

-----------------------------------------------------------------------------
LEMMA FreshTypes == FreshSid \subseteq Sids /\ FreshFlow \subseteq FlowIds
  <1>1. ASSUME NEW S, NEW x \in AnyOf(S)
        PROVE  x \in S
    BY <1>1 DEF AnyOf
  <1> QED BY <1>1 DEF FreshSid, FreshFlow

LEMMA NothingTypes ==
  /\ NoCookies \in Cookies /\ NoSession \in Session /\ NoConsent \in Consent
  /\ NoParams \in Requested
  BY FlowConstants
  DEF NoCookies, Cookies, NoSession, Session, NoConsent, Consent, NoParams

\* A tab about to begin is a tab.
LEMMA FreshType ==
  ASSUME NEW p \in Requested
  PROVE  Fresh(p) \in Tab /\ Fresh(p).at = "client" /\ Fresh(p).params = p
  BY NothingTypes, FlowConstants
  DEF Fresh, Tab, Places, Views, Handlers, Flags

LEMMA ClosedType == Closed \in Tab /\ Closed.at = "client"
  BY NothingTypes, FreshType DEF Closed

\* A tab that leaves for GET /authorize is a tab, and knows about its cookies.
LEMMA LeavingType ==
  ASSUME NEW tab \in Tab, NEW flag \in Flags, NEW cookies \in Cookies
  PROVE  /\ Leaving(tab, flag, cookies) \in Tab
         /\ Leaving(tab, flag, cookies).at = "authorize"
         /\ Leaving(tab, flag, cookies).sent = cookies
         /\ Leaving(tab, flag, cookies).params = tab.params
         /\ Leaving(tab, flag, cookies).stale = ~Acceptable(cookies.sid, tab.params)
  <1> DEFINE old == ~Acceptable(cookies.sid, tab.params)
  <1>1. old \in BOOLEAN
    BY Zenon
  <1> HIDE DEF old
  <1>2. [tab EXCEPT !.at = "authorize", !.flag = flag, !.sent = cookies, !.csrf = NoFlow,
                    !.user = NoUser, !.shown = NoUser, !.read = NoConsent,
                    !.stale = old] = Leaving(tab, flag, cookies)
    BY Zenon DEF Leaving, old
  <1> DEFINE left == [tab EXCEPT !.at = "authorize", !.flag = flag, !.sent = cookies,
                                 !.csrf = NoFlow, !.user = NoUser, !.shown = NoUser,
                                 !.read = NoConsent, !.stale = old]
  <1>3. "authorize" \in Places
    BY DEF Places, Handlers
  <1>4. left \in Tab
    BY <1>1, <1>3, NothingTypes DEF Tab
  <1>5. left.at = "authorize" /\ left.sent = cookies /\ left.params = tab.params
    BY DEF Tab
  <1>6. left.stale = old
    BY DEF Tab
  <1> QED BY <1>2, <1>4, <1>5, <1>6, Zenon DEF old

LEMMA ForwardedType ==
  ASSUME NEW p \in Params, NEW view \in Views
  PROVE  Forwarded(p, view) \in Params
  BY DEF Forwarded, Params, Prompts

\* In most places a tab relies on nothing.
Restful == {"client", "login", "consent", "confirm", "error", "deadend"}

LEMMA RestfulOK ==
  ASSUME NEW tab \in Tab, tab.at \in Restful
  PROVE  TabOK(tab) /\ TabOK(tab)'
  BY DEF TabOK, Restful

LEMMA LeavingOK ==
  ASSUME NEW tab \in Tab, NEW flag \in Flags, NEW cookies \in Cookies
  PROVE  TabOK(Leaving(tab, flag, cookies))
  BY LeavingType DEF TabOK

\* A session that will do for a request in flight did so before.
LEMMA DidBefore ==
  ASSUME TypeOK, SessionsEnd, NEW s \in HeldSids, s \in Sids \cup {NoSid},
         NEW p \in Params, Acceptable(s, p)'
  PROVE  Acceptable(s, p)
  <1>1. s # NoSid /\ sessions'[s].user # NoUser /\ (p.maxAge => sessions'[s].recent)
    BY DEF Acceptable, SessionValid
  <1>2. sessions[s] \in Session
    BY <1>1 DEF TypeOK
  <1>3. CASE sessions'[s] = sessions[s]
    BY <1>1, <1>3 DEF Acceptable, SessionValid
  <1>4. CASE sessions'[s] = NoSession
    BY <1>1, <1>4 DEF NoSession
  <1>5. CASE sessions'[s] = [sessions[s] EXCEPT !.recent = FALSE]
    <2>1. sessions'[s].user = sessions[s].user /\ sessions'[s].recent = FALSE
      BY <1>2, <1>5 DEF Session
    <2>2. ~p.maxAge
      BY <1>1, <2>1
    <2> QED BY <1>1, <2>1, <2>2 DEF Acceptable, SessionValid
  <1> QED BY <1>1, <1>3, <1>4, <1>5 DEF SessionsEnd

\* Nothing that another tab relies on is taken from it.
LEMMA OthersOK ==
  ASSUME IInv, ApprovedGrows, SessionsEnd, NEW r \in Tabs, tabs'[r] = tabs[r]
  PROVE  TabOK(tabs[r])'
  <1>1. tabs'[r] = tabs[r] /\ TabOK(tabs[r])
    BY DEF IInv
  <1>2. PICK o \in Tab : o = tabs[r]
    BY DEF IInv, TypeOK
  <1>3. o.sent.sid \in HeldSids /\ o.sent.sid \in Sids \cup {NoSid} /\ o.params \in Params
    BY <1>2 DEF HeldSids, Tab, Cookies
  <1>4. Acceptable(o.sent.sid, o.params)' => Acceptable(o.sent.sid, o.params)
    BY <1>3, DidBefore DEF IInv
  <1>5. o.user \in Users => approved[o.user] \subseteq approved'[o.user]
    BY DEF ApprovedGrows
  <1>6. TabOK(o)'
    BY <1>1, <1>2, <1>4, <1>5 DEF TabOK
  <1> QED BY <1>1, <1>2, <1>6 DEF TabOK, Acceptable, SessionValid

LEMMA StepOK ==
  ASSUME IInv, NEW t \in Tabs, NEW tab \in Tab, tabs' = [tabs EXCEPT ![t] = tab],
         sessions' \in [Sids -> Session], consents' \in [Users -> Consent],
         jar' \in Cookies, approved' \in [Users -> SUBSET Scopes],
         expiries' \in 0..MaxExpiries,
         ApprovedGrows, SessionsEnd, StoredConsentsOK', TabOK(tab)'
  PROVE  IInv'
  <1>1. tabs' \in [Tabs -> Tab] /\ tabs'[t] = tab
    BY DEF IInv, TypeOK
  <1>2. TypeOK'
    BY <1>1 DEF TypeOK
  <1>3. \A r \in Tabs : r # t => TabOK(tabs[r])'
    <2>1. \A r \in Tabs : r # t => tabs'[r] = tabs[r]
      BY DEF IInv, TypeOK
    <2> QED BY <2>1, OthersOK
  <1>4. TabOK(tabs[t])'
    BY <1>1 DEF TabOK, Acceptable, SessionValid
  <1> QED BY <1>2, <1>3, <1>4 DEF IInv

\* A step that writes one tab, and perhaps the cookies.
LEMMA QuietStep ==
  ASSUME IInv, NEW t \in Tabs, NEW tab \in Tab, tabs' = [tabs EXCEPT ![t] = tab],
         jar' \in Cookies, UNCHANGED <<sessions, consents, approved, expiries>>,
         TabOK(tab)
  PROVE  IInv'
  <1>1. ApprovedGrows /\ SessionsEnd
    BY DEF ApprovedGrows, SessionsEnd
  <1>2. StoredConsentsOK'
    BY DEF IInv, StoredConsentsOK
  <1>3. TabOK(tab)'
    BY DEF TabOK, Acceptable, SessionValid
  <1>4. /\ sessions' \in [Sids -> Session] /\ consents' \in [Users -> Consent]
        /\ approved' \in [Users -> SUBSET Scopes] /\ expiries' \in 0..MaxExpiries
    BY DEF IInv, TypeOK
  <1> QED BY <1>1, <1>2, <1>3, <1>4, StepOK

LEMMA RestfulStep ==
  ASSUME IInv, NEW t \in Tabs, NEW tab \in Tab, tab.at \in Restful,
         tabs' = [tabs EXCEPT ![t] = tab],
         jar' \in Cookies, UNCHANGED <<sessions, consents, approved, expiries>>
  PROVE  IInv'
  BY RestfulOK, QuietStep

LEMMA LeavingStep ==
  ASSUME IInv, NEW t \in Tabs, NEW tab \in Tab, NEW flag \in Flags,
         tabs' = [tabs EXCEPT ![t] = Leaving(tab, flag, jar)],
         UNCHANGED <<sessions, consents, jar, approved, expiries>>
  PROVE  IInv'
  <1>1. jar \in Cookies
    BY DEF IInv, TypeOK
  <1> QED BY <1>1, LeavingType, LeavingOK, QuietStep

LEMMA TabsTyped ==
  ASSUME IInv, NEW t \in Tabs
  PROVE  tabs[t] \in Tab /\ TabOK(tabs[t]) /\ jar \in Cookies
  BY DEF IInv, TypeOK

-----------------------------------------------------------------------------
\* The user and the browser.

LEMMA OpenKeeps ==
  ASSUME IInv, NEW t \in Tabs, Open(t)
  PROVE  IInv'
  <1>1. PICK p \in Requested : tabs' = [tabs EXCEPT ![t] = Leaving(Fresh(p), "none", jar)]
    BY DEF Open
  <1>2. Fresh(p) \in Tab /\ "none" \in Flags
    BY FreshType DEF Flags
  <1> QED BY <1>1, <1>2, LeavingStep DEF Open

LEMMA AbandonKeeps ==
  ASSUME IInv, NEW t \in Tabs, Abandon(t)
  PROVE  IInv'
  BY ClosedType, TabsTyped, RestfulStep DEF Abandon, Restful

LEMMA StartOverKeeps ==
  ASSUME IInv, NEW t \in Tabs, StartOver(t)
  PROVE  IInv'
  BY TabsTyped, LeavingStep DEF StartOver, Navigate, Flags

LEMMA ShowErrorKeeps ==
  ASSUME IInv, NEW t \in Tabs, ShowError(t),
         UNCHANGED <<sessions, consents, jar, approved, expiries>>
  PROVE  IInv'
  <1> DEFINE tab == [tabs[t] EXCEPT !.at = "error"]
  <1>1. tab \in Tab /\ tab.at = "error"
    BY TabsTyped DEF Tab, Places, Views
  <1>2. tabs' = [tabs EXCEPT ![t] = tab]
    BY DEF ShowError
  <1> QED BY <1>1, <1>2, TabsTyped, RestfulStep DEF Restful

LEMMA SessionInfoKeeps ==
  ASSUME IInv, NEW t \in Tabs, SessionInfo(t)
  PROVE  IInv'
  <1>1. CASE ~SessionValid(jar.sid)
    BY <1>1, ShowErrorKeeps DEF SessionInfo
  <1>2. CASE SessionValid(jar.sid)
    <2> DEFINE tab == [tabs[t] EXCEPT !.shown = sessions[jar.sid].user]
    <2>1. sessions[jar.sid] \in Session
      BY <1>2, TabsTyped DEF IInv, TypeOK, Cookies, SessionValid
    <2>2. tab \in Tab /\ tab.at = tabs[t].at
      BY <2>1, TabsTyped DEF Tab, Session
    <2>3. tabs' = [tabs EXCEPT ![t] = tab]
      BY <1>2 DEF SessionInfo
    <2> QED BY <2>2, <2>3, TabsTyped, RestfulStep DEF SessionInfo, Restful
  <1> QED BY <1>1, <1>2

LEMMA AskTenantKeeps ==
  ASSUME IInv, NEW t \in Tabs, NEW u \in Users, AskTenant(t, u)
  PROVE  IInv'
  <1> DEFINE tab == [tabs[t] EXCEPT !.at = "tenants", !.user = u]
  <1>1. tab \in Tab /\ tab.at = "tenants" /\ tab.user = u
    BY TabsTyped DEF Tab, Places, Views
  <1>2. tabs' = [tabs EXCEPT ![t] = tab]
    BY DEF AskTenant
  <1>3. TabOK(tab)
    BY <1>1 DEF TabOK
  <1> QED BY <1>1, <1>2, <1>3, TabsTyped, QuietStep DEF AskTenant

LEMMA ContinueKeeps ==
  ASSUME IInv, NEW t \in Tabs, Continue(t)
  PROVE  IInv'
  <1> DEFINE left == Leaving(tabs[t], "session_confirmed", jar)
             tab == [left EXCEPT !.present = tabs[t].shown]
  <1>1. left \in Tab /\ TabOK(left) /\ left.at = "authorize"
    BY TabsTyped, LeavingType, LeavingOK DEF Flags
  <1>2. tab \in Tab
    BY <1>1, TabsTyped DEF Tab
  <1>3. TabOK(tab)
    <2>1. /\ tab.at = left.at /\ tab.sent = left.sent /\ tab.params = left.params
          /\ tab.stale = left.stale
      BY <1>1 DEF Tab
    <2> QED BY <1>1, <2>1 DEF TabOK
  <1>4. tabs' = [tabs EXCEPT ![t] = tab]
    BY DEF Continue
  <1> QED BY <1>2, <1>3, <1>4, TabsTyped, QuietStep DEF Continue

LEMMA DenyKeeps ==
  ASSUME IInv, NEW t \in Tabs, Deny(t)
  PROVE  IInv'
  BY TabsTyped, LeavingStep DEF Deny, Navigate, Flags

LEMMA GrantKeeps ==
  ASSUME IInv, NEW t \in Tabs, Grant(t)
  PROVE  IInv'
  <1> DEFINE u == sessions[jar.sid].user
             tab == [tabs[t] EXCEPT !.at = "saveConsent", !.user = u, !.read = consents[u]]
  <1>1. u \in Users
    <2>1. SessionValid(jar.sid) /\ jar.sid \in Sids
      BY TabsTyped DEF Grant, SessionValid, Cookies
    <2> QED BY <2>1 DEF SessionValid, IInv, TypeOK, Session
  <1>2. consents[u] \in Consent /\ consents[u].scopes \subseteq approved[u]
    BY <1>1 DEF IInv, TypeOK, StoredConsentsOK
  <1>3. tab \in Tab /\ tab.at = "saveConsent" /\ tab.user = u /\ tab.read = consents[u]
    BY <1>1, <1>2, TabsTyped DEF Tab, Places, Handlers
  <1>4. tabs' = [tabs EXCEPT ![t] = tab]
    BY DEF Grant
  <1>5. TabOK(tab)
    BY <1>1, <1>2, <1>3 DEF TabOK
  <1> QED BY <1>3, <1>4, <1>5, TabsTyped, QuietStep DEF Grant

\* A new session has an id that no request in flight has named.
LEMMA StoreSessionKeeps ==
  ASSUME IInv, NEW t \in Tabs, NEW u \in Users, NEW tenant \in Tenants \cup {NoTenant},
         StoreSession(t, u, tenant)
  PROVE  IInv'
  <1>1. PICK s \in FreshSid :
          /\ sessions' = [r \in Sids |->
                 IF r = s THEN [user |-> u, recent |-> TRUE]
                 ELSE IF r \in HeldSids THEN sessions[r] ELSE NoSession]
          /\ jar' = [jar EXCEPT !.sid = s]
          /\ tabs' = [tabs EXCEPT ![t] =
                 [Leaving(tabs[t], "session_confirmed", jar')
                     EXCEPT !.present = u, !.chosen = tenant, !.stale = FALSE]]
    BY DEF StoreSession
  <1> DEFINE left == Leaving(tabs[t], "session_confirmed", jar')
             new == [left EXCEPT !.present = u, !.chosen = tenant, !.stale = FALSE]
  <1>2. s \in Sids /\ s \notin HeldSids
    <2>1. FreshSid \subseteq Sids \ HeldSids
      BY DEF FreshSid, AnyOf
    <2> QED BY <2>1
  <1>3. jar' \in Cookies
    BY <1>1, <1>2, TabsTyped DEF Cookies
  <1>4. left \in Tab /\ left.at = "authorize"
    BY <1>3, TabsTyped, LeavingType DEF Flags
  <1>5. PICK tab \in Tab : tab = new /\ tab.at = "authorize" /\ tab.stale = FALSE
    <2>1. new \in Tab /\ new.at = "authorize" /\ new.stale = FALSE
      BY <1>4 DEF Tab
    <2> QED BY <2>1
  <1>6. sessions' \in [Sids -> Session]
    BY <1>1, NothingTypes DEF IInv, TypeOK, Session
  <1>7. SessionsEnd
    <2>1. \A r \in HeldSids \ {NoSid} : r \in Sids
      BY DEF HeldSids, IInv, TypeOK, Tab, Cookies
    <2> QED BY <1>1, <1>2, <2>1 DEF SessionsEnd
  <1>8. ApprovedGrows /\ StoredConsentsOK'
    BY DEF StoreSession, ApprovedGrows, StoredConsentsOK, IInv
  <1>9. TabOK(tab)'
    BY <1>5 DEF TabOK
  <1>10. /\ consents' \in [Users -> Consent] /\ expiries' \in 0..MaxExpiries
         /\ approved' \in [Users -> SUBSET Scopes]
    BY DEF StoreSession, IInv, TypeOK
  <1>11. tabs' = [tabs EXCEPT ![t] = tab]
    BY <1>1, <1>5
  <1> QED BY <1>3, <1>5, <1>6, <1>7, <1>8, <1>9, <1>10, <1>11, StepOK

LEMMA SelectTenantKeeps ==
  ASSUME IInv, NEW t \in Tabs, SelectTenant(t)
  PROVE  IInv'
  <1>1. tabs[t].user \in Users
    BY TabsTyped DEF SelectTenant, At, TabOK
  <1>2. PICK tenant \in TenantsOf[tabs[t].user] : StoreSession(t, tabs[t].user, tenant)
    BY DEF SelectTenant
  <1>3. tenant \in Tenants
    BY <1>1, <1>2, FlowConstants
  <1> QED BY <1>1, <1>2, <1>3, StoreSessionKeeps

\* What both forms of a logout do to the other tabs.
LEMMA InvalidatedKeeps ==
  ASSUME IInv, NEW t \in Tabs, NEW tab \in Tab, tabs' = [tabs EXCEPT ![t] = tab],
         LogoutAllowed(t), sessions' = Invalidated, jar' \in Cookies, TabOK(tab)',
         UNCHANGED <<consents, approved, expiries>>
  PROVE  IInv'
  <1>1. jar.sid \in Sids
    BY TabsTyped DEF LogoutAllowed, Cookies
  <1>2. sessions' \in [Sids -> Session]
    BY <1>1, NothingTypes DEF Invalidated, IInv, TypeOK
  <1>3. SessionsEnd
    <2>1. \A r \in HeldSids \ {NoSid} : r \in Sids
      BY DEF HeldSids, IInv, TypeOK, Tab, Cookies
    <2> QED BY <1>1, <2>1 DEF SessionsEnd, Invalidated, IInv, TypeOK
  <1>4. ApprovedGrows /\ StoredConsentsOK'
    BY DEF ApprovedGrows, StoredConsentsOK, IInv
  <1>5. /\ consents' \in [Users -> Consent] /\ expiries' \in 0..MaxExpiries
        /\ approved' \in [Users -> SUBSET Scopes]
    BY DEF IInv, TypeOK
  <1> QED BY <1>2, <1>3, <1>4, <1>5, StepOK

LEMMA LogoutKeeps ==
  ASSUME IInv, NEW t \in Tabs, Logout(t)
  PROVE  IInv'
  <1> DEFINE left == Leaving(tabs[t], "from_logout", jar')
             new == [left EXCEPT !.present = NoUser]
  <1>1. jar' \in Cookies /\ jar'.sid = NoSid
    BY TabsTyped DEF Logout, Cookies
  <1>2. /\ left \in Tab /\ left.at = "authorize" /\ left.sent = jar'
    BY <1>1, TabsTyped, LeavingType DEF Flags
  <1>3. PICK tab \in Tab : tab = new /\ tab.at = "authorize" /\ tab.sent.sid = NoSid
    <2>1. new \in Tab /\ new.at = "authorize" /\ new.sent.sid = NoSid
      BY <1>1, <1>2 DEF Tab
    <2> QED BY <2>1
  <1>4. TabOK(tab)'
    BY <1>3 DEF TabOK, Acceptable, SessionValid
  <1>5. tabs' = [tabs EXCEPT ![t] = tab]
    BY <1>3 DEF Logout
  <1> QED BY <1>1, <1>3, <1>4, <1>5, InvalidatedKeeps DEF Logout

LEMMA LogoutUnansweredKeeps ==
  ASSUME IInv, NEW t \in Tabs, LogoutUnanswered(t)
  PROVE  IInv'
  <1> DEFINE new == [tabs[t] EXCEPT !.at = "error", !.present = NoUser]
  <1>1. PICK tab \in Tab : tab = new /\ tab.at = "error"
    <2>1. new \in Tab /\ new.at = "error"
      BY TabsTyped DEF Tab, Places, Views
    <2> QED BY <2>1
  <1>2. tabs' = [tabs EXCEPT ![t] = tab]
    BY <1>1 DEF LogoutUnanswered
  <1>3. TabOK(tab)'
    BY <1>1, RestfulOK DEF Restful
  <1> QED BY <1>1, <1>2, <1>3, TabsTyped, InvalidatedKeeps DEF LogoutUnanswered

\* A stale row still holds only what was granted, and so does what is saved.
LEMMA SaveGrows ==
  ASSUME IInv, NEW t \in Tabs, Save(t)
  PROVE  /\ consents' \in [Users -> Consent] /\ approved' \in [Users -> SUBSET Scopes]
         /\ ApprovedGrows /\ StoredConsentsOK'
  <1> DEFINE u == tabs[t].user
             scope == tabs[t].params.scope
             row == tabs[t].read
  <1>1. u \in Users /\ row.scopes \subseteq approved[u]
    BY TabsTyped DEF Save, At, TabOK
  <1>2. row \in Consent /\ scope \in SUBSET Scopes
    BY TabsTyped DEF Tab, Params
  <1>3. Union(row, scope) \in Consent /\ Union(row, scope).scopes = row.scopes \cup scope
    BY <1>2 DEF Union, Consent
  <1>4. /\ consents' = [consents EXCEPT ![u] = Union(row, scope)]
        /\ approved' = [approved EXCEPT ![u] = @ \cup scope]
    BY DEF Save
  <1>5. approved' \in [Users -> SUBSET Scopes]
    BY <1>1, <1>2, <1>4 DEF IInv, TypeOK
  <1>6. ApprovedGrows
    BY <1>1, <1>4 DEF ApprovedGrows, IInv, TypeOK
  <1>7. StoredConsentsOK'
    <2>1. approved'[u] = approved[u] \cup scope /\ consents'[u].scopes = row.scopes \cup scope
      BY <1>1, <1>3, <1>4 DEF IInv, TypeOK
    <2>2. \A v \in Users : v # u => approved'[v] = approved[v] /\ consents'[v] = consents[v]
      BY <1>1, <1>4 DEF IInv, TypeOK
    <2> QED BY <1>1, <2>1, <2>2 DEF StoredConsentsOK, IInv
  <1>8. consents' \in [Users -> Consent]
    BY <1>1, <1>3, <1>4 DEF IInv, TypeOK
  <1> QED BY <1>5, <1>6, <1>7, <1>8

LEMMA SavedKeeps ==
  ASSUME IInv, NEW t \in Tabs, Save(t), NEW tab \in Tab,
         tabs' = [tabs EXCEPT ![t] = tab], TabOK(tab)'
  PROVE  IInv'
  <1>1. SessionsEnd /\ sessions' \in [Sids -> Session] /\ expiries' \in 0..MaxExpiries
    BY DEF Save, SessionsEnd, IInv, TypeOK
  <1>2. jar' \in Cookies
    BY TabsTyped DEF Save
  <1> QED BY <1>1, <1>2, SaveGrows, StepOK

LEMMA SaveConsentKeeps ==
  ASSUME IInv, NEW t \in Tabs, SaveConsent(t)
  PROVE  IInv'
  <1>1. PICK tab \in Tab : tab = Leaving(tabs[t], "none", jar) /\ TabOK(tab)
    BY TabsTyped, LeavingType, LeavingOK DEF Flags
  <1>2. tab.at = "authorize"
    BY <1>1, TabsTyped, LeavingType DEF Flags
  <1>3. TabOK(tab)'
    BY <1>1, <1>2 DEF TabOK, Acceptable, SessionValid, SaveConsent, Save
  <1> QED BY <1>1, <1>3, SavedKeeps DEF SaveConsent, Navigate

LEMMA BackToConsentType ==
  ASSUME IInv, NEW t \in Tabs, BackToConsent(t)
  PROVE  \E tab \in Tab : tab.at = "consent" /\ tabs' = [tabs EXCEPT ![t] = tab]
  <1> DEFINE tab == [tabs[t] EXCEPT !.at = "consent", !.user = NoUser, !.read = NoConsent]
  <1>1. tab \in Tab /\ tab.at = "consent"
    BY TabsTyped, NothingTypes DEF Tab, Places, Views
  <1>2. tabs' = [tabs EXCEPT ![t] = tab]
    BY DEF BackToConsent
  <1> QED BY <1>1, <1>2

LEMMA SaveUnansweredKeeps ==
  ASSUME IInv, NEW t \in Tabs, SaveUnanswered(t)
  PROVE  IInv'
  BY BackToConsentType, RestfulOK, SavedKeeps DEF SaveUnanswered, Restful

LEMMA SaveRefusedKeeps ==
  ASSUME IInv, NEW t \in Tabs, SaveRefused(t)
  PROVE  IInv'
  BY BackToConsentType, TabsTyped, RestfulStep DEF SaveRefused, Restful

-----------------------------------------------------------------------------
\* The server.

LEMMA ReturnKeeps ==
  ASSUME IInv, NEW t \in Tabs, NEW tab \in Tab, TabOK(tab), Return(t, tab)
  PROVE  IInv'
  <1>1. jar' \in Cookies
    BY TabsTyped DEF Return, Cookies
  <1> QED BY <1>1, QuietStep DEF Return

LEMMA ReturnErrorKeeps ==
  ASSUME IInv, NEW t \in Tabs, ReturnError(t)
  PROVE  IInv'
  BY ClosedType, RestfulOK, ReturnKeeps DEF ReturnError, Restful

LEMMA FailKeeps ==
  ASSUME IInv, NEW t \in Tabs, Fail(t)
  PROVE  IInv'
  <1> DEFINE tab == [Closed EXCEPT !.at = "deadend"]
  <1>1. tab \in Tab /\ tab.at = "deadend"
    BY ClosedType DEF Tab, Places
  <1>2. ASSUME Return(t, tab)
        PROVE  IInv'
    BY <1>1, <1>2, RestfulOK, ReturnKeeps DEF Restful
  <1> QED BY <1>2, ReturnErrorKeeps DEF Fail

LEMMA ShowViewKeeps ==
  ASSUME IInv, NEW t \in Tabs, NEW view \in {"login", "consent", "confirm"},
         ShowView(t, view)
  PROVE  IInv'
  <1>1. PICK f \in FlowsFor(tabs[t].sent) :
          /\ jar' = [jar EXCEPT !.flow = IF tabs[t].sent.flow # NoFlow THEN @ ELSE f]
          /\ tabs' = [tabs EXCEPT ![t] = Showing(tabs[t], view, f)]
    BY DEF ShowView
  <1>2. f \in FlowIds
    BY TabsTyped, FreshTypes DEF FlowsFor, Tab, Cookies
  <1>3. Forwarded(tabs[t].params, view) \in Params
    BY TabsTyped, ForwardedType DEF Tab, Views
  <1>4. Showing(tabs[t], view, f) \in Tab /\ Showing(tabs[t], view, f).at \in Restful
    <2>1. PICK tab \in Tab, params \in Params :
            tab = tabs[t] /\ params = Forwarded(tabs[t].params, view)
      BY <1>3, TabsTyped
    <2>2. PICK at, csrf : /\ at = IF tab.params.prompt = "none" THEN "deadend" ELSE view
                          /\ csrf = IF tab.params.prompt = "none" THEN NoFlow ELSE f
      OBVIOUS
    <2>3. at \in {"login", "consent", "confirm", "deadend"} /\ csrf \in FlowIds \cup {NoFlow}
      BY <1>2, <2>2
    <2> DEFINE shown == [tab EXCEPT !.at = at, !.csrf = csrf, !.params = params,
                                    !.sent = NoCookies, !.flag = "none", !.user = NoUser]
    <2>4. at \in Places /\ NoCookies \in Cookies /\ "none" \in Flags
      BY <2>3, NothingTypes DEF Places, Views, Flags
    <2>5. shown \in Tab /\ shown.at = at
      BY <2>3, <2>4 DEF Tab
    <2>6. Showing(tabs[t], view, f) = shown
      BY <2>1, <2>2 DEF Showing
    <2> QED BY <2>3, <2>5, <2>6 DEF Restful
  <1>5. jar' \in Cookies
    BY <1>1, <1>2, TabsTyped DEF Cookies
  <1> QED BY <1>1, <1>4, <1>5, RestfulStep DEF ShowView

LEMMA FindSessionKeeps ==
  ASSUME IInv, NEW t \in Tabs, FindSession(t)
  PROVE  IInv'
  <1> DEFINE s == tabs[t].sent.sid
             tab == [tabs[t] EXCEPT !.at = "checkConsent", !.user = sessions[s].user]
  <1>1. Acceptable(s, tabs[t].params) /\ SessionValid(s) /\ s \in Sids
    BY TabsTyped DEF FindSession, ResolveSession, Acceptable, SessionValid, Tab, Cookies
  <1>2. sessions[s].user \in Users
    BY <1>1 DEF SessionValid, IInv, TypeOK, Session
  <1>3. ~tabs[t].stale
    BY <1>1, TabsTyped DEF FindSession, LooksUp, At, TabOK
  <1>4. /\ tab \in Tab /\ tab.at = "checkConsent" /\ tab.user \in Users
        /\ tab.stale = tabs[t].stale
    BY <1>2, TabsTyped DEF Tab, Places, Handlers
  <1>5. TabOK(tab)
    BY <1>3, <1>4 DEF TabOK
  <1>6. tabs' = [tabs EXCEPT ![t] = tab]
    BY DEF FindSession
  <1> QED BY <1>4, <1>5, <1>6, TabsTyped, QuietStep DEF FindSession

LEMMA IssueCodeKeeps ==
  ASSUME IInv, NEW t \in Tabs, IssueCode(t)
  PROVE  IInv'
  <1> DEFINE tab == [tabs[t] EXCEPT !.at = "code", !.sent = NoCookies, !.flag = "none"]
  <1>1. tabs[t].user \in Users /\ ~tabs[t].stale
    BY TabsTyped DEF IssueCode, At, TabOK
  <1>2. tabs[t].params.external => tabs[t].params.scope \subseteq approved[tabs[t].user]
    BY <1>1 DEF IssueCode, ConsentGranted, Consented, IInv, StoredConsentsOK
  <1>3. /\ tab \in Tab /\ tab.at = "code" /\ tab.user = tabs[t].user
        /\ tab.stale = tabs[t].stale /\ tab.params = tabs[t].params
    BY TabsTyped, NothingTypes DEF Tab, Places, Flags
  <1>4. TabOK(tab)
    BY <1>1, <1>2, <1>3 DEF TabOK
  <1> QED BY <1>3, <1>4, ReturnKeeps DEF IssueCode

LEMMA ServerKeeps ==
  ASSUME IInv, NEW t \in Tabs, Server(t)
  PROVE  IInv'
  <1>1. CASE AccessDenied(t)
    BY <1>1, ReturnErrorKeeps DEF AccessDenied
  <1>2. CASE ForceLogin(t)
    BY <1>2, ShowViewKeeps DEF ForceLogin
  <1>3. CASE RejectPrompt(t)
    BY <1>3, ReturnErrorKeeps DEF RejectPrompt
  <1>4. CASE LoginRequired(t)
    BY <1>4, ReturnErrorKeeps, ShowViewKeeps DEF LoginRequired
  <1>5. CASE FindSession(t)
    BY <1>5, FindSessionKeeps
  <1>6. CASE AskConsent(t)
    BY <1>6, ShowViewKeeps DEF AskConsent
  <1>7. CASE AskConfirm(t)
    BY <1>7, ShowViewKeeps DEF AskConfirm
  <1>8. CASE IssueCode(t)
    BY <1>8, IssueCodeKeeps
  <1> QED BY <1>1, <1>2, <1>3, <1>4, <1>5, <1>6, <1>7, <1>8 DEF Server

-----------------------------------------------------------------------------
\* Time.

LEMMA ExpireFlowKeeps ==
  ASSUME IInv, ExpireFlow
  PROVE  IInv'
  <1>1. jar' \in Cookies
    BY DEF ExpireFlow, IInv, TypeOK, Cookies
  <1>2. expiries' \in 0..MaxExpiries
    BY FlowConstants DEF ExpireFlow, Expire, IInv, TypeOK
  <1>3. ApprovedGrows /\ SessionsEnd /\ StoredConsentsOK'
    BY DEF ExpireFlow, ApprovedGrows, SessionsEnd, StoredConsentsOK, IInv
  <1>4. \A r \in Tabs : TabOK(tabs[r])'
    BY <1>3, OthersOK DEF ExpireFlow
  <1> QED BY <1>1, <1>2, <1>3, <1>4 DEF ExpireFlow, IInv, TypeOK

LEMMA ExpireSessionKeeps ==
  ASSUME IInv, NEW s \in Sids, ExpireSession(s)
  PROVE  IInv'
  <1>1. \/ sessions' = [sessions EXCEPT ![s] = NoSession]
        \/ sessions' = [sessions EXCEPT ![s].recent = FALSE]
    BY DEF ExpireSession
  <1>2. sessions' \in [Sids -> Session]
    BY <1>1, NothingTypes DEF IInv, TypeOK, Session
  <1>3. SessionsEnd
    <2>1. \A r \in HeldSids \ {NoSid} : r \in Sids
      BY DEF HeldSids, IInv, TypeOK, Tab, Cookies
    <2> QED BY <1>1, <2>1 DEF SessionsEnd, IInv, TypeOK
  <1>4. expiries' \in 0..MaxExpiries
    BY FlowConstants DEF ExpireSession, Expire, IInv, TypeOK
  <1>5. ApprovedGrows /\ StoredConsentsOK'
    BY DEF ExpireSession, ApprovedGrows, StoredConsentsOK, IInv
  <1>6. \A r \in Tabs : TabOK(tabs[r])'
    BY <1>3, <1>5, OthersOK DEF ExpireSession
  <1> QED BY <1>2, <1>4, <1>5, <1>6 DEF ExpireSession, IInv, TypeOK

-----------------------------------------------------------------------------
LEMMA UserKeeps ==
  ASSUME IInv, NEW t \in Tabs, User(t)
  PROVE  IInv'
  <1>1. CASE Open(t)
    BY <1>1, OpenKeeps
  <1>2. CASE Abandon(t)
    BY <1>2, AbandonKeeps
  <1>3. CASE StartOver(t)
    BY <1>3, StartOverKeeps
  <1>4. CASE EnterCredentials(t)
    <2>1. ASSUME NEW u \in Users, LogIn(t, u)
          PROVE  IInv'
      BY <2>1, StoreSessionKeeps DEF LogIn
    <2> QED BY <1>4, <2>1, AskTenantKeeps DEF EnterCredentials
  <1>5. CASE SelectTenant(t)
    BY <1>5, SelectTenantKeeps
  <1>6. CASE Continue(t)
    BY <1>6, ContinueKeeps
  <1>7. CASE SignOff(t)
    BY <1>7, LogoutKeeps, LogoutUnansweredKeeps, ShowErrorKeeps DEF SignOff, RefuseLogout
  <1>8. CASE Decide(t)
    BY <1>8, GrantKeeps, DenyKeeps, ShowErrorKeeps DEF Decide, RefuseConsent
  <1> QED BY <1>1, <1>2, <1>3, <1>4, <1>5, <1>6, <1>7, <1>8 DEF User

LEMMA InitOK == Init => IInv
  <1> SUFFICES ASSUME Init PROVE IInv
    OBVIOUS
  <1>1. TypeOK
    BY NothingTypes, ClosedType, FlowConstants DEF Init, TypeOK
  <1>2. StoredConsentsOK
    BY DEF Init, StoredConsentsOK, NoConsent
  <1>3. \A t \in Tabs : TabOK(tabs[t])
    BY ClosedType, RestfulOK DEF Init, Restful
  <1> QED BY <1>1, <1>2, <1>3 DEF IInv

LEMMA StepKeeps == IInv /\ [Next]_vars => IInv'
  <1> SUFFICES ASSUME IInv, [Next]_vars PROVE IInv'
    OBVIOUS
  <1>1. CASE UNCHANGED vars
    BY <1>1 DEF vars, IInv, TypeOK, StoredConsentsOK, TabOK, Acceptable, SessionValid
  <1>2. ASSUME NEW t \in Tabs, Timeout(t)
        PROVE  IInv'
    BY <1>2, ShowErrorKeeps DEF Timeout
  <1>3. ASSUME NEW t \in Tabs, AnswerConsent(t)
        PROVE  IInv'
    BY <1>3, SaveConsentKeeps, SaveRefusedKeeps DEF AnswerConsent
  <1> QED BY <1>1, <1>2, <1>3, UserKeeps, ServerKeeps, FailKeeps, SessionInfoKeeps,
             SaveUnansweredKeeps, ExpireFlowKeeps, ExpireSessionKeeps DEF Next

\* What the properties rest on holds in every state the browser and the server
\* reach.
THEOREM FlowInvariant == Spec => []IInv
  BY InitOK, StepKeeps, PTL DEF Spec

-----------------------------------------------------------------------------
(* Who is present, when the browser has one tab.  (Another tab may log in as *)
(* somebody else between the address that a view shows and Continue.)        *)

\* What a view shows is whose session the cookie names, unless that is over, and
\* what was confirmed is whose session the request names.
PresentOK(tab) ==
    /\ tab.at \in {"authorize", "checkConsent"} => tab.shown = NoUser
    /\ tab.at \in {"consent", "confirm", "saveConsent"} /\ tab.shown # NoUser =>
          (SessionValid(jar.sid) => sessions[jar.sid].user = tab.shown)
    /\ tab.at = "authorize" /\ tab.flag = "session_confirmed" =>
          (SessionValid(tab.sent.sid) => sessions[tab.sent.sid].user = tab.present)
    /\ tab.at = "checkConsent" /\ tab.flag = "session_confirmed" => tab.user = tab.present
    /\ tab.at = "code" /\ ~tab.params.skipConfirm => tab.user = tab.present

LEMMA PresentElsewhere ==
  ASSUME NEW t \in Tabs, NEW q, tabs'[t] = q,
         q.at \in {"client", "login", "tenants", "error", "deadend"}
  PROVE  PresentOK(tabs[t])'
  BY DEF PresentOK

LEMMA PresentUnconfirmed ==
  ASSUME NEW t \in Tabs, NEW q, tabs'[t] = q,
         q.at = "authorize", q.shown = NoUser, q.flag # "session_confirmed"
  PROVE  PresentOK(tabs[t])'
  BY DEF PresentOK

\* The session that the cookie names does not become another user's.
LEMMA PresentSeen ==
  ASSUME IInv, NEW t \in Tabs, PresentOK(tabs[t]), NEW q \in Tab, tabs'[t] = q,
         q.at \in {"consent", "confirm", "saveConsent"}, q.shown = tabs[t].shown,
         tabs[t].at \in {"consent", "confirm", "saveConsent"},
         jar'.sid = jar.sid, UNCHANGED sessions
  PROVE  PresentOK(tabs[t])'
  BY DEF PresentOK, SessionValid

LEMMA LeavingKnows ==
  ASSUME NEW tab \in Tab, NEW flag \in Flags, NEW cookies \in Cookies
  PROVE  /\ Leaving(tab, flag, cookies).shown = NoUser
         /\ Leaving(tab, flag, cookies).flag = flag
  <1> DEFINE old == ~Acceptable(cookies.sid, tab.params)
  <1> HIDE DEF old
  <1>1. [tab EXCEPT !.at = "authorize", !.flag = flag, !.sent = cookies, !.csrf = NoFlow,
                    !.user = NoUser, !.shown = NoUser, !.read = NoConsent,
                    !.stale = old] = Leaving(tab, flag, cookies)
    BY Zenon DEF Leaving, old
  <1> DEFINE left == [tab EXCEPT !.at = "authorize", !.flag = flag, !.sent = cookies,
                                 !.csrf = NoFlow, !.user = NoUser, !.shown = NoUser,
                                 !.read = NoConsent, !.stale = old]
  <1>2. left.shown = NoUser /\ left.flag = flag
    BY DEF Tab
  <1> QED BY <1>1, <1>2, Zenon

\* The tab goes to GET /authorize without the flag.
LEMMA LeavingPresent ==
  ASSUME IInv, NEW t \in Tabs, NEW tab \in Tab, NEW flag \in Flags \ {"session_confirmed"},
         tabs' = [tabs EXCEPT ![t] = Leaving(tab, flag, jar)]
  PROVE  PresentOK(tabs[t])'
  <1>1. tabs'[t] = Leaving(tab, flag, jar)
    BY DEF IInv, TypeOK
  <1>2. PICK q : q = Leaving(tab, flag, jar)
    OBVIOUS
  <1>3. q.at = "authorize" /\ q.shown = NoUser /\ q.flag = flag
    BY <1>2, TabsTyped, LeavingType, LeavingKnows
  <1> QED BY <1>1, <1>2, <1>3, PresentUnconfirmed

LEMMA ErrorPresent ==
  ASSUME IInv, NEW t \in Tabs, ShowError(t)
  PROVE  PresentOK(tabs[t])'
  <1>1. PICK q : q = [tabs[t] EXCEPT !.at = "error"]
    OBVIOUS
  <1>2. q.at = "error" /\ tabs'[t] = q
    BY <1>1, TabsTyped DEF ShowError, Tab, IInv, TypeOK
  <1> QED BY <1>2, PresentElsewhere

LEMMA SessionInfoPresent ==
  ASSUME IInv, NEW t \in Tabs, SessionInfo(t), PresentOK(tabs[t])
  PROVE  PresentOK(tabs[t])'
  <1>1. CASE ~SessionValid(jar.sid)
    BY <1>1, ErrorPresent DEF SessionInfo
  <1>2. CASE SessionValid(jar.sid)
    <2>1. PICK q : q = [tabs[t] EXCEPT !.shown = sessions[jar.sid].user]
      OBVIOUS
    <2>2. /\ tabs'[t] = q /\ q.at \in {"consent", "confirm"}
          /\ q.shown = sessions[jar.sid].user
      BY <1>2, <2>1, TabsTyped DEF SessionInfo, Tab, IInv, TypeOK
    <2> QED BY <2>2 DEF SessionInfo, PresentOK, SessionValid
  <1> QED BY <1>1, <1>2

LEMMA StoreSessionPresent ==
  ASSUME IInv, NEW t \in Tabs, NEW u \in Users, NEW tenant \in Tenants \cup {NoTenant},
         StoreSession(t, u, tenant)
  PROVE  PresentOK(tabs[t])'
  <1>1. PICK s \in FreshSid :
          /\ sessions' = [r \in Sids |->
                 IF r = s THEN [user |-> u, recent |-> TRUE]
                 ELSE IF r \in HeldSids THEN sessions[r] ELSE NoSession]
          /\ jar' = [jar EXCEPT !.sid = s]
          /\ tabs' = [tabs EXCEPT ![t] =
                 [Leaving(tabs[t], "session_confirmed", jar')
                     EXCEPT !.present = u, !.chosen = tenant, !.stale = FALSE]]
    BY DEF StoreSession
  <1>2. s \in Sids
    BY FreshTypes
  <1>3. PICK cookies \in Cookies : cookies = jar' /\ cookies.sid = s
    <2>1. jar' \in Cookies /\ jar'.sid = s
      BY <1>1, <1>2, TabsTyped DEF Cookies
    <2> QED BY <2>1
  <1>4. PICK left \in Tab : /\ left = Leaving(tabs[t], "session_confirmed", jar')
                            /\ left.at = "authorize" /\ left.sent = cookies
                            /\ left.shown = NoUser
    BY <1>3, TabsTyped, LeavingType, LeavingKnows DEF Flags
  <1>5. PICK q : q = [left EXCEPT !.present = u, !.chosen = tenant, !.stale = FALSE]
    OBVIOUS
  <1>6. /\ tabs'[t] = q /\ q.at = "authorize" /\ q.shown = NoUser /\ q.sent.sid = s
        /\ q.present = u
    BY <1>1, <1>3, <1>4, <1>5 DEF Tab, IInv, TypeOK
  <1>7. sessions'[s].user = u
    BY <1>1, <1>2
  <1> QED BY <1>6, <1>7 DEF PresentOK

LEMMA ContinuePresent ==
  ASSUME IInv, NEW t \in Tabs, Continue(t), PresentOK(tabs[t])
  PROVE  PresentOK(tabs[t])'
  <1>1. PICK left \in Tab : /\ left = Leaving(tabs[t], "session_confirmed", jar)
                            /\ left.at = "authorize" /\ left.sent = jar
                            /\ left.shown = NoUser
    BY TabsTyped, LeavingType, LeavingKnows DEF Flags
  <1>2. PICK q : q = [left EXCEPT !.present = tabs[t].shown]
    OBVIOUS
  <1>3. /\ tabs'[t] = q /\ q.at = "authorize" /\ q.shown = NoUser /\ q.sent = jar
        /\ q.present = tabs[t].shown
    BY <1>1, <1>2 DEF Continue, Tab, IInv, TypeOK
  <1>4. SessionValid(jar.sid) => sessions[jar.sid].user = tabs[t].shown
    BY DEF Continue, At, PresentOK
  <1> QED BY <1>3, <1>4 DEF Continue, PresentOK, SessionValid

LEMMA SignOffPresent ==
  ASSUME IInv, NEW t \in Tabs, SignOff(t)
  PROVE  PresentOK(tabs[t])'
  <1>1. CASE Logout(t)
    <2>1. PICK cookies \in Cookies : cookies = jar'
      <3>1. jar' \in Cookies
        BY <1>1, TabsTyped DEF Logout, Cookies
      <3> QED BY <3>1
    <2>2. PICK left \in Tab : /\ left = Leaving(tabs[t], "from_logout", jar')
                              /\ left.at = "authorize" /\ left.shown = NoUser
                              /\ left.flag = "from_logout"
      BY <2>1, TabsTyped, LeavingType, LeavingKnows DEF Flags
    <2>3. PICK q : q = [left EXCEPT !.present = NoUser]
      OBVIOUS
    <2>4. /\ tabs'[t] = q /\ q.at = "authorize" /\ q.shown = NoUser
          /\ q.flag = "from_logout"
      BY <1>1, <2>2, <2>3 DEF Logout, Tab, IInv, TypeOK
    <2> QED BY <2>4, PresentUnconfirmed
  <1>2. CASE LogoutUnanswered(t)
    <2>1. PICK q : q = [tabs[t] EXCEPT !.at = "error", !.present = NoUser]
      OBVIOUS
    <2>2. tabs'[t] = q /\ q.at = "error"
      BY <1>2, <2>1, TabsTyped DEF LogoutUnanswered, Tab, IInv, TypeOK
    <2> QED BY <2>2, PresentElsewhere
  <1>3. CASE RefuseLogout(t)
    BY <1>3, ErrorPresent DEF RefuseLogout
  <1> QED BY <1>1, <1>2, <1>3 DEF SignOff

LEMMA DecidePresent ==
  ASSUME IInv, NEW t \in Tabs, Decide(t), PresentOK(tabs[t])
  PROVE  PresentOK(tabs[t])'
  <1>1. CASE Grant(t)
    <2>1. PICK q : q = [tabs[t] EXCEPT !.at = "saveConsent", !.user = sessions[jar.sid].user,
                                       !.read = consents[sessions[jar.sid].user]]
      OBVIOUS
    <2>2. tabs'[t] = q /\ q \in Tab
      <3>1. tabs'[t] = q
        BY <1>1, <2>1 DEF Grant, IInv, TypeOK
      <3> QED BY <1>1, <3>1, GrantKeeps DEF IInv, TypeOK
    <2>3. q.at = "saveConsent" /\ q.shown = tabs[t].shown
      BY <2>1, TabsTyped DEF Tab
    <2> QED BY <1>1, <2>2, <2>3, PresentSeen DEF Grant, Decides, At
  <1>2. CASE Deny(t)
    BY <1>2, TabsTyped, LeavingPresent DEF Deny, Navigate, Flags
  <1>3. CASE RefuseConsent(t)
    BY <1>3, ErrorPresent DEF RefuseConsent
  <1> QED BY <1>1, <1>2, <1>3 DEF Decide

LEMMA BackPresent ==
  ASSUME IInv, NEW t \in Tabs, BackToConsent(t), At(t, "saveConsent"), PresentOK(tabs[t]),
         jar' = jar, UNCHANGED sessions
  PROVE  PresentOK(tabs[t])'
  <1>1. PICK q : q = [tabs[t] EXCEPT !.at = "consent", !.user = NoUser, !.read = NoConsent]
    OBVIOUS
  <1>2. tabs'[t] = q
    BY <1>1 DEF BackToConsent, IInv, TypeOK
  <1>3. q \in Tab /\ q.at = "consent" /\ q.shown = tabs[t].shown
    BY <1>1, TabsTyped, NothingTypes DEF Tab, Places, Views
  <1> QED BY <1>2, <1>3, PresentSeen DEF At

LEMMA UserPresent ==
  ASSUME IInv, NEW t \in Tabs, User(t), PresentOK(tabs[t])
  PROVE  PresentOK(tabs[t])'
  <1>1. CASE Open(t)
    <2>1. PICK p \in Requested : tabs' = [tabs EXCEPT ![t] = Leaving(Fresh(p), "none", jar)]
      BY <1>1 DEF Open
    <2>2. PICK tab \in Tab : tab = Fresh(p)
      BY FreshType
    <2> QED BY <2>1, <2>2, LeavingPresent DEF Flags
  <1>2. CASE Abandon(t)
    BY <1>2, ClosedType, PresentElsewhere DEF Abandon, IInv, TypeOK
  <1>3. CASE StartOver(t)
    BY <1>3, TabsTyped, LeavingPresent DEF StartOver, Navigate, Flags
  <1>4. CASE EnterCredentials(t)
    <2>1. ASSUME NEW u \in Users, LogIn(t, u) PROVE PresentOK(tabs[t])'
      BY <2>1, StoreSessionPresent DEF LogIn
    <2>2. ASSUME NEW u \in Users, AskTenant(t, u) PROVE PresentOK(tabs[t])'
      <3>1. PICK q : q = [tabs[t] EXCEPT !.at = "tenants", !.user = u]
        OBVIOUS
      <3>2. tabs'[t] = q /\ q.at = "tenants"
        BY <2>2, <3>1, TabsTyped DEF AskTenant, Tab, IInv, TypeOK
      <3> QED BY <3>2, PresentElsewhere
    <2> QED BY <1>4, <2>1, <2>2 DEF EnterCredentials
  <1>5. CASE SelectTenant(t)
    <2>1. tabs[t].user \in Users
      BY <1>5, TabsTyped DEF SelectTenant, At, TabOK
    <2>2. TenantsOf[tabs[t].user] \subseteq Tenants
      BY <2>1, FlowConstants
    <2> QED BY <1>5, <2>1, <2>2, StoreSessionPresent DEF SelectTenant
  <1>6. CASE Continue(t)
    BY <1>6, ContinuePresent
  <1>7. CASE SignOff(t)
    BY <1>7, SignOffPresent
  <1>8. CASE Decide(t)
    BY <1>8, DecidePresent
  <1> QED BY <1>1, <1>2, <1>3, <1>4, <1>5, <1>6, <1>7, <1>8 DEF User

LEMMA ShowViewPresent ==
  ASSUME IInv, NEW t \in Tabs, NEW view \in {"login", "consent", "confirm"},
         ShowView(t, view), tabs[t].shown = NoUser
  PROVE  PresentOK(tabs[t])'
  <1>1. PICK f \in FlowsFor(tabs[t].sent) : tabs' = [tabs EXCEPT ![t] = Showing(tabs[t], view, f)]
    BY DEF ShowView
  <1>2. PICK q : q = Showing(tabs[t], view, f)
    OBVIOUS
  <1>3. /\ tabs'[t] = q /\ q.at \in {"deadend", "login", "consent", "confirm"}
        /\ q.shown = NoUser
    BY <1>1, <1>2, TabsTyped DEF Showing, Tab, IInv, TypeOK
  <1> QED BY <1>3 DEF PresentOK

LEMMA ReturnErrorPresent ==
  ASSUME IInv, NEW t \in Tabs, ReturnError(t)
  PROVE  PresentOK(tabs[t])'
  BY ClosedType, PresentElsewhere DEF ReturnError, Return, IInv, TypeOK

LEMMA FailPresent ==
  ASSUME IInv, NEW t \in Tabs, Fail(t)
  PROVE  PresentOK(tabs[t])'
  <1>1. CASE Return(t, [Closed EXCEPT !.at = "deadend"])
    <2>1. PICK q : q = [Closed EXCEPT !.at = "deadend"]
      OBVIOUS
    <2>2. tabs'[t] = q /\ q.at = "deadend"
      BY <1>1, <2>1, ClosedType DEF Return, Tab, IInv, TypeOK
    <2> QED BY <2>2, PresentElsewhere
  <1> QED BY <1>1, ReturnErrorPresent DEF Fail

LEMMA FindSessionPresent ==
  ASSUME IInv, NEW t \in Tabs, FindSession(t), PresentOK(tabs[t])
  PROVE  PresentOK(tabs[t])'
  <1> DEFINE s == tabs[t].sent.sid
  <1>1. SessionValid(s)
    BY DEF FindSession, ResolveSession, Acceptable
  <1>2. /\ tabs[t].shown = NoUser
        /\ tabs[t].flag = "session_confirmed" => sessions[s].user = tabs[t].present
    BY <1>1 DEF FindSession, LooksUp, At, PresentOK
  <1>3. PICK q : q = [tabs[t] EXCEPT !.at = "checkConsent", !.user = sessions[s].user]
    OBVIOUS
  <1>4. /\ tabs'[t] = q /\ q.at = "checkConsent" /\ q.user = sessions[s].user
        /\ q.shown = tabs[t].shown /\ q.flag = tabs[t].flag /\ q.present = tabs[t].present
    BY <1>3, TabsTyped DEF FindSession, Tab, IInv, TypeOK
  <1> QED BY <1>2, <1>4 DEF PresentOK

LEMMA IssueCodePresent ==
  ASSUME IInv, NEW t \in Tabs, IssueCode(t), PresentOK(tabs[t])
  PROVE  PresentOK(tabs[t])'
  <1>1. tabs[t].params.skipConfirm \/ tabs[t].user = tabs[t].present
    BY DEF IssueCode, At, Confirmed, PresentOK
  <1>2. PICK q : q = [tabs[t] EXCEPT !.at = "code", !.sent = NoCookies, !.flag = "none"]
    OBVIOUS
  <1>3. /\ tabs'[t] = q /\ q.at = "code" /\ q.user = tabs[t].user
        /\ q.present = tabs[t].present /\ q.params = tabs[t].params
    BY <1>2, TabsTyped DEF IssueCode, Return, Tab, IInv, TypeOK
  <1> QED BY <1>1, <1>3 DEF PresentOK

LEMMA ServerPresent ==
  ASSUME IInv, NEW t \in Tabs, Server(t), PresentOK(tabs[t])
  PROVE  PresentOK(tabs[t])'
  <1>1. tabs[t].at \in {"authorize", "checkConsent"}
    BY DEF Server, AccessDenied, ForceLogin, RejectPrompt, LoginRequired, FindSession, LooksUp,
           AskConsent, AskConfirm, IssueCode, At
  <1>2. tabs[t].shown = NoUser
    BY <1>1 DEF PresentOK
  <1> QED BY <1>2, ReturnErrorPresent, ShowViewPresent, FindSessionPresent, IssueCodePresent
          DEF Server, AccessDenied, ForceLogin, RejectPrompt, LoginRequired, AskConsent, AskConfirm

\* Time, and steps that do not concern the tab.
LEMMA TimePresent ==
  ASSUME IInv, NEW t \in Tabs, PresentOK(tabs[t]),
         ExpireFlow \/ (\E s \in Sids : ExpireSession(s)) \/ UNCHANGED vars
  PROVE  PresentOK(tabs[t])'
  <1>1. tabs' = tabs /\ jar'.sid = jar.sid
    BY TabsTyped DEF ExpireFlow, ExpireSession, vars, Cookies
  <1>2. \A r : SessionValid(r)' /\ r \in Sids => SessionValid(r) /\ sessions'[r].user = sessions[r].user
    BY DEF ExpireFlow, ExpireSession, vars, SessionValid, NoSession, IInv, TypeOK, Session
  <1>3. PICK q \in Tab : q = tabs[t]
    BY TabsTyped
  <1>4. PICK s \in Sids \cup {NoSid} : s = jar.sid
    BY TabsTyped DEF Cookies
  <1>5. q.sent.sid \in Sids \cup {NoSid}
    BY DEF Tab, Cookies
  <1> QED BY <1>1, <1>2, <1>3, <1>4, <1>5 DEF PresentOK, SessionValid

LEMMA StepPresent ==
  ASSUME NEW t \in Tabs, Tabs = {t}
  PROVE  IInv /\ PresentOK(tabs[t]) /\ [Next]_vars => PresentOK(tabs[t])'
  <1> SUFFICES ASSUME IInv, PresentOK(tabs[t]), [Next]_vars PROVE PresentOK(tabs[t])'
    OBVIOUS
  <1>1. CASE Timeout(t)
    BY <1>1, ErrorPresent DEF Timeout
  <1>2. CASE SaveConsent(t)
    BY <1>2, TabsTyped, LeavingPresent DEF SaveConsent, Navigate, Flags
  <1>3. CASE SaveRefused(t) \/ SaveUnanswered(t)
    BY <1>3, BackPresent DEF SaveRefused, SaveUnanswered, Save
  <1> QED BY <1>1, <1>2, <1>3, UserPresent, ServerPresent, FailPresent, SessionInfoPresent,
             TimePresent DEF Next, AnswerConsent

-----------------------------------------------------------------------------
\* The tables, the cookies and the tabs have their types (authorize, login,
\* consent, logout and the views of the UI).
THEOREM FlowTypeCorrect == Spec => []TypeOK
  <1>1. IInv => TypeOK
    BY DEF IInv
  <1> QED BY <1>1, FlowInvariant, PTL

\* However many tabs, users and grants overlap, and even when a stale save of
\* user_consents takes scopes back, a client outside the server gets a code only
\* for scopes whose grant by the code's user was stored.
THEOREM CodesAreConsented == Spec => []ConsentedCode
  <1>1. IInv => ConsentedCode
    BY DEF IInv, TabOK, ConsentedCode, HasCode, At
  <1> QED BY <1>1, FlowInvariant, PTL

\* No code rests on a session that was over, or too old for max_age, when the
\* last request of its conversation left the browser.
THEOREM NoCodeFromStaleSession == Spec => []NoStaleSession
  <1>1. IInv => NoStaleSession
    BY DEF IInv, TabOK, NoStaleSession, HasCode, At
  <1> QED BY <1>1, FlowInvariant, PTL

\* In a browser with one tab, for any number of users, sessions and requests, a
\* code that the tenant wants confirmed names the user who logged in or pressed
\* Continue last, even if sessions and cookies expire or requests fail meanwhile.
THEOREM CodesNameThePresent ==
  ASSUME NEW t \in Tabs, Tabs = {t}
  PROVE  Spec => []CodeForThePresent
  <1>1. Init => PresentOK(tabs[t])
    BY ClosedType DEF Init, PresentOK
  <1>2. IInv /\ PresentOK(tabs[t]) => CodeForThePresent
    BY DEF PresentOK, CodeForThePresent, HasCode, At
  <1> QED BY <1>1, <1>2, StepPresent, FlowInvariant, PTL DEF Spec

-----------------------------------------------------------------------------
(***************************************************************************)
(* AuthorizationCodes                                                      *)
(*                                                                         *)
(* A row belongs to the authorization that saved it last.  Each            *)
(* authorization saves once, before its code is given out, so an owner     *)
(* that was replaced never comes back: this is what makes the two reads of *)
(* a redemption speak of the same row.                                     *)
(***************************************************************************)
Spent(a) == \E r \in Redemptions : requests[r].claimed = a

KnownChallenge(row) == row.challenge # NoOne => auths[row.challenge].pc = "given"

Proves(row) == row.owner \in WithPkce => row.challenge = row.owner

\* The row still binds what its owner asked it to bind.
AsSaved(row) ==
    /\ row.client = ClientOf[row.owner]
    /\ row.challenge = RowOf(row.owner).challenge

AuthOK(a) ==
    /\ auths[a].pc # "exists" => auths[a].code \in Codes
    /\ auths[a].pc = "update" => /\ a \in clashed
                                 /\ auths[a].seen \in Row
                                 /\ KnownChallenge(auths[a].seen)

RowOK(c) ==
    /\ auths[codes[c].owner].pc = "given"
    /\ auths[codes[c].owner].code = c
    /\ Proves(codes[c])
    /\ KnownChallenge(codes[c])
    /\ codes[c].owner \in clashed \/ AsSaved(codes[c])
    /\ codes[c].expired => codes[c].owner \in expired
    /\ codes[c].used => codes[c].owner \in clashed \/ Spent(codes[c].owner)
    /\ Spent(codes[c].owner) => codes[c].used

RecordOK(q) ==
    /\ q.record \in Row
    /\ Proves(q.record)
    /\ q.record.challenge \in {q.verifier, NoOne}
    /\ q.record.owner = q.by => q.claimed = q.by

RequestOK(r) ==
    LET q == requests[r] IN
    /\ q.pc # "idle" => q.by \in Authorizations /\ auths[q.by].pc = "given"
    /\ q.verifier \in {q.by, NoOne}
    /\ q.pc \in {"idle", "select", "claim"} => q.claimed = NoOne
    /\ q.pc \in {"idle", "select", "claim", "reread"} => q.record = NoRow
    /\ q.claimed # NoOne => auths[q.claimed].pc = "given"
    /\ q.pc \in {"select", "reread"} => dialect = "sqlite"
    /\ q.pc = "reread" /\ CodeOf(r) \in Stored /\ codes[CodeOf(r)].owner = q.by =>
          q.claimed = q.by
    /\ q.pc \in {"issue", "answered", "failed"} => RecordOK(q)

ClaimedOnce ==
    \A r, q \in Redemptions :
        requests[r].claimed = requests[q].claimed /\ requests[r].claimed # NoOne => r = q

\* The row of an authorization, as it was saved.
Kept(a) ==
    /\ auths[a].code \in Stored
    /\ codes[auths[a].code].owner = a
    /\ codes[auths[a].code].client = ClientOf[a]
    /\ codes[auths[a].code].challenge = RowOf(a).challenge

GivenOK(a) ==
    auths[a].pc = "given" => a \in expired \cup clashed \/ Spent(a) \/ Kept(a)

CodesInv ==
    /\ CodesTypeOK
    /\ \A a \in Authorizations : AuthOK(a) /\ GivenOK(a)
    /\ \A c \in Stored : RowOK(c)
    /\ \A r \in Redemptions : RequestOK(r)
    /\ ClaimedOnce
    /\ RefusedForCause

-----------------------------------------------------------------------------
(* Types.                                                                  *)

LEMMA RowType ==
  ASSUME NEW a \in Authorizations
  PROVE  RowOf(a) \in Row
  BY ClientsAreKnown, PkceIsOptional DEF RowOf, Row

LEMMA MergedType ==
  ASSUME NEW row \in Row, NEW seen \in Row, NEW a \in Authorizations
  PROVE  Merged(row, seen, a) \in Row
  BY RowType DEF Merged, Written, Row

LEMMA MarkedType ==
  ASSUME CodesTypeOK, NEW c \in Stored
  PROVE  /\ [codes EXCEPT ![c].used = TRUE] \in [Stored -> Row]
         /\ [codes EXCEPT ![c].expired = TRUE] \in [Stored -> Row]
  <1>1. PICK row \in Row : row = codes[c]
    BY DEF CodesTypeOK, Stored
  <1>2. [row EXCEPT !.used = TRUE] \in Row /\ [row EXCEPT !.expired = TRUE] \in Row
    BY DEF Row
  <1> QED BY <1>1, <1>2 DEF CodesTypeOK, Stored

LEMMA HandledType ==
  ASSUME CodesTypeOK, NEW r \in Redemptions, NEW row \in Row
  PROVE  /\ Handled(r, row) \in Redemption
         /\ Handled(r, row).record = row
         /\ Handled(r, row).by = requests[r].by
         /\ Handled(r, row).client = requests[r].client
         /\ Handled(r, row).verifier = requests[r].verifier
         /\ Handled(r, row).claimed = requests[r].claimed
         /\ Handled(r, row).pc = IF Verified(r, row) THEN "issue" ELSE "refused"
  <1>1. PICK q \in Redemption : q = requests[r]
    BY DEF CodesTypeOK
  <1> DEFINE end == IF Verified(r, row) THEN "issue" ELSE "refused"
  <1>2. end \in {"issue", "refused"}
    OBVIOUS
  <1> HIDE DEF end
  <1> DEFINE h == [q EXCEPT !.record = row, !.pc = end]
  <1>3. Handled(r, row) = h
    BY <1>1, Zenon DEF Handled, end
  <1>4. /\ h \in Redemption /\ h.record = row /\ h.by = q.by /\ h.client = q.client
        /\ h.verifier = q.verifier /\ h.claimed = q.claimed /\ h.pc = end
    BY <1>2 DEF Redemption
  <1> HIDE DEF h
  <1> QED BY <1>1, <1>3, <1>4 DEF end

LEMMA InitTypes ==
  ASSUME CodesInit
  PROVE  CodesTypeOK
  <1>1. codes \in [DOMAIN codes -> Row] /\ DOMAIN codes = {}
    BY DEF CodesInit
  <1>2. auths \in [Authorizations -> Auth]
    BY DEF CodesInit, Auth
  <1>3. requests \in [Redemptions -> Redemption]
    <2>1. {[pc |-> "idle", by |-> NoOne, client |-> c, verifier |-> NoOne,
            claimed |-> NoOne, record |-> NoRow] : c \in Clients} \subseteq Redemption
      BY DEF Redemption
    <2> QED BY <2>1 DEF CodesInit
  <1> QED BY <1>1, <1>2, <1>3 DEF CodesInit, CodesTypeOK

LEMMA CreateTypes ==
  ASSUME CodesInv, NEW a \in Authorizations, Create(a)
  PROVE  CodesTypeOK'
  <1>1. PICK au \in Auth : au = auths[a]
    BY DEF CodesInv, CodesTypeOK
  <1>2. CodesTypeOK /\ AuthOK(a)
    BY DEF CodesInv
  <1>3. CASE Exists(a)
    <2>1. PICK code \in Codes :
             auths' = [auths EXCEPT ![a].code = code, ![a].pc = "lookup"]
      BY <1>3, Zenon DEF Exists, Codes
    <2>2. [au EXCEPT !.code = code, !.pc = "lookup"] \in Auth
      BY DEF Auth
    <2>3. auths' \in [Authorizations -> Auth]
      BY <1>1, <1>2, <2>1, <2>2 DEF CodesTypeOK
    <2> QED BY <1>2, <1>3, <2>3 DEF Exists, CodesTypeOK
  <1>4. CASE Lookup(a)
    <2>1. PICK seen \in Row \cup {NoRow}, pc \in {"insert", "update"} :
             auths' = [auths EXCEPT ![a].seen = seen, ![a].pc = pc]
      <3>1. CASE au.code \in Stored
        <4>1. codes[au.code] \in Row
          BY <1>2, <3>1 DEF CodesTypeOK, Stored
        <4> QED BY <1>1, <1>4, <3>1, <4>1, Zenon DEF Lookup
      <3>2. CASE au.code \notin Stored
        BY <1>1, <1>4, <3>2, Zenon DEF Lookup
      <3> QED BY <3>1, <3>2
    <2>2. [au EXCEPT !.seen = seen, !.pc = pc] \in Auth
      BY DEF Auth
    <2>3. auths' \in [Authorizations -> Auth]
      BY <1>1, <1>2, <2>1, <2>2 DEF CodesTypeOK
    <2>4. clashed' \subseteq Authorizations
      BY <1>2, <1>4 DEF Lookup, CodesTypeOK
    <2> QED BY <1>2, <1>4, <2>3, <2>4 DEF Lookup, CodesTypeOK
  <1>5. CASE Insert(a)
    <2>1. PICK pc \in {"failed", "given"} : auths' = [auths EXCEPT ![a].pc = pc]
      BY <1>5, Zenon DEF Insert
    <2>2. [au EXCEPT !.pc = pc] \in Auth
      BY DEF Auth
    <2>3. auths' \in [Authorizations -> Auth]
      BY <1>1, <1>2, <2>1, <2>2 DEF CodesTypeOK
    <2>4. au.code \in Codes
      BY <1>1, <1>2, <1>5 DEF Insert, AuthOK
    <2>5. DOMAIN codes' \subseteq Codes /\ codes' \in [DOMAIN codes' -> Row]
      <3>1. CASE au.code \in Stored
        BY <1>1, <1>2, <1>5, <3>1 DEF Insert, CodesTypeOK
      <3>2. CASE au.code \notin Stored
        <4>1. codes' = [d \in Stored \cup {au.code} |->
                           IF d = au.code THEN RowOf(a) ELSE codes[d]]
          BY <1>1, <1>5, <3>2 DEF Insert
        <4>2. RowOf(a) \in Row
          BY RowType
        <4> QED BY <1>2, <2>4, <4>1, <4>2 DEF CodesTypeOK, Stored
      <3> QED BY <3>1, <3>2
    <2> QED BY <1>2, <1>5, <2>3, <2>5 DEF Insert, CodesTypeOK
  <1>6. CASE Update(a)
    <2>1. [au EXCEPT !.pc = "given"] \in Auth
      BY DEF Auth
    <2>2. auths' \in [Authorizations -> Auth]
      BY <1>1, <1>2, <1>6, <2>1 DEF Update, CodesTypeOK
    <2>3. /\ DOMAIN codes' \subseteq Codes /\ codes' \in [DOMAIN codes' -> Row]
          /\ clashed' \subseteq Authorizations
      <3>1. CASE au.code \in Stored
        <4>1. codes[au.code] \in Row /\ au.seen \in Row
          BY <1>1, <1>2, <1>6, <3>1 DEF Update, AuthOK, CodesTypeOK, Stored
        <4>2. PICK row \in Row : row = Merged(codes[au.code], au.seen, a)
          BY <4>1, MergedType
        <4>3. codes' = [codes EXCEPT ![au.code] = row]
          BY <1>1, <1>6, <3>1, <4>2 DEF Update
        <4>4. clashed' = clashed \cup {codes[au.code].owner}
          BY <1>1, <1>6, <3>1 DEF Update
        <4>5. codes[au.code].owner \in Authorizations
          BY <4>1 DEF Row
        <4> QED BY <1>2, <4>3, <4>4, <4>5 DEF CodesTypeOK, Stored
      <3>2. CASE au.code \notin Stored
        BY <1>1, <1>2, <1>6, <3>2 DEF Update, CodesTypeOK
      <3> QED BY <3>1, <3>2
    <2> QED BY <1>2, <1>6, <2>2, <2>3 DEF Update, CodesTypeOK
  <1> QED BY <1>3, <1>4, <1>5, <1>6 DEF Create

\* A step of a redemption changes that redemption, and marks at most its row.
LEMMA RedeemStep ==
  ASSUME CodesInv, NEW r \in Redemptions, Redeem(r)
  PROVE  /\ UNCHANGED <<dialect, auths, expired, clashed>>
         /\ \E q \in Redemption : requests' = [requests EXCEPT ![r] = q]
         /\ \/ codes' = codes
            \/ CodeOf(r) \in Stored /\ codes' = [codes EXCEPT ![CodeOf(r)].used = TRUE]
  <1>1. PICK q \in Redemption : q = requests[r]
    BY DEF CodesInv, CodesTypeOK
  <1>2. CodesTypeOK
    BY DEF CodesInv
  <1>3. CASE \E a \in Authorizations : Present(r, a)
    <2>1. PICK a \in Authorizations, v \in Authorizations \cup {NoOne} :
             /\ Present(r, a)
             /\ requests' = [requests EXCEPT
                   ![r].by = a, ![r].verifier = v,
                   ![r].pc = IF dialect = "sqlite" THEN "select" ELSE "claim"]
      BY <1>3 DEF Present
    <2> DEFINE pc == IF dialect = "sqlite" THEN "select" ELSE "claim"
    <2>2. [q EXCEPT !.by = a, !.verifier = v, !.pc = pc] \in Redemption
      BY DEF Redemption
    <2>3. requests' = [requests EXCEPT ![r] = [q EXCEPT !.by = a, !.verifier = v, !.pc = pc]]
      BY <1>1, <1>2, <2>1 DEF CodesTypeOK
    <2> QED BY <2>1, <2>2, <2>3 DEF Present
  <1>4. CASE ClaimPostgres(r)
    <2>1. CASE Refuse(r)
      <3>1. [q EXCEPT !.pc = "refused"] \in Redemption
        BY DEF Redemption
      <3> QED BY <1>1, <1>2, <1>4, <2>1, <3>1 DEF ClaimPostgres, Refuse, CodesTypeOK
    <2>2. CASE ~Refuse(r)
      <3>1. /\ Redeemable(CodeOf(r))
            /\ codes' = [codes EXCEPT ![CodeOf(r)].used = TRUE]
            /\ requests' = [requests EXCEPT ![r].claimed = codes[CodeOf(r)].owner,
                                            ![r].pc = "refused"]
        BY <1>4, <2>2 DEF ClaimPostgres
      <3>2. CodeOf(r) \in Stored
        BY <3>1 DEF Redeemable
      <3>3. codes[CodeOf(r)].owner \in Authorizations
        BY <1>2, <3>2 DEF CodesTypeOK, Stored, Row
      <3>4. [q EXCEPT !.claimed = codes[CodeOf(r)].owner, !.pc = "refused"] \in Redemption
        BY <3>3 DEF Redemption
      <3> QED BY <1>1, <1>2, <1>4, <3>1, <3>2, <3>4 DEF ClaimPostgres, CodesTypeOK
    <2> QED BY <2>1, <2>2
  <1>5. CASE SelectSqlite(r)
    <2>1. PICK pc \in {"claim", "refused"} : requests' = [requests EXCEPT ![r].pc = pc]
      BY <1>5, Zenon DEF SelectSqlite, Refuse
    <2>2. [q EXCEPT !.pc = pc] \in Redemption
      BY DEF Redemption
    <2> QED BY <1>1, <1>2, <1>5, <2>1, <2>2 DEF SelectSqlite, Refuse, CodesTypeOK
  <1>6. CASE ClaimSqlite(r)
    <2>1. CASE Refuse(r)
      <3>1. [q EXCEPT !.pc = "refused"] \in Redemption
        BY DEF Redemption
      <3> QED BY <1>1, <1>2, <1>6, <2>1, <3>1 DEF ClaimSqlite, Refuse, CodesTypeOK
    <2>2. CASE ~Refuse(r)
      <3>1. /\ Unused(CodeOf(r))
            /\ codes' = [codes EXCEPT ![CodeOf(r)].used = TRUE]
            /\ requests' = [requests EXCEPT ![r].claimed = codes[CodeOf(r)].owner,
                                            ![r].pc = "reread"]
        BY <1>6, <2>2 DEF ClaimSqlite
      <3>2. CodeOf(r) \in Stored
        BY <3>1 DEF Unused
      <3>3. codes[CodeOf(r)].owner \in Authorizations
        BY <1>2, <3>2 DEF CodesTypeOK, Stored, Row
      <3>4. [q EXCEPT !.claimed = codes[CodeOf(r)].owner, !.pc = "reread"] \in Redemption
        BY <3>3 DEF Redemption
      <3> QED BY <1>1, <1>2, <1>6, <3>1, <3>2, <3>4 DEF ClaimSqlite, CodesTypeOK
    <2> QED BY <2>1, <2>2
  <1>7. CASE RereadSqlite(r)
    <2>1. CASE CodeOf(r) \in Stored
      <3>1. codes[CodeOf(r)] \in Row
        BY <1>2, <2>1 DEF CodesTypeOK, Stored
      <3>2. Handled(r, codes[CodeOf(r)]) \in Redemption
        BY <1>2, <3>1, HandledType
      <3> QED BY <1>7, <2>1, <3>2 DEF RereadSqlite
    <2>2. CASE CodeOf(r) \notin Stored
      <3>1. [q EXCEPT !.pc = "refused"] \in Redemption
        BY DEF Redemption
      <3> QED BY <1>1, <1>2, <1>7, <2>2, <3>1 DEF RereadSqlite, Refuse, CodesTypeOK
    <2> QED BY <2>1, <2>2
  <1>8. CASE Issue(r)
    <2>1. PICK pc \in {"answered", "failed"} : requests' = [requests EXCEPT ![r].pc = pc]
      BY <1>8, Zenon DEF Issue
    <2>2. [q EXCEPT !.pc = pc] \in Redemption
      BY DEF Redemption
    <2> QED BY <1>1, <1>2, <1>8, <2>1, <2>2 DEF Issue, CodesTypeOK
  <1> QED BY <1>3, <1>4, <1>5, <1>6, <1>7, <1>8 DEF Redeem

LEMMA RedeemTypes ==
  ASSUME CodesInv, NEW r \in Redemptions, Redeem(r)
  PROVE  CodesTypeOK'
  <1>1. /\ UNCHANGED <<dialect, auths, expired, clashed>>
        /\ \/ codes' = codes
           \/ CodeOf(r) \in Stored /\ codes' = [codes EXCEPT ![CodeOf(r)].used = TRUE]
    BY RedeemStep
  <1>2. PICK q \in Redemption : requests' = [requests EXCEPT ![r] = q]
    BY RedeemStep
  <1>3. requests' \in [Redemptions -> Redemption]
    BY <1>2 DEF CodesInv, CodesTypeOK
  <1>4. DOMAIN codes' \subseteq Codes /\ codes' \in [DOMAIN codes' -> Row]
    BY <1>1, MarkedType DEF CodesInv, CodesTypeOK, Stored
  <1> QED BY <1>1, <1>3, <1>4 DEF CodesInv, CodesTypeOK

LEMMA ClockTypes ==
  ASSUME CodesTypeOK, (\E c \in Codes : ExpireCode(c)) \/ Clean
  PROVE  CodesTypeOK'
  <1>1. CASE \E c \in Codes : ExpireCode(c)
    <2>1. PICK c \in Stored : /\ codes' = [codes EXCEPT ![c].expired = TRUE]
                              /\ expired' = expired \cup {codes[c].owner}
      BY <1>1 DEF ExpireCode
    <2>2. codes[c].owner \in Authorizations
      BY <2>1 DEF CodesTypeOK, Stored, Row
    <2>3. DOMAIN codes' \subseteq Codes /\ codes' \in [DOMAIN codes' -> Row]
      BY <2>1, MarkedType DEF CodesTypeOK, Stored
    <2> QED BY <1>1, <2>1, <2>2, <2>3 DEF ExpireCode, CodesTypeOK
  <1>2. CASE Clean
    BY <1>2 DEF Clean, CodesTypeOK, Stored
  <1> QED BY <1>1, <1>2

-----------------------------------------------------------------------------
(* Making a code.                                                          *)

\* What an authorization saves: a row of its own, or over the row that has the
\* number by now.
Saved(a, c) ==
    /\ Stored' = Stored \cup {c}
    /\ \A d \in Stored \ {c} : codes'[d] = codes[d]
    /\ codes'[c].owner = a
    /\ Proves(codes'[c])
    /\ codes'[c].challenge # NoOne => auths'[codes'[c].challenge].pc = "given"
    /\ ~codes'[c].expired
    /\ codes'[c].used => a \in clashed'
    /\ IF c \in Stored THEN {a, codes[c].owner} \subseteq clashed'
                       ELSE codes'[c] = RowOf(a)

\* An authorization is alone in writing its variables, and stops when its code
\* is given.
LEMMA CreateStep ==
  ASSUME CodesInv, NEW a \in Authorizations, Create(a)
  PROVE  /\ UNCHANGED <<dialect, requests, expired>>
         /\ clashed \subseteq clashed'
         /\ auths[a].pc # "given"
         /\ \A b \in Authorizations \ {a} : auths'[b] = auths[b]
  BY DEF CodesInv, CodesTypeOK, Create, Exists, Lookup, Insert, Update

LEMMA KnownStays ==
  ASSUME CodesInv, NEW a \in Authorizations, Create(a), NEW row \in Row, KnownChallenge(row)
  PROVE  KnownChallenge(row)'
  BY CreateStep DEF KnownChallenge, Row

LEMMA MergedFacts ==
  ASSUME CodesInv, NEW a \in Authorizations, Update(a), auths[a].code \in Stored,
         NEW row \in Row, row = Merged(codes[auths[a].code], auths[a].seen, a)
  PROVE  /\ row.owner = a
         /\ Proves(row)
         /\ KnownChallenge(row)'
         /\ ~row.expired
  <1> DEFINE c == auths[a].code
  <1>1. auths[a].pc = "update" /\ auths'[a].pc = "given"
    BY DEF Update, CodesInv, CodesTypeOK
  <1>2. AuthOK(a) /\ RowOK(c) /\ codes[c] \in Row
    BY DEF CodesInv, CodesTypeOK, Stored
  <1>3. PICK seen \in Row : seen = auths[a].seen /\ KnownChallenge(seen)
    BY <1>1, <1>2 DEF AuthOK
  <1>4. PICK old \in Row : old = codes[c] /\ KnownChallenge(old)
    BY <1>2 DEF RowOK
  <1>5. row.owner = a /\ ~row.expired /\
        row.challenge = Written(RowOf(a).challenge, seen.challenge, old.challenge)
    BY <1>3, <1>4 DEF Merged
  <1>6. RowOf(a).challenge = IF a \in WithPkce THEN a ELSE NoOne
    BY DEF RowOf
  <1>7. CASE RowOf(a).challenge # seen.challenge
    <2>1. row.challenge = IF a \in WithPkce THEN a ELSE NoOne
      BY <1>5, <1>6, <1>7 DEF Written
    <2> QED BY <1>1, <1>5, <2>1 DEF Proves, KnownChallenge
  <1>8. CASE RowOf(a).challenge = seen.challenge
    <2>1. a \notin WithPkce
      BY <1>1, <1>3, <1>6, <1>8, NullsAreNoValues DEF KnownChallenge
    <2>2. row.challenge = old.challenge
      BY <1>5, <1>8 DEF Written
    <2>3. KnownChallenge(row)
      BY <1>4, <2>2 DEF KnownChallenge
    <2>4. KnownChallenge(row)'
      BY <2>3, KnownStays DEF Create
    <2> QED BY <1>5, <2>1, <2>4 DEF Proves
  <1> QED BY <1>5, <1>7, <1>8

LEMMA SaveStep ==
  ASSUME CodesInv, NEW a \in Authorizations, Create(a), codes' # codes
  PROVE  /\ Saved(a, auths[a].code)
         /\ auths' = [auths EXCEPT ![a].pc = "given"]
  <1> DEFINE c == auths[a].code
  <1>1. CodesTypeOK /\ AuthOK(a)
    BY DEF CodesInv
  <1>2. CASE Insert(a)
    <2>1. /\ c \notin Stored
          /\ auths' = [auths EXCEPT ![a].pc = "given"]
          /\ codes' = [d \in Stored \cup {c} |-> IF d = c THEN RowOf(a) ELSE codes[d]]
      BY <1>2 DEF Insert
    <2>2. Stored' = Stored \cup {c} /\ codes'[c] = RowOf(a)
          /\ \A d \in Stored \ {c} : codes'[d] = codes[d]
      BY <2>1 DEF Stored
    <2>3. /\ RowOf(a).owner = a /\ Proves(RowOf(a)) /\ ~RowOf(a).used
          /\ ~RowOf(a).expired /\ RowOf(a).challenge \in {a, NoOne}
      BY DEF RowOf, Proves
    <2>4. auths'[a].pc = "given"
      BY <1>1, <2>1 DEF CodesTypeOK
    <2>5. codes'[c].challenge # NoOne => auths'[codes'[c].challenge].pc = "given"
      BY <2>2, <2>3, <2>4 DEF KnownChallenge
    <2> QED BY <2>1, <2>2, <2>3, <2>5 DEF Saved
  <1>3. CASE Update(a)
    <2>1. /\ c \in Stored
          /\ auths' = [auths EXCEPT ![a].pc = "given"]
          /\ codes' = [codes EXCEPT ![c] = Merged(codes[c], auths[a].seen, a)]
          /\ clashed' = clashed \cup {codes[c].owner}
          /\ auths[a].pc = "update"
      BY <1>3 DEF Update
    <2>2. a \in clashed /\ auths[a].seen \in Row /\ codes[c] \in Row
      BY <1>1, <2>1 DEF AuthOK, CodesTypeOK, Stored
    <2>3. PICK row \in Row : row = Merged(codes[c], auths[a].seen, a)
      BY <2>2, MergedType
    <2>4. row.owner = a /\ Proves(row) /\ KnownChallenge(row)' /\ ~row.expired
      BY <1>3, <2>1, <2>3, MergedFacts
    <2>5. /\ Stored' = Stored \cup {c} /\ codes'[c] = row
          /\ \A d \in Stored \ {c} : codes'[d] = codes[d]
      BY <1>1, <2>1, <2>3 DEF Stored, CodesTypeOK
    <2>6. codes'[c].challenge # NoOne => auths'[codes'[c].challenge].pc = "given"
      BY <2>4, <2>5 DEF KnownChallenge
    <2> QED BY <2>1, <2>2, <2>4, <2>5, <2>6 DEF Saved
  <1> QED BY <1>2, <1>3 DEF Create, Exists, Lookup

LEMMA CreateKeepsAuths ==
  ASSUME CodesInv, NEW a \in Authorizations, Create(a), NEW b \in Authorizations
  PROVE  AuthOK(b)'
  <1>1. CodesTypeOK /\ AuthOK(b) /\ AuthOK(a)
    BY DEF CodesInv
  <1>2. CASE b # a
    <2>1. auths'[b] = auths[b] /\ clashed \subseteq clashed'
      BY <1>2, CreateStep
    <2>2. auths[b].pc = "update" => KnownChallenge(auths[b].seen)'
      <3> SUFFICES ASSUME auths[b].pc = "update" PROVE KnownChallenge(auths[b].seen)'
        OBVIOUS
      <3>1. PICK seen \in Row : seen = auths[b].seen /\ KnownChallenge(seen)
        BY <1>1 DEF AuthOK
      <3>2. KnownChallenge(seen)'
        BY <3>1, KnownStays
      <3> QED BY <2>1, <3>1, <3>2 DEF KnownChallenge
    <2> QED BY <1>1, <2>1, <2>2 DEF AuthOK
  <1>3. CASE b = a
    <2>1. CASE Exists(a)
      <3>1. auths'[a].pc = "lookup" /\ auths'[a].code \in Codes
        BY <1>1, <2>1 DEF Exists, Codes, CodesTypeOK, Auth
      <3> QED BY <1>3, <3>1 DEF AuthOK
    <2>2. CASE Lookup(a)
      <3>1. auths'[a].code = auths[a].code /\ auths'[a].code \in Codes
        BY <1>1, <2>2 DEF Lookup, CodesTypeOK, Auth, AuthOK
      <3>2. CASE auths[a].code \in Stored
        <4>1. auths'[a].seen = codes[auths[a].code] /\ a \in clashed'
          BY <1>1, <2>2, <3>2 DEF Lookup, CodesTypeOK, Auth
        <4>2. PICK row \in Row : row = codes[auths[a].code] /\ KnownChallenge(row)
          BY <3>2 DEF CodesInv, CodesTypeOK, Stored, RowOK
        <4>3. KnownChallenge(row)'
          BY <4>2, KnownStays
        <4>4. KnownChallenge(auths[a].seen)'
          BY <4>1, <4>2, <4>3 DEF KnownChallenge
        <4> QED BY <1>3, <3>1, <4>1, <4>2, <4>4 DEF AuthOK
      <3>3. CASE auths[a].code \notin Stored
        <4>1. auths'[a].pc = "insert"
          BY <1>1, <2>2, <3>3 DEF Lookup, CodesTypeOK, Auth
        <4> QED BY <1>3, <3>1, <4>1 DEF AuthOK
      <3> QED BY <3>2, <3>3
    <2>3. CASE Insert(a) \/ Update(a)
      <3>1. auths'[a].pc \in {"given", "failed"} /\ auths'[a].code = auths[a].code
        BY <1>1, <2>3 DEF Insert, Update, CodesTypeOK, Auth
      <3>2. auths[a].code \in Codes
        BY <1>1, <2>3 DEF AuthOK, Insert, Update
      <3> QED BY <1>3, <3>1, <3>2 DEF AuthOK
    <2> QED BY <2>1, <2>2, <2>3 DEF Create
  <1> QED BY <1>2, <1>3

LEMMA CreateKeepsRows ==
  ASSUME CodesInv, NEW a \in Authorizations, Create(a), NEW c \in Stored'
  PROVE  RowOK(c)'
  <1>1. /\ UNCHANGED <<requests, expired>> /\ clashed \subseteq clashed'
        /\ \A b \in Authorizations : auths[b].pc = "given" => auths'[b] = auths[b]
    BY CreateStep
  <1>2. \A b : Spent(b)' <=> Spent(b)
    BY <1>1 DEF Spent
  <1>3. ASSUME c \in Stored, codes'[c] = codes[c]
        PROVE  RowOK(c)'
    <2>1. PICK row \in Row : row = codes[c] /\ row = codes'[c]
      BY <1>3 DEF CodesInv, CodesTypeOK, Stored
    <2>2. RowOK(c)
      BY <1>3 DEF CodesInv
    <2>3. KnownChallenge(row)'
      BY <2>1, <2>2, KnownStays DEF RowOK
    <2>4. row.owner \in Authorizations /\ auths'[row.owner] = auths[row.owner]
      BY <1>1, <2>1, <2>2 DEF RowOK, Row
    <2>5. KnownChallenge(codes[c])'
      BY <2>1, <2>3 DEF KnownChallenge
    <2>6. clashed \subseteq clashed' /\ (row.owner \in clashed \/ AsSaved(row))
      BY <1>1, <2>1, <2>2 DEF RowOK
    <2> QED BY <1>1, <1>2, <2>1, <2>2, <2>4, <2>5, <2>6 DEF RowOK, Proves, AsSaved, RowOf
  <1>4. CASE codes' = codes
    BY <1>3, <1>4 DEF Stored
  <1>5. CASE codes' # codes
    <2>1. Saved(a, auths[a].code) /\ auths' = [auths EXCEPT ![a].pc = "given"]
      BY <1>5, SaveStep
    <2>2. CASE c # auths[a].code
      BY <1>3, <2>1, <2>2 DEF Saved
    <2>3. CASE c = auths[a].code
      <3>1. ~Spent(a)
        BY CreateStep, NullsAreNoValues DEF CodesInv, Spent, RequestOK
      <3>2. auths'[a].pc = "given" /\ auths'[a].code = c
        BY <2>1, <2>3 DEF CodesInv, CodesTypeOK, Auth
      <3>3. codes'[c].owner = a /\ ~codes'[c].expired
            /\ (codes'[c].used => a \in clashed')
            /\ (codes'[c].challenge # NoOne => auths'[codes'[c].challenge].pc = "given")
            /\ Proves(codes'[c])
        BY <2>1, <2>3 DEF Saved
      <3>4. a \in clashed' \/ codes'[c] = RowOf(a)
        BY <2>1, <2>3 DEF Saved
      <3>5. codes'[c].owner \in clashed' \/ AsSaved(codes[c])'
        BY <3>3, <3>4 DEF AsSaved, RowOf
      <3> QED BY <1>2, <3>1, <3>2, <3>3, <3>5 DEF RowOK, Proves, KnownChallenge
    <2> QED BY <2>2, <2>3
  <1> QED BY <1>4, <1>5

LEMMA CreateKeepsGiven ==
  ASSUME CodesInv, NEW a \in Authorizations, Create(a), NEW b \in Authorizations
  PROVE  GivenOK(b)'
  <1>1. UNCHANGED <<requests, expired>> /\ clashed \subseteq clashed'
    BY CreateStep
  <1>2. GivenOK(b) /\ GivenOK(a) /\ AuthOK(a) /\ CodesTypeOK
    BY DEF CodesInv
  <1>3. Spent(b)' <=> Spent(b)
    BY <1>1 DEF Spent
  <1>4. RowOf(b)' = RowOf(b)
    BY DEF RowOf
  <1>5. CASE b # a
    <2>1. auths'[b] = auths[b]
      BY <1>5, CreateStep
    <2>2. ASSUME Kept(b), codes' # codes
          PROVE  Kept(b)' \/ b \in clashed'
      <3>1. Saved(a, auths[a].code)
        BY <2>2, SaveStep
      <3> QED BY <1>4, <2>1, <2>2, <3>1 DEF Saved, Kept
    <2>3. codes' = codes => (Kept(b) => Kept(b)')
      BY <1>4, <2>1 DEF Kept, Stored
    <2> QED BY <1>1, <1>2, <1>3, <2>1, <2>2, <2>3 DEF GivenOK
  <1>6. CASE b = a
    <2>1. CASE codes' # codes
      <3>1. Saved(a, auths[a].code) /\ auths'[a].code = auths[a].code
        BY <1>2, <2>1, SaveStep DEF CodesTypeOK, Auth
      <3>2. auths[a].code \in Stored => a \in clashed'
        BY <3>1 DEF Saved
      <3>3. auths[a].code \notin Stored => Kept(a)'
        BY <1>4, <1>6, <3>1 DEF Saved, Kept, RowOf
      <3> QED BY <1>6, <3>2, <3>3 DEF GivenOK
    <2>2. CASE codes' = codes
      <3>1. CASE Update(a)
        BY <1>1, <1>2, <1>6, <3>1 DEF Update, AuthOK, GivenOK
      <3>2. CASE Insert(a)
        <4>1. auths[a].code \in Stored
          BY <2>2, <3>2 DEF Insert, Stored
        <4>2. auths'[a].pc = "failed"
          BY <1>2, <3>2, <4>1 DEF Insert, CodesTypeOK, Auth
        <4> QED BY <1>6, <4>2 DEF GivenOK
      <3>3. CASE Exists(a) \/ Lookup(a)
        <4>1. PICK o \in Auth : o = auths[a]
          BY <1>2 DEF CodesTypeOK
        <4>2. \A code, seen : /\ [o EXCEPT !.code = code, !.pc = "lookup"].pc = "lookup"
                              /\ [o EXCEPT !.seen = seen, !.pc = "update"].pc = "update"
                              /\ [o EXCEPT !.seen = seen, !.pc = "insert"].pc = "insert"
          BY DEF Auth
        <4>3. CASE Exists(a)
          <5>1. PICK code \in Codes :
                  auths' = [auths EXCEPT ![a] = [o EXCEPT !.code = code, !.pc = "lookup"]]
            BY <4>1, <4>3 DEF Exists
          <5>2. auths'[a].pc = "lookup"
            BY <1>2, <4>2, <5>1 DEF CodesTypeOK
          <5> QED BY <1>6, <5>2 DEF GivenOK
        <4>4. CASE Lookup(a)
          <5>1. PICK seen, pc : /\ seen = IF o.code \in Stored THEN codes[o.code] ELSE NoRow
                                /\ pc = IF o.code \in Stored THEN "update" ELSE "insert"
            OBVIOUS
          <5>2. auths' = [auths EXCEPT ![a] = [o EXCEPT !.seen = seen, !.pc = pc]]
            BY <4>1, <4>4, <5>1 DEF Lookup
          <5>3. pc = "update" \/ pc = "insert"
            BY <5>1
          <5>4. auths'[a] = [o EXCEPT !.seen = seen, !.pc = pc]
            BY <1>2, <5>2 DEF CodesTypeOK
          <5>5. auths'[a].pc = "update" \/ auths'[a].pc = "insert"
            BY <4>2, <5>3, <5>4
          <5> QED BY <1>6, <5>5 DEF GivenOK
        <4> QED BY <3>3, <4>3, <4>4
      <3> QED BY <3>1, <3>2, <3>3 DEF Create
    <2> QED BY <2>1, <2>2
  <1> QED BY <1>5, <1>6

LEMMA CreateKeepsRequests ==
  ASSUME CodesInv, NEW a \in Authorizations, Create(a), NEW r \in Redemptions
  PROVE  RequestOK(r)'
  <1>1. /\ UNCHANGED <<dialect, requests>>
        /\ \A b \in Authorizations : auths[b].pc = "given" => auths'[b] = auths[b]
        /\ auths[a].pc # "given"
    BY CreateStep
  <1>2. PICK q \in Redemption : q = requests[r] /\ q = requests'[r]
    BY <1>1 DEF CodesInv, CodesTypeOK
  <1>3. RequestOK(r)
    BY DEF CodesInv
  <1>4. q.pc # "idle" => q.by \in Authorizations /\ auths'[q.by] = auths[q.by]
    BY <1>1, <1>2, <1>3 DEF RequestOK
  <1>5. q.claimed # NoOne => auths'[q.claimed] = auths[q.claimed]
    BY <1>1, <1>2, <1>3 DEF RequestOK, Redemption
  <1>6. ASSUME q.pc = "reread", CodeOf(r)' \in Stored', codes'[CodeOf(r)'].owner = q.by
        PROVE  CodeOf(r) \in Stored /\ codes[CodeOf(r)].owner = q.by
    <2>1. CodeOf(r)' = CodeOf(r) /\ q.by # a
      BY <1>1, <1>2, <1>3, <1>4, <1>6 DEF CodeOf, RequestOK
    <2>2. CASE codes' = codes
      BY <1>6, <2>1, <2>2 DEF Stored
    <2>3. CASE codes' # codes
      BY <1>6, <2>1, <2>3, SaveStep DEF Saved
    <2> QED BY <2>2, <2>3
  <1>7. RecordOK(q) => RecordOK(q)'
    BY <1>1 DEF RecordOK, Proves
  <1> QED BY <1>1, <1>2, <1>3, <1>4, <1>5, <1>6, <1>7 DEF RequestOK, RecordOK, Proves

-----------------------------------------------------------------------------
(* Redeeming a code.                                                       *)

Marks(r) ==
    /\ CodeOf(r) \in Stored
    /\ ~codes[CodeOf(r)].used
    /\ codes' = [codes EXCEPT ![CodeOf(r)].used = TRUE]
    /\ requests[r].claimed = NoOne
    /\ requests'[r].claimed = codes[CodeOf(r)].owner

\* A redemption claims a row exactly when it marks it.
LEMMA RedeemClaims ==
  ASSUME CodesInv, NEW r \in Redemptions, Redeem(r)
  PROVE  \/ Marks(r)
         \/ codes' = codes /\ requests'[r].claimed = requests[r].claimed
  <1>1. CodesTypeOK /\ RequestOK(r)
    BY DEF CodesInv
  <1>2. PICK q \in Redemption : q = requests[r]
    BY <1>1 DEF CodesTypeOK
  <1>3. CASE \E a \in Authorizations : Present(r, a)
    BY <1>1, <1>2, <1>3 DEF Present, CodesTypeOK, Redemption
  <1>4. CASE ClaimPostgres(r)
    <2>1. CASE Refuse(r)
      BY <1>1, <1>2, <2>1 DEF Refuse, CodesTypeOK, Redemption
    <2>2. CASE ~Refuse(r)
      <3>1. /\ Redeemable(CodeOf(r))
            /\ codes' = [codes EXCEPT ![CodeOf(r)].used = TRUE]
            /\ requests' = [requests EXCEPT ![r].claimed = codes[CodeOf(r)].owner,
                                            ![r].pc = "refused"]
            /\ requests[r].pc = "claim"
        BY <1>4, <2>2 DEF ClaimPostgres
      <3>2. requests'[r].claimed = codes[CodeOf(r)].owner
        BY <1>1, <1>2, <3>1 DEF CodesTypeOK, Redemption
      <3> QED BY <1>1, <3>1, <3>2 DEF Marks, Redeemable, RequestOK
    <2> QED BY <2>1, <2>2
  <1>5. CASE SelectSqlite(r)
    BY <1>1, <1>2, <1>5 DEF SelectSqlite, Refuse, CodesTypeOK, Redemption
  <1>6. CASE ClaimSqlite(r)
    <2>1. CASE Refuse(r)
      BY <1>1, <1>2, <2>1 DEF Refuse, CodesTypeOK, Redemption
    <2>2. CASE ~Refuse(r)
      <3>1. /\ Unused(CodeOf(r))
            /\ codes' = [codes EXCEPT ![CodeOf(r)].used = TRUE]
            /\ requests' = [requests EXCEPT ![r].claimed = codes[CodeOf(r)].owner,
                                            ![r].pc = "reread"]
            /\ requests[r].pc = "claim"
        BY <1>6, <2>2 DEF ClaimSqlite
      <3>2. requests'[r].claimed = codes[CodeOf(r)].owner
        BY <1>1, <1>2, <3>1 DEF CodesTypeOK, Redemption
      <3> QED BY <1>1, <3>1, <3>2 DEF Marks, Unused, RequestOK
    <2> QED BY <2>1, <2>2
  <1>7. CASE RereadSqlite(r)
    <2>1. CASE CodeOf(r) \in Stored
      <3>1. codes[CodeOf(r)] \in Row
        BY <1>1, <2>1 DEF CodesTypeOK, Stored
      <3>2. /\ requests' = [requests EXCEPT ![r] = Handled(r, codes[CodeOf(r)])]
            /\ codes' = codes
        BY <1>7, <2>1 DEF RereadSqlite
      <3> QED BY <1>1, <3>1, <3>2, HandledType DEF CodesTypeOK
    <2>2. CASE CodeOf(r) \notin Stored
      BY <1>1, <1>2, <1>7, <2>2 DEF RereadSqlite, Refuse, CodesTypeOK, Redemption
    <2> QED BY <2>1, <2>2
  <1>8. CASE Issue(r)
    BY <1>1, <1>2, <1>8 DEF Issue, CodesTypeOK, Redemption
  <1> QED BY <1>3, <1>4, <1>5, <1>6, <1>7, <1>8 DEF Redeem

LEMMA OthersRedeem ==
  ASSUME CodesInv, NEW r \in Redemptions, Redeem(r)
  PROVE  /\ \A s \in Redemptions \ {r} : requests'[s] = requests[s]
         /\ Stored' = Stored
         /\ \A a \in Authorizations : Spent(a) => Spent(a)'
         /\ \A a \in Authorizations :
               Spent(a)' => Spent(a) \/ (Marks(r) /\ a = codes[CodeOf(r)].owner)
  <1>1. PICK q \in Redemption : requests' = [requests EXCEPT ![r] = q]
    BY RedeemStep
  <1>2. \A s \in Redemptions \ {r} : requests'[s] = requests[s]
    BY <1>1 DEF CodesInv, CodesTypeOK
  <1>3. Stored' = Stored
    BY RedeemStep DEF CodesInv, CodesTypeOK, Stored
  <1>4. Marks(r) \/ requests'[r].claimed = requests[r].claimed
    BY RedeemClaims
  <1>5. ASSUME NEW a \in Authorizations, Spent(a)
        PROVE  Spent(a)'
    <2>1. PICK s \in Redemptions : requests[s].claimed = a
      BY <1>5 DEF Spent
    <2>2. requests'[s].claimed = a
      BY <1>2, <1>4, <2>1, NullsAreNoValues DEF Marks
    <2> QED BY <2>2 DEF Spent
  <1>6. ASSUME NEW a \in Authorizations, Spent(a)'
        PROVE  Spent(a) \/ (Marks(r) /\ a = codes[CodeOf(r)].owner)
    <2>1. PICK s \in Redemptions : requests'[s].claimed = a
      BY <1>6 DEF Spent
    <2> QED BY <1>2, <1>4, <2>1 DEF Spent, Marks
  <1> QED BY <1>2, <1>3, <1>5, <1>6

\* The marked row, and the others.
LEMMA MarkedRow ==
  ASSUME CodesInv, NEW r \in Redemptions, Redeem(r), NEW d \in Stored
  PROVE  /\ codes'[d].owner = codes[d].owner
         /\ codes'[d].client = codes[d].client
         /\ codes'[d].challenge = codes[d].challenge
         /\ codes'[d].expired = codes[d].expired
         /\ codes'[d].used = (codes[d].used \/ (Marks(r) /\ d = CodeOf(r)))
  <1>1. PICK row \in Row : row = codes[d]
    BY DEF CodesInv, CodesTypeOK, Stored
  <1>2. CASE Marks(r) /\ d = CodeOf(r)
    <2>1. codes'[d] = [row EXCEPT !.used = TRUE]
      BY <1>1, <1>2 DEF Marks, CodesInv, CodesTypeOK, Stored
    <2> QED BY <1>1, <1>2, <2>1 DEF Row
  <1>3. CASE ~(Marks(r) /\ d = CodeOf(r))
    <2>1. codes'[d] = row
      BY <1>1, <1>3, RedeemClaims DEF Marks, CodesInv, CodesTypeOK, Stored
    <2>2. row.used \in BOOLEAN
      BY DEF Row
    <2> QED BY <1>1, <1>3, <2>1, <2>2
  <1> QED BY <1>2, <1>3

LEMMA RedeemKeepsRows ==
  ASSUME CodesInv, NEW r \in Redemptions, Redeem(r), NEW d \in Stored'
  PROVE  RowOK(d)'
  <1>1. UNCHANGED <<auths, expired, clashed>> /\ d \in Stored
    BY RedeemStep, OthersRedeem
  <1>2. PICK row \in Row : row = codes[d]
    BY <1>1 DEF CodesInv, CodesTypeOK, Stored
  <1>3. PICK new \in Row : new = codes'[d]
    <2>1. codes'[d] \in Row
      BY <1>1, OthersRedeem, RedeemTypes DEF CodesTypeOK, Stored
    <2> QED BY <2>1
  <1>4. /\ new.owner = row.owner /\ new.client = row.client
        /\ new.challenge = row.challenge /\ new.expired = row.expired
        /\ new.used = (row.used \/ (Marks(r) /\ d = CodeOf(r)))
    BY <1>1, <1>2, <1>3, MarkedRow
  <1>5. RowOK(d) /\ row.owner \in Authorizations
    BY <1>1 DEF CodesInv, Row
  <1>6. Marks(r) /\ d = CodeOf(r) => Spent(row.owner)'
    BY <1>2 DEF Marks, Spent
  <1>7. Spent(row.owner)' => new.used
    <2>1. CASE Spent(row.owner)
      BY <1>2, <1>4, <1>5, <2>1 DEF RowOK
    <2>2. CASE Marks(r) /\ row.owner = codes[CodeOf(r)].owner
      <3>1. RowOK(CodeOf(r))
        BY <2>2 DEF Marks, CodesInv
      <3>2. d = CodeOf(r)
        BY <1>2, <1>5, <2>2, <3>1 DEF RowOK
      <3> QED BY <1>4, <2>2, <3>2
    <2> QED BY <1>5, <2>1, <2>2, OthersRedeem
  <1>8. new.used => new.owner \in clashed \/ Spent(new.owner)'
    BY <1>2, <1>4, <1>5, <1>6, OthersRedeem DEF RowOK
  <1>9. new.owner \in clashed \/ (AsSaved(codes[d]))'
    BY <1>2, <1>3, <1>4, <1>5 DEF RowOK, AsSaved, RowOf
  <1> QED BY <1>1, <1>2, <1>3, <1>4, <1>5, <1>7, <1>8, <1>9 DEF RowOK, Proves, KnownChallenge

LEMMA RedeemKeepsGiven ==
  ASSUME CodesInv, NEW r \in Redemptions, Redeem(r), NEW b \in Authorizations
  PROVE  GivenOK(b)' /\ AuthOK(b)'
  <1>1. UNCHANGED <<auths, expired, clashed>> /\ GivenOK(b) /\ AuthOK(b)
    BY RedeemStep DEF CodesInv
  <1>2. Kept(b) => Kept(b)'
    BY <1>1, MarkedRow, OthersRedeem DEF Kept, RowOf
  <1> QED BY <1>1, <1>2, OthersRedeem DEF GivenOK, AuthOK, KnownChallenge

LEMMA RedeemClaimsOnce ==
  ASSUME CodesInv, NEW r \in Redemptions, Redeem(r)
  PROVE  ClaimedOnce'
  <1>1. CASE Marks(r)
    <2>1. ~Spent(codes[CodeOf(r)].owner)
      BY <1>1 DEF Marks, CodesInv, RowOK
    <2> QED BY <1>1, <2>1, OthersRedeem DEF Marks, Spent, CodesInv, ClaimedOnce
  <1>2. CASE requests'[r].claimed = requests[r].claimed
    BY <1>2, OthersRedeem DEF CodesInv, ClaimedOnce
  <1> QED BY <1>1, <1>2, RedeemClaims

\* Whatever row a redemption has claimed, its record is sound.
LEMMA HandledOK ==
  ASSUME CodesInv, NEW r \in Redemptions, requests[r].pc # "idle",
         NEW row \in Row, Proves(row),
         NEW q \in Redemption,
         q.by = requests[r].by, q.verifier = requests[r].verifier,
         q.record = row, row.owner = q.by => q.claimed = q.by,
         q.claimed # NoOne => auths[q.claimed].pc = "given",
         q.pc = IF Verified(r, row) THEN "issue" ELSE "refused",
         requests'[r] = q, UNCHANGED <<dialect, auths>>
  PROVE  RequestOK(r)'
  <1>1. RequestOK(r)
    BY DEF CodesInv
  <1>2. q.pc = "issue" => q.record.challenge \in {q.verifier, NoOne}
    BY DEF Verified
  <1>3. q.pc = "issue" => RecordOK(q)'
    BY <1>2 DEF RecordOK, Proves
  <1>4. q.pc \in {"issue", "refused"}
    OBVIOUS
  <1> QED BY <1>1, <1>3, <1>4 DEF RequestOK, RecordOK, Proves

LEMMA RedeemKeepsOwn ==
  ASSUME CodesInv, NEW r \in Redemptions, Redeem(r)
  PROVE  RequestOK(r)'
  <1>1. CodesTypeOK /\ RequestOK(r) /\ UNCHANGED <<dialect, auths>>
    BY RedeemStep DEF CodesInv
  <1>2. PICK q \in Redemption : q = requests[r]
    BY <1>1 DEF CodesTypeOK
  <1>3. ASSUME q.pc # "idle", Refuse(r)
        PROVE  RequestOK(r)'
    <2>1. requests'[r] = [q EXCEPT !.pc = "refused"]
      BY <1>1, <1>2, <1>3 DEF Refuse, CodesTypeOK
    <2>2. PICK n \in Redemption : /\ n = requests'[r] /\ n.by = q.by /\ n.pc = "refused"
                                  /\ n.verifier = q.verifier /\ n.claimed = q.claimed
      BY <2>1 DEF Redemption
    <2> QED BY <1>1, <1>2, <1>3, <2>2 DEF RequestOK
  <1>4. CASE \E a \in Authorizations : Present(r, a)
    <2>1. PICK a \in Authorizations, v \in Authorizations \cup {NoOne} :
             /\ q.pc = "idle" /\ auths[a].pc = "given" /\ v \in {a, NoOne}
             /\ requests' = [requests EXCEPT
                   ![r].by = a, ![r].verifier = v,
                   ![r].pc = IF dialect = "sqlite" THEN "select" ELSE "claim"]
      BY <1>2, <1>4 DEF Present
    <2>2. PICK n \in Redemption :
             /\ n = requests'[r] /\ n.by = a /\ n.verifier = v /\ n.claimed = q.claimed
             /\ n.pc \in {"select", "claim"} /\ (n.pc = "select" => dialect = "sqlite")
             /\ n.record = q.record
      <3> DEFINE pc == IF dialect = "sqlite" THEN "select" ELSE "claim"
      <3>1. requests'[r] = [q EXCEPT !.by = a, !.verifier = v, !.pc = pc]
        BY <1>1, <1>2, <2>1 DEF CodesTypeOK
      <3>2. [q EXCEPT !.by = a, !.verifier = v, !.pc = pc] \in Redemption
        BY DEF Redemption
      <3>3. pc \in {"select", "claim"} /\ (pc = "select" => dialect = "sqlite")
        OBVIOUS
      <3> HIDE DEF pc
      <3>4. /\ requests'[r].by = a /\ requests'[r].verifier = v
            /\ requests'[r].claimed = q.claimed /\ requests'[r].pc = pc
            /\ requests'[r].record = q.record
        BY <3>1 DEF Redemption
      <3> QED BY <3>1, <3>2, <3>3, <3>4
    <2>3. q.claimed = NoOne /\ q.record = NoRow
      BY <1>1, <1>2, <2>1 DEF RequestOK
    <2> QED BY <1>1, <2>1, <2>2, <2>3 DEF RequestOK
  <1>5. CASE ClaimPostgres(r)
    <2>1. CASE Refuse(r)
      BY <1>2, <1>3, <1>5, <2>1 DEF ClaimPostgres
    <2>2. CASE ~Refuse(r)
      <3>1. /\ Redeemable(CodeOf(r)) /\ q.pc = "claim"
            /\ requests' = [requests EXCEPT ![r].claimed = codes[CodeOf(r)].owner,
                                            ![r].pc = "refused"]
        BY <1>2, <1>5, <2>2 DEF ClaimPostgres
      <3>2. auths[codes[CodeOf(r)].owner].pc = "given"
        BY <3>1 DEF Redeemable, CodesInv, RowOK
      <3>3. requests'[r] = [q EXCEPT !.claimed = codes[CodeOf(r)].owner, !.pc = "refused"]
        BY <1>1, <1>2, <3>1 DEF CodesTypeOK
      <3>4. /\ requests'[r].by = q.by /\ requests'[r].verifier = q.verifier
            /\ requests'[r].claimed = codes[CodeOf(r)].owner
            /\ requests'[r].pc = "refused"
        BY <3>3 DEF Redemption
      <3>5. q.by \in Authorizations /\ auths[q.by].pc = "given" /\ q.verifier \in {q.by, NoOne}
        BY <1>1, <1>2, <3>1 DEF RequestOK
      <3> QED BY <1>1, <3>2, <3>4, <3>5 DEF RequestOK
    <2> QED BY <2>1, <2>2
  <1>6. CASE SelectSqlite(r)
    <2>1. CASE Refuse(r)
      BY <1>2, <1>3, <1>6, <2>1 DEF SelectSqlite
    <2>2. CASE ~Refuse(r)
      <3>1. requests' = [requests EXCEPT ![r].pc = "claim"] /\ q.pc = "select"
        BY <1>2, <1>6, <2>2 DEF SelectSqlite
      <3>2. requests'[r] = [q EXCEPT !.pc = "claim"]
        BY <1>1, <1>2, <3>1 DEF CodesTypeOK
      <3>3. PICK n \in Redemption : /\ n = requests'[r] /\ n.by = q.by /\ n.pc = "claim"
                                    /\ n.verifier = q.verifier /\ n.claimed = q.claimed
                                    /\ n.record = q.record
        BY <3>2 DEF Redemption
      <3> QED BY <1>1, <1>2, <3>1, <3>3 DEF RequestOK
    <2> QED BY <2>1, <2>2
  <1>7. CASE ClaimSqlite(r)
    <2>1. CASE Refuse(r)
      BY <1>2, <1>3, <1>7, <2>1 DEF ClaimSqlite
    <2>2. CASE ~Refuse(r)
      <3>1. /\ Unused(CodeOf(r)) /\ dialect = "sqlite" /\ q.pc = "claim"
            /\ requests' = [requests EXCEPT ![r].claimed = codes[CodeOf(r)].owner,
                                            ![r].pc = "reread"]
        BY <1>2, <1>7, <2>2 DEF ClaimSqlite
      <3>2. CodeOf(r) \in Stored /\ RowOK(CodeOf(r))
        BY <3>1 DEF Unused, CodesInv
      <3>3. requests'[r] = [q EXCEPT !.claimed = codes[CodeOf(r)].owner, !.pc = "reread"]
        BY <1>1, <1>2, <3>1 DEF CodesTypeOK
      <3>4. /\ requests'[r].by = q.by /\ requests'[r].verifier = q.verifier
            /\ requests'[r].claimed = codes[CodeOf(r)].owner
            /\ requests'[r].pc = "reread" /\ requests'[r].record = q.record
        BY <3>3 DEF Redemption
      <3>5. CodeOf(r)' = CodeOf(r) /\ codes'[CodeOf(r)].owner = codes[CodeOf(r)].owner
        BY <1>1, <1>2, <3>2, <3>4, MarkedRow DEF CodeOf
      <3>6. /\ q.by \in Authorizations /\ auths[q.by].pc = "given" /\ q.verifier \in {q.by, NoOne}
            /\ q.record = NoRow
        BY <1>1, <1>2, <3>1 DEF RequestOK
      <3>7. auths[codes[CodeOf(r)].owner].pc = "given"
        BY <3>2 DEF RowOK
      <3> QED BY <1>1, <3>1, <3>4, <3>5, <3>6, <3>7 DEF RequestOK
    <2> QED BY <2>1, <2>2
  <1>8. CASE RereadSqlite(r)
    <2>1. CASE CodeOf(r) \notin Stored
      BY <1>2, <1>3, <1>8, <2>1 DEF RereadSqlite
    <2>2. CASE CodeOf(r) \in Stored
      <3>1. /\ q.pc = "reread" /\ dialect = "sqlite"
            /\ requests' = [requests EXCEPT ![r] = Handled(r, codes[CodeOf(r)])]
        BY <1>1, <1>2, <1>8, <2>2 DEF RereadSqlite, RequestOK
      <3>2. PICK row \in Row : row = codes[CodeOf(r)]
        BY <1>1, <2>2 DEF CodesTypeOK, Stored
      <3>3. Proves(row) /\ (row.owner = q.by => q.claimed = q.by)
        BY <1>1, <1>2, <2>2, <3>1, <3>2 DEF CodesInv, RowOK, RequestOK
      <3>4. PICK h \in Redemption :
               /\ h = Handled(r, row) /\ h.record = row /\ h.by = q.by
               /\ h.verifier = q.verifier /\ h.claimed = q.claimed
               /\ h.pc = IF Verified(r, row) THEN "issue" ELSE "refused"
        BY <1>1, <1>2, HandledType
      <3>5. requests'[r] = h
        BY <1>1, <3>1, <3>2, <3>4 DEF CodesTypeOK
      <3>6. q.claimed # NoOne => auths[q.claimed].pc = "given"
        BY <1>1, <1>2 DEF RequestOK
      <3> QED BY <1>1, <1>2, <3>1, <3>3, <3>4, <3>5, <3>6, HandledOK
    <2> QED BY <2>1, <2>2
  <1>9. CASE Issue(r)
    <2>1. PICK pc \in {"answered", "failed"} :
             requests' = [requests EXCEPT ![r].pc = pc] /\ q.pc = "issue"
      BY <1>2, <1>9 DEF Issue
    <2>2. requests'[r] = [q EXCEPT !.pc = pc]
      BY <1>1, <1>2, <2>1 DEF CodesTypeOK
    <2>3. PICK n \in Redemption : /\ n = requests'[r] /\ n.by = q.by /\ n.pc = pc
                                  /\ n.verifier = q.verifier /\ n.claimed = q.claimed
                                  /\ n.record = q.record
      BY <2>2 DEF Redemption
    <2>4. RecordOK(q)
      BY <1>1, <1>2, <2>1 DEF RequestOK
    <2>5. RecordOK(n)'
      BY <1>1, <2>3, <2>4 DEF RecordOK, Proves
    <2> QED BY <1>1, <1>2, <2>1, <2>3, <2>5 DEF RequestOK, RecordOK, Proves
  <1> QED BY <1>4, <1>5, <1>6, <1>7, <1>8, <1>9 DEF Redeem

LEMMA OthersRequestsOK ==
  ASSUME CodesInv, NEW r \in Redemptions, Redeem(r), NEW s \in Redemptions, s # r
  PROVE  RequestOK(s)'
  <1>1. PICK q \in Redemption : q = requests[s] /\ q = requests'[s]
    BY OthersRedeem DEF CodesInv, CodesTypeOK
  <1>2. UNCHANGED <<dialect, auths>> /\ CodeOf(s)' = CodeOf(s) /\ RequestOK(s)
    BY <1>1, RedeemStep DEF CodesInv, CodeOf
  <1>3. CodeOf(s)' \in Stored' =>
           CodeOf(s) \in Stored /\ codes'[CodeOf(s)].owner = codes[CodeOf(s)].owner
    BY <1>2, OthersRedeem, MarkedRow
  <1>4. RecordOK(q) => RecordOK(q)'
    BY <1>2 DEF RecordOK, Proves
  <1> QED BY <1>1, <1>2, <1>3, <1>4 DEF RequestOK, RecordOK, Proves

\* The row of an authorization that nothing excuses is there, and binds what the
\* authorization asked for: unless its own request claimed it, and lost it then.
LEMMA RefusalHasCause ==
  ASSUME CodesInv, NEW r \in Redemptions,
         SelectSqlite(r) \/ ClaimSqlite(r) \/ RereadSqlite(r),
         requests'[r].pc = "refused", Correct(r)'
  PROVE  /\ requests'[r].by = requests[r].by
         /\ \/ requests[r].by \in expired \cup clashed
            \/ ClaimedByOther(r)
            \/ SweptWhileRedeemed(r)'
  <1> DEFINE a == requests[r].by
             c == CodeOf(r)
  <1>1. CodesTypeOK /\ RequestOK(r)
    BY DEF CodesInv
  <1>2. PICK q \in Redemption : q = requests[r]
    BY <1>1 DEF CodesTypeOK
  <1>3. requests[r].pc # "idle" /\ a \in Authorizations /\ auths[a].pc = "given"
    BY <1>1 DEF SelectSqlite, ClaimSqlite, RereadSqlite, RequestOK
  <1>4. Spent(a) => ClaimedByOther(r) \/ q.claimed = a
    BY <1>2 DEF Spent, ClaimedByOther
  <1>5. a \in expired \cup clashed \/ Spent(a) \/ Kept(a)
    BY <1>3 DEF CodesInv, GivenOK
  <1>6. Kept(a) => c \in Stored /\ RowOK(c) /\ codes[c].owner = a
    BY DEF Kept, CodeOf, CodesInv
  <1>7. ASSUME Refuse(r)
        PROVE  /\ requests'[r].by = a /\ requests'[r].claimed = q.claimed
               /\ requests'[r].record = q.record
    <2>1. requests'[r] = [q EXCEPT !.pc = "refused"]
      BY <1>1, <1>2, <1>7 DEF Refuse, CodesTypeOK
    <2> QED BY <1>2, <2>1 DEF Redemption
  <1>8. CASE SelectSqlite(r)
    <2>1. Refuse(r)
      <3>1. requests' # [requests EXCEPT ![r].pc = "claim"]
        BY <1>1 DEF CodesTypeOK, Redemption
      <3> QED BY <1>8, <3>1 DEF SelectSqlite
    <2>2. c \notin Stored \/ codes[c].expired
      <3>1. requests' # [requests EXCEPT ![r].pc = "claim"]
        BY <1>1 DEF CodesTypeOK, Redemption
      <3> QED BY <1>8, <3>1 DEF SelectSqlite
    <2>3. q.claimed = NoOne
      BY <1>1, <1>2, <1>8 DEF SelectSqlite, RequestOK
    <2> QED BY <1>3, <1>4, <1>5, <1>6, <1>7, <2>1, <2>2, <2>3, NullsAreNoValues DEF RowOK
  <1>9. CASE ClaimSqlite(r)
    <2>1. Refuse(r) /\ ~Unused(c)
      <3>1. requests' # [requests EXCEPT ![r].claimed = codes[c].owner, ![r].pc = "reread"]
        BY <1>1 DEF CodesTypeOK, Redemption
      <3> QED BY <1>9, <3>1 DEF ClaimSqlite
    <2>2. q.claimed = NoOne
      BY <1>1, <1>2, <1>9 DEF ClaimSqlite, RequestOK
    <2> QED BY <1>3, <1>4, <1>5, <1>6, <1>7, <2>1, <2>2, NullsAreNoValues DEF RowOK, Unused
  <1>10. CASE RereadSqlite(r)
    <2>1. CASE c \notin Stored
      <3>1. Refuse(r) /\ q.record = NoRow
        BY <1>1, <1>2, <1>10, <2>1 DEF RereadSqlite, RequestOK
      <3> QED BY <1>4, <1>5, <1>6, <1>7, <2>1, <3>1 DEF SweptWhileRedeemed
    <2>2. CASE c \in Stored
      <3>1. PICK row \in Row : row = codes[c] /\ RowOK(c)
        BY <1>1, <2>2 DEF CodesTypeOK, Stored, CodesInv
      <3>2. PICK h \in Redemption :
               /\ h = Handled(r, row) /\ h.record = row /\ h.by = a
               /\ h.client = q.client /\ h.verifier = q.verifier /\ h.claimed = q.claimed
               /\ h.pc = IF Verified(r, row) THEN "issue" ELSE "refused"
        BY <1>1, <1>2, HandledType
      <3>3. requests'[r] = h
        BY <1>1, <1>10, <2>2, <3>1, <3>2 DEF RereadSqlite, CodesTypeOK
      <3>4. /\ ~Verified(r, row) /\ q.client = ClientOf[a]
            /\ q.verifier = a \/ a \notin WithPkce
        BY <3>2, <3>3 DEF Correct
      <3>5. CASE row.owner = a
        <4>1. ~AsSaved(row)
          BY <1>2, <3>4, <3>5 DEF AsSaved, Verified, RowOf
        <4> QED BY <3>1, <3>2, <3>3, <3>5, <4>1 DEF RowOK
      <3>6. CASE row.owner # a
        <4>1. a \in expired \cup clashed \/ ClaimedByOther(r) \/ q.claimed = a
          BY <1>4, <1>5, <1>6, <3>1, <3>6
        <4>2. q.claimed = a => SweptWhileRedeemed(r)'
          BY <3>2, <3>3, <3>6 DEF SweptWhileRedeemed
        <4> QED BY <3>2, <3>3, <4>1, <4>2
      <3> QED BY <3>5, <3>6
    <2> QED BY <2>1, <2>2
  <1> QED BY <1>8, <1>9, <1>10

LEMMA RedeemKeepsCause ==
  ASSUME CodesInv, NEW r \in Redemptions, Redeem(r)
  PROVE  RefusedForCause'
  <1> SUFFICES ASSUME NEW s \in Redemptions, dialect' = "sqlite",
                      requests'[s].pc = "refused", Correct(s)'
               PROVE  Caused(s)'
    BY DEF RefusedForCause
  <1>1. UNCHANGED <<dialect, auths, expired, clashed>>
    BY RedeemStep
  <1>2. PICK q \in Redemption : q = requests[r]
    BY DEF CodesInv, CodesTypeOK
  <1>3. RequestOK(s) /\ RequestOK(r) /\ CodesTypeOK
    BY DEF CodesInv
  <1>4. requests'[s].by = requests[s].by /\ ClaimedByOther(s) => ClaimedByOther(s)'
    <2> SUFFICES ASSUME requests'[s].by = requests[s].by, ClaimedByOther(s)
                 PROVE  ClaimedByOther(s)'
      OBVIOUS
    <2>1. PICK p \in Redemptions \ {s} : requests[p].claimed = requests[s].by
      BY DEF ClaimedByOther
    <2>2. CASE p # r
      BY <2>1, <2>2, OthersRedeem DEF ClaimedByOther
    <2>3. CASE p = r
      <3>1. requests[s] = requests'[s]
        BY <2>1, <2>3, OthersRedeem
      <3>2. requests[s].pc # "idle"
        BY <3>1
      <3>3. requests[s].by # NoOne
        BY <1>3, <3>2, NullsAreNoValues DEF RequestOK
      <3>4. requests'[p].claimed = requests[p].claimed
        BY <2>1, <2>3, <3>3, RedeemClaims DEF Marks
      <3> QED BY <2>1, <3>4 DEF ClaimedByOther
    <2> QED BY <2>2, <2>3
  <1>5. CASE s # r
    <2>1. requests'[s] = requests[s]
      BY <1>5, OthersRedeem
    <2>2. Correct(s)
      BY <2>1 DEF Correct
    <2>3. Caused(s)
      BY <1>1, <2>1, <2>2 DEF CodesInv, RefusedForCause
    <2> QED BY <1>1, <1>4, <2>1, <2>3 DEF Caused, SweptWhileRedeemed
  <1>6. CASE s = r
    <2>1. CASE ClaimPostgres(r)
      BY <1>1, <2>1 DEF ClaimPostgres
    <2>2. CASE \E a \in Authorizations : Present(r, a)
      <3>1. PICK a \in Authorizations : Present(r, a)
        BY <2>2
      <3>2. PICK v \in {a, NoOne} :
               requests' = [requests EXCEPT
                   ![r].by = a, ![r].verifier = v,
                   ![r].pc = IF dialect = "sqlite" THEN "select" ELSE "claim"]
        BY <3>1 DEF Present
      <3>3. requests'[r].pc # "refused"
        <4> DEFINE pc == IF dialect = "sqlite" THEN "select" ELSE "claim"
        <4>1. requests'[r] = [q EXCEPT !.by = a, !.verifier = v, !.pc = pc]
          BY <1>2, <1>3, <3>2 DEF CodesTypeOK
        <4>2. pc # "refused"
          OBVIOUS
        <4> HIDE DEF pc
        <4> QED BY <4>1, <4>2 DEF Redemption
      <3> QED BY <1>6, <3>3
    <2>3. CASE SelectSqlite(r) \/ RereadSqlite(r) \/ ClaimSqlite(r)
      BY <1>1, <1>4, <1>6, <2>3, RefusalHasCause DEF Caused
    <2>4. CASE Issue(r)
      <3>1. PICK pc \in {"answered", "failed"} : requests' = [requests EXCEPT ![r].pc = pc]
        BY <2>4 DEF Issue
      <3>2. requests'[r].pc = pc
        BY <1>2, <1>3, <3>1 DEF CodesTypeOK, Redemption
      <3> QED BY <1>6, <3>2
    <2> QED BY <2>1, <2>2, <2>3, <2>4 DEF Redeem
  <1> QED BY <1>5, <1>6

-----------------------------------------------------------------------------
(* What an authorization and the passing of time leave as it was.          *)

LEMMA CreateKeepsCause ==
  ASSUME CodesInv, NEW a \in Authorizations, Create(a)
  PROVE  ClaimedOnce' /\ RefusedForCause'
  <1>1. UNCHANGED <<dialect, requests, expired>> /\ clashed \subseteq clashed'
    BY CreateStep
  <1> QED
    BY <1>1 DEF CodesInv, ClaimedOnce, RefusedForCause, Correct, Caused, ClaimedByOther, SweptWhileRedeemed

LEMMA ExpireKeeps ==
  ASSUME CodesInv, NEW c \in Codes, ExpireCode(c)
  PROVE  CodesInv'
  <1> DEFINE o == codes[c].owner
  <1>1. CodesTypeOK' /\ CodesTypeOK /\ c \in Stored
    BY ClockTypes DEF CodesInv, ExpireCode
  <1>2. /\ UNCHANGED <<dialect, auths, requests, clashed>>
        /\ expired' = expired \cup {o}
        /\ codes' = [codes EXCEPT ![c].expired = TRUE]
    BY DEF ExpireCode
  <1>3. Stored' = Stored
    BY <1>1, <1>2 DEF CodesTypeOK, Stored
  <1>4. \A d \in Stored :
           /\ codes'[d].owner = codes[d].owner
           /\ codes'[d].client = codes[d].client
           /\ codes'[d].challenge = codes[d].challenge
           /\ codes'[d].used = codes[d].used
           /\ codes'[d].expired => codes[d].expired \/ d = c
    <2> SUFFICES ASSUME NEW d \in Stored
                 PROVE  /\ codes'[d].owner = codes[d].owner
                        /\ codes'[d].client = codes[d].client
                        /\ codes'[d].challenge = codes[d].challenge
                        /\ codes'[d].used = codes[d].used
                        /\ codes'[d].expired => codes[d].expired \/ d = c
      OBVIOUS
    <2>1. PICK row \in Row : row = codes[d]
      BY <1>1 DEF CodesTypeOK, Stored
    <2>2. CASE d = c
      <3>1. codes'[d] = [row EXCEPT !.expired = TRUE]
        BY <1>1, <1>2, <2>1, <2>2 DEF CodesTypeOK, Stored
      <3> QED BY <2>1, <2>2, <3>1 DEF Row
    <2>3. CASE d # c
      BY <1>1, <1>2, <2>3 DEF CodesTypeOK, Stored
    <2> QED BY <2>2, <2>3
  <1>5. \A b : Spent(b)' <=> Spent(b)
    BY <1>2 DEF Spent
  <1>6. ASSUME NEW b \in Authorizations
        PROVE  AuthOK(b)' /\ GivenOK(b)'
    <2>1. AuthOK(b) /\ GivenOK(b)
      BY DEF CodesInv
    <2>2. Kept(b) => Kept(b)'
      BY <1>2, <1>3, <1>4 DEF Kept, RowOf
    <2> QED BY <1>2, <1>5, <2>1, <2>2 DEF AuthOK, GivenOK, KnownChallenge
  <1>7. ASSUME NEW d \in Stored'
        PROVE  RowOK(d)'
    <2>1. RowOK(d) /\ d \in Stored
      BY <1>3, <1>7 DEF CodesInv
    <2> QED BY <1>2, <1>4, <1>5, <2>1 DEF RowOK, Proves, KnownChallenge, AsSaved, RowOf
  <1>8. ASSUME NEW r \in Redemptions
        PROVE  RequestOK(r)'
    <2>1. RequestOK(r) /\ CodeOf(r)' = CodeOf(r)
      BY <1>2 DEF CodesInv, CodeOf
    <2>2. CodeOf(r) \in Stored => codes'[CodeOf(r)].owner = codes[CodeOf(r)].owner
      BY <1>4
    <2> QED BY <1>2, <1>3, <2>1, <2>2 DEF RequestOK, RecordOK
  <1>9. ClaimedOnce' /\ RefusedForCause'
    BY <1>2 DEF CodesInv, ClaimedOnce, RefusedForCause, Correct, Caused, ClaimedByOther, SweptWhileRedeemed
  <1> QED BY <1>1, <1>6, <1>7, <1>8, <1>9 DEF CodesInv

\* The cron job takes expired and used rows only, so that an authorization whose
\* row is gone has expired, met another's, or was claimed.
LEMMA CleanKeeps ==
  ASSUME CodesInv, Clean
  PROVE  CodesInv'
  <1>1. CodesTypeOK' /\ CodesTypeOK
    BY ClockTypes DEF CodesInv
  <1>2. /\ UNCHANGED <<dialect, auths, requests, expired, clashed>>
        /\ Stored' = {d \in Stored : ~Dead(d)}
        /\ \A d \in Stored' : codes'[d] = codes[d]
    BY DEF Clean, Stored
  <1>3. \A b : Spent(b)' <=> Spent(b)
    BY <1>2 DEF Spent
  <1>4. ASSUME NEW b \in Authorizations
        PROVE  AuthOK(b)' /\ GivenOK(b)'
    <2>1. AuthOK(b) /\ GivenOK(b)
      BY DEF CodesInv
    <2>2. Kept(b) => Kept(b)' \/ b \in expired \cup clashed \/ Spent(b)
      <3> SUFFICES ASSUME Kept(b), ~(b \in expired \cup clashed), ~Spent(b)
                   PROVE  Kept(b)'
        OBVIOUS
      <3>1. RowOK(auths[b].code) /\ codes[auths[b].code].owner = b
        BY DEF CodesInv, Kept
      <3>2. ~Dead(auths[b].code)
        BY <3>1 DEF RowOK, Dead
      <3> QED BY <1>2, <3>2 DEF Kept, RowOf
    <2> QED BY <1>2, <1>3, <2>1, <2>2 DEF AuthOK, GivenOK, KnownChallenge
  <1>5. ASSUME NEW d \in Stored'
        PROVE  RowOK(d)'
    <2>1. RowOK(d) /\ codes'[d] = codes[d]
      BY <1>2, <1>5 DEF CodesInv
    <2> QED BY <1>2, <1>3, <2>1 DEF RowOK, Proves, KnownChallenge, AsSaved, RowOf
  <1>6. ASSUME NEW r \in Redemptions
        PROVE  RequestOK(r)'
    <2>1. RequestOK(r) /\ CodeOf(r)' = CodeOf(r)
      BY <1>2 DEF CodesInv, CodeOf
    <2>2. CodeOf(r) \in Stored' =>
             CodeOf(r) \in Stored /\ codes'[CodeOf(r)] = codes[CodeOf(r)]
      BY <1>2
    <2> QED BY <1>2, <2>1, <2>2 DEF RequestOK, RecordOK
  <1>7. ClaimedOnce' /\ RefusedForCause'
    BY <1>2 DEF CodesInv, ClaimedOnce, RefusedForCause, Correct, Caused, ClaimedByOther, SweptWhileRedeemed
  <1> QED BY <1>1, <1>4, <1>5, <1>6, <1>7 DEF CodesInv

LEMMA CreateKeeps ==
  ASSUME CodesInv, NEW a \in Authorizations, Create(a)
  PROVE  CodesInv'
  BY CreateTypes, CreateKeepsAuths, CreateKeepsGiven, CreateKeepsRows,
     CreateKeepsRequests, CreateKeepsCause DEF CodesInv

LEMMA RedeemKeeps ==
  ASSUME CodesInv, NEW r \in Redemptions, Redeem(r)
  PROVE  CodesInv'
  BY RedeemTypes, RedeemKeepsGiven, RedeemKeepsRows, RedeemKeepsOwn,
     OthersRequestsOK, RedeemClaimsOnce, RedeemKeepsCause DEF CodesInv

-----------------------------------------------------------------------------
(* The theorems.                                                           *)

LEMMA InitKeeps ==
  ASSUME CodesInit
  PROVE  CodesInv
  <1>1. CodesTypeOK
    BY InitTypes
  <1>2. Stored = {} /\ \A a \in Authorizations : auths[a].pc = "exists"
    BY DEF CodesInit, Stored
  <1>3. \A r \in Redemptions :
           requests[r].pc = "idle" /\ requests[r].claimed = NoOne
           /\ requests[r].verifier = NoOne /\ requests[r].record = NoRow
    BY DEF CodesInit
  <1>4. \A r \in Redemptions : RequestOK(r)
    BY <1>3 DEF RequestOK
  <1> QED
    BY <1>1, <1>2, <1>3, <1>4
    DEF CodesInv, AuthOK, GivenOK, ClaimedOnce, RefusedForCause

LEMMA StutterKeeps ==
  ASSUME CodesInv, UNCHANGED codesVars
  PROVE  CodesInv'
  <1>1. UNCHANGED <<dialect, codes, auths, requests, expired, clashed>>
    BY DEF codesVars
  <1>2. CodesTypeOK' /\ ClaimedOnce' /\ RefusedForCause'
    BY <1>1 DEF CodesInv, CodesTypeOK, ClaimedOnce, RefusedForCause, Correct, Caused,
                ClaimedByOther, SweptWhileRedeemed, Stored, CodeOf
  <1>3. ASSUME NEW a \in Authorizations
        PROVE  AuthOK(a)' /\ GivenOK(a)'
    <2>1. AuthOK(a) /\ GivenOK(a)
      BY DEF CodesInv
    <2>2. AuthOK(a)'
      BY <1>1, <2>1 DEF AuthOK, KnownChallenge
    <2>3. /\ Spent(a)' <=> Spent(a)
          /\ Kept(a)' <=> Kept(a)
      BY <1>1 DEF Spent, Kept, RowOf, Stored
    <2> QED
      BY <1>1, <2>1, <2>2, <2>3 DEF GivenOK
  <1>4. ASSUME NEW c \in Stored
        PROVE  RowOK(c)'
    <2>1. RowOK(c)
      BY DEF CodesInv
    <2> QED
      BY <1>1, <2>1 DEF RowOK, KnownChallenge, Proves, Spent, AsSaved, RowOf
  <1>5. ASSUME NEW r \in Redemptions
        PROVE  RequestOK(r)'
    BY <1>1 DEF CodesInv, RequestOK, RecordOK, CodeOf, Stored, Proves
  <1> QED
    BY <1>1, <1>2, <1>3, <1>4, <1>5 DEF CodesInv, Stored

\* The invariant that carries the others: what each row, each authorization and
\* each request of createAuthToken and redeemAuthorizationCode may be.
THEOREM Invariant == CodesSpec => []CodesInv
  <1>1. CodesInv /\ [CodesNext]_codesVars => CodesInv'
    <2> SUFFICES ASSUME CodesInv, [CodesNext]_codesVars PROVE CodesInv'
      OBVIOUS
    <2>1. CASE \E a \in Authorizations : Create(a)
      BY <2>1, CreateKeeps
    <2>2. CASE \E r \in Redemptions : Redeem(r)
      BY <2>2, RedeemKeeps
    <2>3. CASE \E c \in Codes : ExpireCode(c)
      BY <2>3, ExpireKeeps
    <2>4. CASE Clean
      BY <2>4, CleanKeeps
    <2>5. CASE UNCHANGED codesVars
      BY <2>5, StutterKeeps
    <2> QED BY <2>1, <2>2, <2>3, <2>4, <2>5 DEF CodesNext
  <1> QED BY <1>1, InitKeeps, PTL DEF CodesSpec

\* Every column and every local variable of the code grant keeps its type.
THEOREM TypeCorrect == CodesSpec => []CodesTypeOK
  <1>1. CodesInv => CodesTypeOK
    BY DEF CodesInv
  <1> QED BY <1>1, Invariant, PTL

\* The code_verifier comparison binds the tokens to the user agent that sent the
\* code_challenge, also when two authorizations drew the same number.
THEOREM ProvesOwnership == CodesSpec => []VerifierProvesOwnership
  <1>1. CodesInv => VerifierProvesOwnership
    <2> SUFFICES ASSUME CodesInv, NEW r \in Redemptions, requests[r].pc = "answered",
                        requests[r].record.owner \in WithPkce
                 PROVE  requests[r].by = requests[r].record.owner
      BY DEF VerifierProvesOwnership
    <2>1. RequestOK(r) /\ RecordOK(requests[r])
      BY DEF CodesInv, RequestOK
    <2> QED
      BY <2>1, PkceIsOptional, NullsAreNoValues DEF RequestOK, RecordOK, Proves
  <1> QED BY <1>1, Invariant, PTL

\* The UPDATE that claims a code lets one request through, and the challenge keeps
\* a row that was replaced from being answered for another: no authorization that
\* sent one is answered twice.
THEOREM AnswersOnce == CodesSpec => []AtMostOnce
  <1>1. CodesInv => AtMostOnce
    <2> SUFFICES ASSUME CodesInv, NEW a \in WithPkce,
                        NEW r \in AnsweredFor(a), NEW q \in AnsweredFor(a)
                 PROVE  r = q
      BY DEF AtMostOnce
    <2>1. ASSUME NEW s \in AnsweredFor(a)
          PROVE  s \in Redemptions /\ requests[s].claimed = a
      <3>1. /\ s \in Redemptions /\ requests[s].pc = "answered"
            /\ requests[s].record.owner = a
        BY <2>1 DEF AnsweredFor
      <3>2. RequestOK(s) /\ RecordOK(requests[s])
        BY <3>1 DEF CodesInv, RequestOK
      <3> QED BY <3>1, <3>2, PkceIsOptional, NullsAreNoValues DEF RequestOK, RecordOK, Proves
    <2>2. r \in Redemptions /\ requests[r].claimed = a
      BY <2>1
    <2>3. q \in Redemptions /\ requests[q].claimed = a
      BY <2>1
    <2>4. a # NoOne
      BY PkceIsOptional, NullsAreNoValues
    <2> QED BY <2>2, <2>3, <2>4 DEF CodesInv, ClaimedOnce
  <1> QED BY <1>1, Invariant, PTL

\* With SQLite no client that presents its own code correctly is refused without a
\* reason, and what the cron job deletes is one only after the request's own UPDATE.
THEOREM RefusesForCause == CodesSpec => []RefusedForCause
  <1>1. CodesInv => RefusedForCause
    BY DEF CodesInv
  <1> QED BY <1>1, Invariant, PTL
=============================================================================
