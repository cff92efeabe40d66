# TLA+ models of the identity-ghost authorization server

This directory holds TLA+ modules for the parts of the server and of its UI where
the order of steps matters, TLC configurations that check them on small
instances, and proofs (TLAPS) that hold for every instance. All sources named
below are under `src/`.

## 1. Inventory

The server is a NestJS process over a relational database (PostgreSQL in
production, SQLite in tests). Handlers run alone between two `await`s and
interleave at every one; except where a single statement is atomic, nothing is
transactional. Several replicas may share the database, and the cron jobs run in
each. A browser UI (Angular) walks the user through login, consent and session
confirmation, and is also the console in which tenants are administered: it
keeps tokens of its own, loads pages request by request and sends changes whose
answers arrive in any order.

| Component | State | Operations | Hard part | Module |
|---|---|---|---|---|
| Refresh tokens (`auth/refresh-token.service.ts`) | `refresh_tokens`: family, parent, `used_at`, `revoked`, two deadlines | create, consume and rotate, replay, revoke family / by session | races on one token, revocation or logout against a rotation in flight, retries | `TokenLifecycle` |
| Login sessions (`auth/login-session.service.ts`) | `login_sessions`: expiry, invalidated | create, validate, invalidate | checked late in a grant, after writes; over while a page is open | `TokenLifecycle`, `AuthorizeFlow` |
| Revocation, logout (`auth/token-revocation.service.ts`, `controllers/revocation.controller.ts`) | none of its own | revoke, logout | three statements without a transaction | `TokenLifecycle` |
| Token issuance (`auth/token-issuance.service.ts`, `controllers/oauth-token.controller.ts`) | none of its own | the five grants | writes before checks | `TokenLifecycle` (sessions and refresh tokens) |
| Key management (`services/key-management.service.ts`) | `tenant_keys`: version, current, superseded, deactivated | create, rotate, enforce the limit, cron job, sign, publish | rotation in four statements, stale lists, crashes | `KeyRotation` |
| Authorize endpoint, UI conversation (`controllers/oauth-token.controller.ts`, `ui/.../authorize.component.ts`) | cookies `sid`, `flow_id`; URL parameters of each tab | authorize, login, tenant selection, consent, continue, logout, start over | tabs share cookies; one-shot flags; loops | `AuthorizeFlow` |
| Consent (`auth/consent.service.ts`) | `user_consents` | check, grant | read-modify-write | `AuthorizeFlow` |
| Authorization codes (`auth/auth-code.service.ts`) | `auth_code` | create, redeem, cron delete | exists-then-save of a six-digit key, bindings checked after redemption, two dialects | `AuthorizationCodes` |
| Accounts (`services/users.service.ts`, `auth/auth.service.ts`, their controllers) | `users`: address, password, verified, locked; signed links | register, verify, reset, change address, edit, lock, sign in, delete | every change saves a row read before a hash or a mail; links outlive their reason | `Accounts` |
| App subscriptions (`services/app-subscription.service.ts`) | `subscriptions`: PENDING, SUCCESS, FAILED; `user_roles` | subscribe, unsubscribe, delete the application | remote calls between writes, crashes | `Subscriptions` |
| Onboarding (`services/onboarding.service.ts`) | several tables | provision a customer | no transaction in spite of its comment, retries | `Subscriptions` |
| Tenants, members, roles, groups (`services/tenant.service.ts`, `role.service.ts`, `group.service.ts`) | rows, their join tables, `user_roles.from_group` | create, delete, add, remove, assign | one row per user and role with two writers, failures in between | `Directory` |
| Clients and applications (`services/client.service.ts`, `app.service.ts`) | `clients` with a list of secrets, `apps` | create, edit, rotate, delete | two rows without a transaction, whole-row saves | `Clients` |
| Tables of the UI (`component/table`, `component/model`) | rows shown, pages cached, total, filter | ask, scroll, refresh | fetches that overlap | `Tables` |
| Pages and dialogs of the UI (`secure`, `super-admin`, `component/dialogs`) | data shown, dialog, calls in flight | every page and button | what is reloaded after a change, and when | `ConsoleCalls`, `ConsolePages`, `Console` |
| Browser session (`_services/session.service.ts`, `_helpers/auth.interceptor.ts`, `open-pages/oauth-callback.component.ts`) | `sessionStorage` of a tab; the interceptor's flag and queue | sign in, refresh, sign out, reload | refreshes and sign-outs in flight, the callback loaded again | `BrowserSession` |
| Access-token validation, introspection | none | check a signature, claims, the user | reads only | the guard's look at the account, in `Accounts` |
| CORS origins, policies, mail text, logging, discovery, validation, start-up, forms of the open pages, deployment | | | one read, pure output, or run once | not modelled |

How they interact: `authorize` reads the session named by the `sid` cookie and
writes an authorization code that carries the session id; the code grant redeems
the code, validates that session and creates a refresh token that carries it
too; a refresh rotates the token and validates the session again; logout
invalidates the session and revokes its tokens. Every token is signed with the
current key of the tenant and verified with any active one. The directory
decides who may do what; an application belongs to a tenant, owns a client, and
other tenants subscribe to it. The console is a client like any other, whose
page calls all of this.

What makes each component correct, and the lines where it could go wrong, is
listed as `hazards` in `PROJECT.json`.

## 2. Modules

| File | What it is |
|---|---|
| `TokenLifecycle.tla` | refresh tokens, sessions, revocation, logout: tables, requests in flight, properties |
| `TokenFamilies.tla` | abstract specification: what the token store promises |
| `TokenLifecycleProofs.tla` | inductive invariant of `TokenLifecycle` and its theorems |
| `KeyRotation.tla`, `KeyRotationProofs.tla` | the keys of one tenant, calls in flight, signed tokens |
| `KeyRing.tla` | abstract specification: what key management promises signers and verifiers |
| `AuthorizeFlow.tla` | one browser, its tabs and cookies, the authorize endpoint, consents |
| `AuthorizationCodes.tla` | authorization codes from the draw to the redemption |
| `AuthorizationProofs.tla` | inductive invariants and theorems of these two |
| `Accounts.tla`, `AccountsProofs.tla` | user accounts, links and passwords |
| `Subscriptions.tla`, `SubscriptionsProofs.tla` | subscriptions, their web hooks, provisioning |
| `Directory.tla`, `DirectoryProofs.tla` | a tenant from creation to deletion, with members, roles, groups |
| `Clients.tla`, `ClientsProofs.tla` | OAuth clients, their secrets, and applications |
| `Tables.tla` | the list component with its paging cache |
| `ConsoleCalls.tla`, `ConsolePages.tla` | what the console can ask of the server, its dialogs and pages, as data |
| `Console.tla` | one tab of the console; composes the three above |
| `BrowserSession.tla` | the console's sign-in, refreshes and sign-out |
| `ConsoleProofs.tla` | inductive invariants and theorems of `Console` and `BrowserSession` |
| `MC*.tla`, `*.cfg` | finite instances |

A definition called a *faulty form* in its comment is not part of any
specification: put in place of the definition named under `mutants`, it shows
that the property is about the code.

### TokenLifecycle

`rows` and `sessions` are the two tables, as functions on the stored keys;
`requests` holds, for each slot, the position (`pc`) and the locals of one HTTP
request; `now` is the clock, in an abstract unit. One action is the code from one
database statement up to the next await. For `consumeAndRotate`:

| Action | Code |
|---|---|
| `Present` | `findOne` by hash and all checks on the row read; fixes the `now` used later |
| `Consume` | `UPDATE ... WHERE used_at IS NULL` |
| `Confirm` | the re-fetch, then the scope check, which throws after the token was spent |
| `InsertChild` | `save` of the successor; `UNIQUE(parent_id)` makes the second one throw |
| `Replay`, `RevokeFamily` | `handleReplay`: the grace window, or the family's revocation |
| `CheckSession` | what `TokenIssuanceService.refreshToken` does afterwards: `validateSession` |
| `Deliver` | the response, which the client may also lose |

Logout is `Logout`, `InvalidateSession`, `RevokeBySid`, `LookupForRevoke`,
`RevokeFamily`. `Abort` drops a request after any statement: a restart, a failed
statement, or a check over tables outside the model (the user is locked or gone).
A check that throws before the first write changes nothing and is a stuttering
step. A token's row is named by the token itself: the hash is injective for the
model. `sessionDead`, `familyDead` and `lostUpdate` are history: no guard reads
them.

Abstractions: user and tenant of a row are determined by its client
(`TenantOf`), scopes are a set, grants that store no refresh token end at
`SkipToken`. Subscribed users take a copy of the same path
(`issueSubscribedToken`), which has the same steps.

### TokenFamilies

Tokens are unborn, live, spent or dead; they are minted, spent, succeeded and
killed by family. `ImplementsFamilies` states that the two tables, seen through
`StatusOf`, behave so. It deliberately allows a successor to appear in a killed
family, because the code does: see `RevocationIsFinal` under findings. What the
promise is worth to a client is stated beside it: `OneLive`, `DeadUpToRoot`,
`OneSurvivor` (a revocation misses one successor at most), and of steps
`OnlyForward` and `WholeFamilies`.

### KeyRotation

`keys` is the table of one tenant, a function on the versions stored (the key id
is a hash of tenant and version). `tasks` are the calls in flight: `rotateKey`
(`RotateKey`, `Supersede`, `ReadVersion`, `InsertKey`, then `ListActive` and
`Evict` for `enforceMaxKeys`), the cron job (`Sweep`, `Retire`) and a token
request (`ReadSigningKey`, `Sign`). `tokens`, `leftAt` and `crashed` are history.
The JWKS and every verifier accept exactly `Active`. `OverlapIsKept` speaks of every
token: the time stored as `superseded_at` is older than the UPDATE that stores it,
and a signature younger than the read of its key, and the property says that a
token loses at most these two delays (that it loses nothing is
`CronOutwaitsEveryToken`, a finding).

`KeyRing` is what this promises: a key is absent, current, superseded or retired,
and moves in that order; a key is added when none is current and is newer than all
others. `ImplementsKeyRing` states that the table, seen through `PhaseOf`, behaves
so. Its phases are a function on all versions, an infinite set, so it is proved and
not run.

### AuthorizeFlow

The server keeps no conversation. `tabs` holds each tab's page, the parameters
in its URL, the request it has in flight and the locals of its handler; `jar` the
two cookies all tabs share; `sessions` and `consents` the tables. Sessions that
are missing, invalidated or expired answer alike, so one value stands for them.

| Action | Code |
|---|---|
| `AccessDenied`, `ForceLogin`, `RejectPrompt` | `authorize` up to its first await, in the order of its tests |
| `LoginRequired`, `FindSession` | `resolveSession` and what follows when there is none |
| `AskConsent`, `AskConfirm`, `IssueCode` | `checkConsent` and the answer |
| `Fail` | anything thrown: a validation error, shown by the server or sent to the client, or a database error |
| `LogIn`, `AskTenant`, `SelectTenant` | `POST /login`, first and second |
| `SessionInfo` | `fetchSessionInfo`, when a consent or confirm view loads |
| `Continue`, `Logout`, `LogoutUnanswered`, `RefuseLogout` | the confirm view and `POST /logout` |
| `Grant`, `SaveConsent`, `SaveUnanswered`, `SaveRefused`, `Deny`, `RefuseConsent` | the consent view and `POST /consent`; a grant is a read, then a save |
| `Open`, `Abandon`, `StartOver`, `Timeout` | the user, the client, and requests that get no answer |
| `ExpireFlow`, `ExpireSession` | a cookie's or a session's end, and `max_age` |

A request takes along the cookies of the moment it leaves (`sent`); what its
answer sets or clears applies to the jar of the moment it arrives, which the last
step of the server stands for. `Showing` and `Forwarded` are the two ends of a
redirect to the UI: parameters go through, except `prompt=consent` to the consent
view, and the page refuses a view for `prompt=none`. A client is `external` when
consent is asked for (`isFirstParty`); at such a client a member of several
subscribing tenants is asked which one. The default client with a redirect URI
elsewhere, where consent is asked for but never the tenant, is the case of users
with one tenant. An error shown inline on an unchanged view is a stuttering
step. Ids are drawn from those nobody refers to any more, which is what makes
them fresh. `approved`, `present`, `chosen` and `stale` are history.

Not modelled here: reloading a page or going back in the browser, and the
parameters that only pass through (state, nonce, PKCE, resource).

### AuthorizationCodes

`codes` is the table; its key is the code itself, six digits or, when those are
taken, a long random string. `auths` holds the locals of each
`createAuthToken`, `requests` those of each code grant, `dialect` the database
the server runs on. What has passed after five minutes is marked `expired`.

| Action | Code |
|---|---|
| `Exists`, `Lookup`, `Insert`, `Update` | `existByCode`, then `save` of an entity that carries its key: a SELECT, and an INSERT or an UPDATE of the columns in which it differs from the row selected (`Merged`) |
| `Present` | the client (not always the right one) sends a code, with or without a verifier |
| `ClaimPostgres` | the one `UPDATE .. RETURNING`: it marks the row, but the driver answers `[rows, count]`, which the code takes for the rows, so the handler refuses (a finding) |
| `SelectSqlite`, `ClaimSqlite`, `RereadSqlite` | the same in three statements, and the row as it is by then |
| `Handled`, `Refuse`, `Issue` | client, redirect URI and verifier compared after the claim, and the answer |
| `ExpireCode`, `Clean` | time, and the cron job's DELETE |

### Accounts

`users` is the table. A password is named by its hash, and a link by the address
and the hash it is signed with (`Link`), or by the two addresses (`Change`). A
request reads a row (`Find`), works (a hash, a mail), and saves the entity it
read (`Save`): the row becomes that entity, and a row that is gone is inserted
anew. `BeginCreation` and `Insert` are the four ways an account is made. After
them comes, for a registration, the mail, whose failure removes the account
(`Welcome`); for an administrator's creation, the update that verifies it; for a
new member of a tenant (`createShadowUser`) nothing at all; and for an onboarding
a mail whose failure is only logged (`Greet`). `Ask` sends the mail of a change of
address, `Forgot` that of a reset. `BeginLink` and
`BeginMove` are the use of a link that was mailed: a first read by its address,
then `Permit`, which reads by the address again to decide what the bearer may do,
and, for a verification, `Reach`, the third read. `Login` and `Remove` are single
statements. `BeginMine` and `BeginAdmin` start what an owner or an administrator
may ask for. `owner`, `proved`, `shut`, `unmailed`, `removed`,
`crashed` and `overrun` are history; `overrun` holds the accounts some save of
which went over a row that had changed since it was read, `unmailed` those made
for somebody else who was sent no mail.

### Subscriptions

`subs` has at most one subscription for each pair of tenant and application,
`rows` counts the ids drawn. `save` of an entity updates the row with its id,
wherever it is by now, or inserts it (`SaveAs`, `Insertable`). The exceptions are
the row an unsubscribe read, which cannot be inserted because it was read without
its relations, and the delete of a failed row, which compares all columns and may
miss it (`Clear`). `parts` is what the creation of each tenant has stored beside
its row: a client with a key, and an administrator.

| Action | Code |
|---|---|
| `BeginSubscribe`, `Clear`, `CreatePending`, `CallOnboard`, `Finish`, `FailSubscribe` | `subscribeApp` |
| `BeginUnsubscribe`, `LookUnsubscribe`, `CallOffboard`, `NextNamed`, `DropRoles`, `DropSub`, `FailUnsubscribe` | `unsubscribe`, with the applications an offboarding answer names |
| `BeginDelete`, `RemoveApp` | `deleteApp` |
| `BeginOnboard`, `Seek`, `FindUser`, `CreateUser`, `CreateSubscription`, `EnsureMember`, `AssignRoles` | `onboardCustomer`, in its branches |
| `CreateTenant`, `Furnish`, `AddOwner` | the statements of `TenantService.create`, one after the other; without a user, `createTenantWithoutOwner`, which stores the row alone |
| `Break` | a statement of `onboardCustomer` fails; nothing is rolled back |
| `Crash` | the server stops, everywhere at once |

A call of a hook may be answered well, badly, or be lost after it was carried
out. Applications named by an *onboarding* answer are not followed: their owner
is not loaded, the recursion throws, and the subscription fails (a finding).
`acked`, `released`, `missed`, `orphans` and `unfinished` are history: `missed`
holds the provisioning calls whose pair lost its row or roles after they began,
`unfinished` the tenants whose creation stopped half-way or had no user.

### Directory

One tenant. `tenant` has its row, its default client and its first key;
`assigned` is `user_roles`, a function from pairs of user and role to the column
`from_group`; `groupUsers` and `groupRoles` are the join tables of groups.
A request is a sequence of steps, listed at the top of the module; `todo`
carries the pairs a loop has still to write. `Grant`, `Strip` and `Erase` are
the statements of `addRoles` and `removeRoles`, which members' requests and
groups share: a row assigned twice changes its `from_group`, and a removal that
does not find the row with the flag it looks for throws (a finding). `protected`
holds the roles that are not removable, those a creation made; `CreateRole` takes
any free name. `RenameRole` moves a role's rows to another name: what a request
knows by row follows (`Renamed`), what it knows by name does not. `Fail`
stops a request after any statement. `calm` is history: nothing was taken away
or renamed and nothing failed.

### Clients

`clients` and `apps` are the tables, secrets carry the time they still have, and
`Tick` ages them in the tables and in the copies requests hold. `Rotate`,
`Update` read a row, `SaveClient` writes it back. `CreateAppClient`,
`CreateApp`, `Undo` are `createApp` with its compensation; `Rename`,
`FindUris`, `WriteUris`, `SaveApp` are `updateApp`, which changes the client
first; `RemoveApp`, `RemoveAppClient` are `deleteApp`. Every statement may fail
or be the last (`Crash`). `given`, `overrun`, `unsettled` and `abandoned` are
history.

### Tables, ConsoleCalls, ConsolePages, Console

`Tables` is the list component over its `DataModel`: what is shown, the pages
being fetched, the query, the total, the cache. Of a row only its query, its
page number and its freshness are kept. `ConsoleCalls` and `ConsolePages` say,
for each service method, dialog, page and button of the two areas of the
console, which kinds of data it changes, loads or shows, what a dialog does on
success and failure, and what the handler does afterwards: reload the page,
reload a part of it, keep the answer, refresh the table, go elsewhere, or
nothing. A list page has its kinds in `rows` and usually loads nothing else;
`TN01A` also loads the numbers of active keys, once.

`Console` runs them. One kind of data is followed at a time (`kind`), a change on
the server makes what was read before it old, and what is shown, on its way or
cached carries that mark. `runs` are loads of the page, each with its requests and
the numbers of those still unanswered (`rest`); `calls` the changes in flight; both
are kept by an id. `dialog` is the form on top. `Open`,
`Submit`, `Leave`, `Begin`, `Decline`, `Move`, `TableUse` are the user; `ServeRun`,
`ServeCall`, `ServeFetch` the server; `ArriveRun`, `Accepted`, `Rejected`,
`Arrive` answers; `FailRun`, `RefuseCall`, `Drop`, `FailFetch` errors and lost
answers. The server and its answers take their steps at any time, also under an
open dialog (`TableAnswer`). `excused` is set where a page at rest does show less than
the server has: by an act whose page does not load again what it changed
(`Forgets`, the pages of `NeverReload`), and by `Leave` for a value help that put its
own rows over the page's and was cancelled.

### BrowserSession

`tab` is the `sessionStorage` and the running page, `requests` the page's requests,
`cookies` and `server` what a sign-in leaves there. A flow's number stands for
its state, nonce, verifier, code and token family. `Start`, `AskUser`, `Grant`,
`DeclineSignIn`, `Callback`, `Redeem`, `Exchanged` are a sign-in; `AskServer`, `Answer`,
`Rotate`, `Refreshed`, `Hear` the requests through `AuthInterceptor` with its
one refresh and its queue; `Logout`, `SignOut` the end; `Visit`, `LeaveSession`,
`Look`, `Lose`, `Expire`, `Forget` navigation, reloads, lost answers, expired
tokens and cookies. The server's side is abstract: a family rotates by
generation, and a replay revokes it; `TokenLifecycle` has the detail.

## 3. Runs

All twelve pass.

| Run | Instance | Properties |
|---|---|---|
| `races` | 3 tokens, 2 sessions, 1 client, 2 requests, no clock | `TypeOK`, `OneLiveToken`, `NoAnswerAfterLogout`, `RevokedUpToRoot`, `ImplementsFamilies` |
| `grants` | 3 tokens, 1 session, 2 clients, 1 scope, 1 request, clock to 2, grace window 1 | `HardLifetime`, `StaysInGrant` |
| `tasks` | 2 tasks, limit 2, versions to 4, 1 token, clock to 2 | `CurrentKeyIsUsable`, `VersionIsFree`, `KeylessOnlyInRotation`, `OverlapIsKept`, `LimitIsEnforced`, `KeyComesBack` |
| `flow` | 1 tab, 2 users, 2 session and 2 flow ids, 1 expiry, all prompts but `login` | `TypeOK`, `CodeForThePresent`, `EndsAtClient` |
| `tabs` | 2 tabs, 1 user, 3 session and 3 flow ids, 1 expiry, two requests that differ in scope, prompt and `max_age` | `ConsentedCode`, `NoStaleSession` |
| `codes` | 2 authorizations, one with PKCE, of 2 clients; 3 redemptions, one six-digit code, both dialects | `AtMostOnce`, `VerifierProvesOwnership`, `RefusedForCause` |
| `accounts` | 2 accounts, 2 addresses, 2 requests at a time, 5 in all, 3 passwords | `VerifiedWasReached`, `ResetReachesItsOwner`, `OnlyOverlapsLoseWrites`, `InvitedOrVouched` |
| `subscriptions` | 1 tenant, 2 applications, one with a hook, 1 user, 2 requests, 2 rows | `PendingHasAWorker`, `SuccessWasAcknowledged`, `RetryCompletes`, `NoSilentLeave`, `PendingSettles` |
| `tenant_life` | 1 user, 1 group, 3 roles (administrator, viewer, editor), renamed to administrator only, 2 requests | `AdminMeansComplete`, `GrantsReach`, `LeavesWithNothing` |
| `clients` | 2 clients, 2 applications, 2 names, 2 URLs, 3 secrets, overlap 2, 2 requests at a time, 5 in all | `SecretsAsHandedOut`, `AppCanSignIn`, `NoStrayClients` |
| `console` | every page and act, each kind of data, 2 roles, 2 loads, calls or fetches at a time, pages to 2 | `ShowsOwnChanges`, `WholePrefix` |
| `browser` | 1 tab, 2 calls, 2 sign-ins, 2 generations of tokens | `OneExchangePerCode`, `SignOutRevokes` |

What they say. At most one token of a family is live, and logout is final
(`races`). No chain of refreshes outlives its login or leaves its grant
(`grants`). The key that signs is unique, the newest and published; rotations
never collide (`tasks`). A code names whoever is present, and names only what
was consented to (`flow`, `tabs`); it is answered once, to the holder of its
verifier, and refused for a cause (`codes`). A verified address was reached, a
reset link changes its owner's password only, and a lock, a password or a
deletion is undone only by requests that overlapped; a registration leaves no
account that was not told of, while additions to a tenant do (`accounts`). A pending
subscription is being worked on, a success was acknowledged, and a repeated
onboarding completes all but a tenant whose own creation stopped (`subscriptions`). Whoever holds a role that the tenant's
creation made has a complete tenant, groups
reach their users in whatever order they were filled, and a member who leaves
keeps no role but those assigned or renamed meanwhile (`tenant_life`). What the server accepts as a secret is what it
handed out; an application's client knows its URL (`clients`). When all is quiet,
a page of the console shows what the user's own changes made (`console`). A
sign-out that got its answer has ended the sign-in on the server (`browser`).

Many properties excuse a case in which the code really does fail, and say so in
their comment: saves that overlapped (`overrun`), a server that stopped
(`crashed`, `orphans`, `abandoned`), loads that overlapped and pages that do not load
again what they changed (`excused`, `mixed`, read by `Claimed`),
accounts nobody was told of (`unmailed`), rows lost while a call ran (`missed`),
tenants whose creation stopped (`unfinished`).
What is excused is always named by a history variable, set by the very step that
goes wrong, and the disagreements with the documentation among them are findings.

Bounds. Two requests are enough for every pair of operations to interleave, and
the locals of a third are unrelated to either. Three tokens give a root, a
successor and a second successor, or two families of one session. The clock of
`grants` lets every deadline (sliding, absolute, grace, session) pass between two
steps; the races need no clock, since an expiry only ends a request, which
`Abort` does too. In `tasks` two overlapping rotations past a limit of two need
versions up to four, and one token is enough because properties of tokens speak
about each alone. In `tabs` the ids never run out: at most one is held by each
tab and one by the jar. Rows of different users never meet, so the run with two
tabs has one user, and the change of user within a conversation is in `flow`. One
expiry at any moment covers each point at which a cookie or a session may go; a
second one meets a conversation that has already started over.

In `codes` there is one six-digit code, so that authorizations collide as soon as
they draw at once; three redemptions are the owner of each and a retry. In
`accounts` `MaxHashes` and `MaxBegun` bound how many passwords are ever hashed and
requests ever begun: two accounts, and a new password for one, are three hashes,
and five requests are a registration, a link and its use, and two changes that
overlap it. `MaxRows` in `subscriptions` lets the pair be subscribed again after
its row was deleted, so that a late request finds another row than the one it
read. `MaxBegun` in `clients` is two creations, an edit or a rotation that
overlaps another, and a deletion. In `console` `MaxPage` bounds scrolling, and
`RunIds`, `CallIds`, `MaxFetches` and `MaxBusy` what is under way; when all of
`RunIds` are taken a handler's reload does not start, which only a third
overlapping load would meet, and two already end the claim (`Claimed`). `MaxFlows` and
`MaxTokens` in `browser` are the sign-in under way and an earlier or a later one,
and a token that was refreshed once.

Symmetry is used where no definition orders or names the values: tokens,
sessions, requests; tabs; calls; loads; redemptions; accounts and addresses. Deadlock is
not checked where a counter that only grows, or codes and ids that are drawn
once, end a behaviour (`codes`, `accounts`, `clients`, `subscriptions`,
`browser`), and where the system may rest with nothing enabled for the user
(`console`, `tenant_life` after the tenant is deleted).

Each property of a run is broken by a plausible fault of the code, given beside
the operators in the modules (faulty forms) and listed under `mutants`.

Fairness. The safety runs assume none. `KeyComesBack` needs that a call goes on:
`FairSpec` of `KeyRotation` has weak fairness of `Continue`, the steps after a
call's first one, each enabled by an answer of the database. No call is ever
forced to start, and `Abort` may cut any call short; the property then excuses
itself by `crashed`. `EndsAtClient` (`flow`) assumes that requests are answered
(weak fairness of `Server` and `SessionInfo`: handlers end and their answers
arrive), and that a user who meets the same view again and again some time does
what it asks: enters credentials, picks a tenant, continues, decides (strong
fairness, because a request of the user's own leaves the view in between), and
that a grant some time gets its answer through. Nobody has to open, abandon, log
out or deny, and credentials may be wrong any number of times. A conversation
also ends where the code offers no way on: a dead end, or a view that refuses
every attempt inline because its flow or its session is gone (`Stuck`).
`PendingSettles` has weak fairness of `Work(r)`: `fetch` ends in an answer, an
error or a timeout, the database answers, and the event loop runs the handler
on. No request is forced to begin, and `Crash` may stop all of them.

Findings. Those with a property are definitions of the modules that do *not*
hold. Each is stated beside the code it is about and refuted by adding it to the
configuration of a passing run as an INVARIANT: `RevocationIsFinal` and
`LoserGetsNoSuccessor` to `TokenLifecycle_races.cfg`, `RetryGetsTheChild` to
`TokenLifecycle_grants.cfg`, `PublishedUntilExpiry` and `CronOutwaitsEveryToken` to
`KeyRotation_tasks.cfg`, `CodesAreRedeemable` to `AuthorizationCodes_codes.cfg`,
`AdminsCanSign` to `Directory_tenant.cfg`, `CustomersCanSignIn` to
`Subscriptions_subscriptions.cfg`, `NobodyIsLeftOut` to `Accounts_accounts.cfg`,
`GrantsAccumulate` to `AuthorizeFlow_tabs.cfg`, `ChosenTenantReachesCode` to
`AuthorizeFlow_flow.cfg`; and `PromptLoginEnds` as a PROPERTY of the latter with
`Requested <- LoginRequests`. In words: a revocation misses the successor that a
rotation in flight stores after it, and only a logout stops that family; a lost
conditional update is not noticed, so that the unique index is what decides a
race; a retry in the grace window gets its spent token back, not the child;
rotating as often as the limit on active keys unpublishes keys of valid tokens, and
so does the cron job with a token signed while a rotation was at its first statement;
on PostgreSQL no code is ever redeemed; a role named TENANT_ADMIN made by hand gives
a half-made tenant an administrator; a customer provisioned without a user, or by
the retry of a creation that stopped, has no client and no key; an account made for a new member is told of
to nobody;
overlapping grants forget scopes; the tenant selected at login is lost before the
code; and `prompt=login` asks for the login for ever. The others were met while
modelling, and are listed in `PROJECT.json` with the lines that disagree: among
them the row two authorizations share when they draw the same number, the
deletion of a tenant that stops half-way once a group holds a role, stale saves
that undo a lock or a password, the recursion of `subscribe` that always fails,
the roll-back of onboarding that does not exist, the secret that an overlapping
rotation loses, and the refresh that signs a signed-out tab in again.

## 4. Proofs

`tlapm` checks every leaf, and the leaves are small: each is proved in a fifth of
the prover's usual time limit. Nothing is assumed but the ASSUMEs of the modules,
which the runs evaluate: durations and counts are naturals, the null values are
no values, users are no roles (both are what a group's request has still to
write, in one field), and, for keys, that a token lives no longer than the
overlap window (`WindowCoversTokens`, the deployed settings in `srv/envs`).

`TokenLifecycleProofs`. The invariant `IInv` is the conjunction of `TypeOK`;
`RowsOK`, which ties each row to its family's first row (client, session,
deadline, scope within the parent's scope) and each revoked row to its parent;
`OneLeaf`, that a family has at most one row without a child and that every other
row is used or revoked; and `LocalsOK` of each request, which says what a request
at each `pc` knows about the row it read. The properties are not inductive
alone: `OneLiveToken` needs `OneLeaf`, because a successor is stored for a token
consumed by somebody else; `NoAnswerAfterLogout` needs that invalidation is never
undone; `HardLifetime` and `StaysInGrant` need the ties between rows. The step
lemma has one case per action; a table that only grows and only revokes is
captured once (`Grows`).

The same invariant carries the refinement, `StoreImplementsFamilies`. A step that
leaves the tables leaves the families (`SameTable`). Of those that write, creating
a token is `Mint`; the conditional UPDATE is `Spend`, or unseen when the token was
revoked since it was read; the insert of a successor is `Succeed`, whose guard,
that the parent has no child, is the unique index on `parent_id`; and both
revocations are `Kill`. For the one by session id this needs `RowsOK`: a family
has one session, so a session's tokens are whole families.

`TokenFamilies` is small enough to doubt that it promises anything, so the theorems
after the refinement say what follows from its steps alone. `FamiliesInv` ties a
token to its parent and family and says that one token of a family is without a
child: from it `OneLive` and `DeadUpToRoot` follow without a look at the tables.
`SurvivorInv` adds that a revoked token without a child has only revoked relatives
(`DeadEnd`): the successor that a rotation in flight stores beneath it is then the
only one of its family that the revocation missed (`RevocationMissesOneAtMost`).
This bounds the finding `RevocationIsFinal`. `NoTokenComesBack` and
`RevocationTakesTheFamily` carry the two action properties back to the code.

`KeyRotationProofs`. Its `IInv` adds `Exclusive`: a rotation between its UPDATE
and its INSERT and a current key exclude each other, and no two rotations are
there together. From it the computed version is above all stored ones, so the
INSERT succeeds, the key it adds is the newest, and the eviction list of an
earlier rotation cannot contain it. `LimitHolds` counts what is active and on no
eviction list (`Kept`): it is within the limit unless a rotation has inserted its
key and not listed yet (`LimitInv`). A list leaves no more than the limit
(`OverLimitSuffices`, a cardinality argument), whichever rotation makes it, and
carrying it out takes nothing from `Kept`. `CronWaitsForTokens` needs the times in
order (`TimesInv`): a token request finds a key before the UPDATE that supersedes
it, which is where the bound on what a token loses comes from.

`RotationImplementsKeyRing` uses the same `IInv`. The `INSERT` is `Add`, because a
rotation that got so far is alone and there is no current key; the conditional
`UPDATE` is `Supersede` of the only current key, which nobody has retired, or changes
nothing; a deactivation is `Retire`, since no list holds a current key, or unseen
when another call came first. `NoKeyComesBack` follows from `KeyRing` alone.

`AuthorizationProofs`. The `IInv` of `AuthorizeFlow` adds to `TypeOK` that a stored consent names
only approved scopes, that the row a grant has read does too, that a tab past the
lookup of its session was not stale when its request left, and that a code was
preceded by a sufficient consent. Two monotonicity lemmas carry it: grants are
only added to `approved`, and a session that is over, or too old, never becomes
acceptable again while a request that names it is in flight (`FreshSid` draws no
id that is held). Lost updates need no case of their own: a stale row is below
`approved` like any other. `CodesNameThePresent` is about a browser with one tab
(with two it does not hold: the other tab may log in as somebody else between the
address a view shows and Continue); its invariant `PresentOK` follows the user
from the view over the flag `session_confirmed` and the session the request names
to the code.

In `AuthorizationCodes` a row belongs to the authorization that saved it
last. Each authorization saves once, before its code is given out, so an owner
that was replaced never comes back; hence the two reads of a redemption that find
the same owner speak of the same row, and one whose row was replaced between them
compares the bindings of the later owner. `RowOK` ties `used` to a redemption
that claimed the row (`Spent`), `ClaimedOnce` says that no two did, `RecordOK`
what the record in a handler's hands proves, `GivenOK` where the row of an
authorization is as long as nothing excuses its loss. `AtMostOnce` needs the
challenge, and the proof shows where: without one, a row replaced between the
UPDATE and the last SELECT is answered there and redeemed again. All three
properties are about SQLite in effect, since PostgreSQL answers no request.

`SubscriptionsProofs`. Handlers keep the id of a subscription across a call of a
hook, while others change or delete the row. The invariant says that there is a
*log* which gives each id the pair it was created for, the request that created
it and its last status; that only the creator changes a status, once, from
pending; and that each row of the table and each local variable that holds an id
agrees with the log. A save or a delete by id, however late, then hits the row
that was meant, or none, and a row that is written back is one that was
acknowledged before. `TenantsOK` adds that a tenant is whole, has its parts still
to come in some call, or is `unfinished`, which `RetryCompletes` rests on. The step lemmas give the next log (`More`, `Settled`, or the
same), `Follows` and `TableStep` what a step may do, and the locals of the other
requests are carried over once for all (`OthersKept`, `WorkersKept`).
`NoSilentLeave` is an action property proved from the same lemmas.

`AccountsProofs`. A save writes a row that was read before, so the invariant
speaks of the rows that requests hold as well as of the table. Each is its
account's own (`RowOK`): its password was made for the account, and if it is
verified some address of the account answered. What happened to the account since
a row was read shows in the row at the save, which then counts as an overrun;
only the address a request is about to vouch for must still be right at that
point without it, and `Keeps` says that the account has it, or got another one
that was vouched for itself. `Faithful` is the state of an account without
overruns; in it, an account nobody vouched for and nobody mailed is `unmailed` or has
a request that will do either or remove it (`Sponsors`). `Unique` is the unique index on
addresses: without it a save refused for a taken address could lose the vouching.
`Kept` collects what every step leaves alone, so that the other requests' records
are carried over once (`RecordKept`), and each action's lemma is about its own
request and account.

`DirectoryProofs`. Requests speak of each other only through the tables, so each
property has an invariant over the tables and one request at a time, and all
rest on `Shape`, the types with what a request's fields hold at each step.
`Creating` says what is stored by the time a creation gets to a step, and
`Holders` that a row of `user_roles` names a stored role of a stored tenant: a role
that is not removable was made after client and key, and keeps its row when it is
renamed. `Removing` says of a
removal that every role its member still holds is listed to be taken away, is
yet to be listed, or was assigned or renamed after it began. `Meeting` is about groups
filled from both sides at once: a role of the group that a user of it does not
hold yet is being brought (`Brings`) by a request that adds either, and the one
that comes last to its reading of the other list meets what the first stored.

`ClientsProofs`. A request keeps ids and rows across statements while others
delete and store them again. `Ids` says that an application and a client belong
to each other for good, from the draw of their ids on (`Paired`), that ids in
rows, requests and promises were drawn (`Drawn`), that the foreign key holds
(`Referred`), and that nobody else knows an application being created (`Fresh`);
`IdsKept` carries it over any step that begins no request, given where new rows
come from (`RowsFromRequests`). On it rest three invariants, each of one client
or application: `Holding` (no client with an alias loses its last owner without
a mark), `Keeping` (a client has each of its secrets for exactly the time left of
the promise), and `Signing` (how far the only update of an application has
brought its client at each `pc`, and nothing at all once there are two, since
the first to save marks the client). What a save of a whole row, a written
column and a tick do to the tables is stated once (`Saves`, `Writes`, `Ages`).

`ConsoleProofs`. The pages, dialogs and calls reach the table of a list page in
four ways: they bind it anew, make all of it old, take one of its own steps, or
leave it alone (`TableMove`). `Tidy` is `TablesTypeOK` and, as long as no query
overlapped a fetch, `Orderly`: no fetch is in flight and scrolling goes on after
the last row (`Settled`), or one fetch is and it is for the page that comes next
(`Awaits`). TLC refuted an earlier form of `WholePrefix`: there is one total for
all queries, so that a cached page past the end of a longer query, shown under
its own total, counts the page number on; its third disjunct is that case (and a
finding), and `Settled` says how far the number may run ahead. The theorem is for
any number of queries of any length.

`ShowsOwnChanges` rests on `CInv`. A change is *owed* to the page (`Owing`) from the
moment the server makes it, or a value help spoils what is shown, by the call or by
the dialog that shows what was made, until the handler has gone on. As long as
nothing is owed and nothing excuses the page, it shows what the server has, or has
the load in flight that will bring it (`Brings`), and no copy of it is old
(`FreshPage`, `FreshTable`); a page that is stuck or shows itself loading has the
load that frees it (`LoadingOK`); and a form that still hears its answer is the one
on top (`TalkOK`). Paying is a matter of the pages, so that each act of each page
has its case: `Suits` says that what an act changes and its page shows is loaded
again, kept from the answer, or left with the page, `EveryPage` that this is so of
all of them, and `ActsOfOK` carries it over to the one kind that is followed. One
step of a handler (`ThenKeeps`) then pays what its act owes, whoever else owes, or
leaves the rest as it was; a handler that cannot is what `ex` and `NeverReload`
excuse. `TableShowsWholePrefix`'s `Tidy` gives the types of the table, whose own
steps bring nothing old (`StepFresh`). The theorem is for any number of loads, calls
and fetches at a time, where the run has two.

For `BrowserSession` the invariant is `SInv`: the types; `Proper`, what a request
of each kind carries; `Exchanging`, that a flow that may still be redeemed is the
tab's last and was not sent, and that a code under way is alone and its page
shows nothing else; and `Revoking`, that a sign-out answered *ok* names a family
that is revoked. What the handlers of the page may do to the tab is stated once
(`Follows`), since each of them only clears state, stores tokens or moves away.
It holds for any number of sign-ins and of requests at a time, and gives both
`OneExchangePerCode` and `SignOutRevokes`.

Proof modules of small components are shared, and in a shared module two
specifications need different names: hence `CodesSpec`, `SessionSpec` and the like.

Only model-checked: `KeyComesBack`, `EndsAtClient` and `PendingSettles`, which are
liveness and out of the prover's reach. Every safety invariant and action property
of the runs, and the refinements, are proved; so are the type invariants of modules
whose runs do not list them.

## 5. What is left

Not modelled: start-up and migrations (run once, in one sequence, before requests
are served), the cache of CORS origins (one read), the evaluation of permission
rules (the CASL library), mail text and transport, logging, the documents of
discovery and userinfo, validation schemas, the forms of the open pages (one
request each, whose effect is in `Accounts` and `Directory`), tenant settings and
resource counters (single rows), and everything outside server and UI. The notes
of the components in `PROJECT.json` say what is left out of those that are
modelled in part. What `redeemAuthCodePostgres` would do with a driver that answers
rows alone is not modelled: the version the package names answers `[rows, count]`.
