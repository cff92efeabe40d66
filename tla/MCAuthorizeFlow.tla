---------------------------- MODULE MCAuthorizeFlow ----------------------------
(* Finite instances of AuthorizeFlow. *)
EXTENDS AuthorizeFlow, TLC

CONSTANTS alice, bob, openid, mail, acme, globex

\* No definition tells two tabs apart.
TabSymmetry == Permutations(Tabs)

OneTenant == [u \in Users |-> {acme}]

\* alice is a member of two subscriber tenants.
MultiTenant == [u \in Users |-> IF u = alice THEN {acme, globex} ELSE {acme}]

Request(prompt, maxAge, scope, external, hint, skipConfirm) ==
    [prompt |-> prompt, maxAge |-> maxAge, scope |-> scope, external |-> external,
     hint |-> hint, skipConfirm |-> skipConfirm]

\* Every prompt but login, with and without confirmation; first party; max_age.
FlowRequests ==
    {Request(p, FALSE, {openid}, TRUE, NoTenant, b) :
        p \in {"absent", "none", "consent"}, b \in BOOLEAN}
      \cup {Request("unsupported", FALSE, {openid}, TRUE, NoTenant, FALSE),
            Request("absent", TRUE, {mail}, TRUE, acme, FALSE),
            Request("absent", FALSE, {openid}, FALSE, NoTenant, FALSE)}

\* Two requests of one client that ask for different scopes.
TabRequests ==
    {Request("absent", TRUE, {mail}, TRUE, NoTenant, FALSE),
     Request("consent", FALSE, {openid}, TRUE, NoTenant, TRUE)}

\* In place of FlowRequests: the request PromptLoginEnds is about.
LoginRequests == {Request("login", FALSE, {openid}, FALSE, NoTenant, FALSE)}
=============================================================================
