--------------------------- MODULE MCTokenLifecycle ---------------------------
(* TokenLifecycle on small sets, for TLC.                                   *)
EXTENDS TokenLifecycle, TLC

CONSTANTS t1, t2, t3, s1, s2, c1, c2, r1, r2, openid, email

ThreeTokens == {t1, t2, t3}
OneSession == {s1}
TwoSessions == {s1, s2}
OneClient == {c1}
TwoClients == {c1, c2}
\* Each client belongs to a tenant of its own.
MCTenantOf == [c \in {c1, c2} |-> c]
OneRequest == {r1}
TwoRequests == {r1, r2}
NoScopes == {}
OneScope == {openid}

Interchangeable ==
    Permutations(Tokens) \cup Permutations(Requests) \cup Permutations(Sessions)
=============================================================================
