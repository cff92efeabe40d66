------------------------------- MODULE MCClients -------------------------------
(* Clients on small sets, for TLC.                                           *)
EXTENDS Clients, TLC

CONSTANTS k1, k2, a1, a2, n1, n2, u1, u2, s1, s2, s3, r1, r2

Symmetry == Permutations({k1, k2}) \cup Permutations({a1, a2})
    \cup Permutations({n1, n2}) \cup Permutations({u1, u2})
    \cup Permutations({s1, s2, s3}) \cup Permutations({r1, r2})
=============================================================================
