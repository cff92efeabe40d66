------------------------------- MODULE MCAccounts -------------------------------
(* Accounts on small sets, for TLC.                                          *)
EXTENDS Accounts, TLC

CONSTANTS u1, u2, e1, e2, r1, r2

Interchangeable == Permutations({r1, r2}) \cup Permutations({e1, e2}) \cup Permutations({u1, u2})
=============================================================================
