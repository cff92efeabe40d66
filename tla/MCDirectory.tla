------------------------------ MODULE MCDirectory ------------------------------
(* Directory on small sets, for TLC.                                        *)
EXTENDS Directory, TLC

CONSTANTS u1, u2, g1, g2, r1, r2

Interchangeable == Permutations(Users) \cup Permutations(Groups) \cup Permutations(Requests)
=============================================================================
