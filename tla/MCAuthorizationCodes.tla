------------------------- MODULE MCAuthorizationCodes -------------------------
(* AuthorizationCodes on small sets, for TLC.                               *)
EXTENDS AuthorizationCodes, TLC

CONSTANTS a1, a2, r1, r2, r3, c1, c2, otp, long1, long2

MCClientOf == [a \in {a1, a2} |-> c1]

Interchangeable == Permutations({r1, r2, r3})
=============================================================================
