------------------------------- MODULE KeyRing --------------------------------
(***************************************************************************)
(* What key management promises those who sign and verify with a tenant's  *)
(* keys, without calls, statements, limits or time: a key is added as the  *)
(* current one when there is none, newer than all others; it is superseded *)
(* once, and retired, if at all, after that.                               *)
(*                                                                         *)
(* Supersede and Add are two steps because a rotation is two statements:   *)
(* the promise allows a tenant without a current key.                      *)
(***************************************************************************)
EXTENDS Naturals

CONSTANT Versions

VARIABLE phase      \* of each version: absent, current, superseded or retired

Init == phase = [v \in Versions |-> "absent"]

Add(v) ==
    /\ phase[v] = "absent"
    /\ \A u \in Versions : /\ phase[u] # "current"
                           /\ phase[u] # "absent" => u < v
    /\ phase' = [phase EXCEPT ![v] = "current"]

Supersede(v) ==
    /\ phase[v] = "current"
    /\ phase' = [phase EXCEPT ![v] = "superseded"]

Retire(v) ==
    /\ phase[v] = "superseded"
    /\ phase' = [phase EXCEPT ![v] = "retired"]

Next == \E v \in Versions : Add(v) \/ Supersede(v) \/ Retire(v)

Spec == Init /\ [][Next]_phase

-----------------------------------------------------------------------------
(* What follows for a verifier.                                            *)

\* A key that no longer signs never signs again, one that is no longer published
\* never is again, and none disappears: a token that was refused for its key's
\* retirement is refused for good.
NoKeyReturns ==
    \A v \in Versions :
        /\ phase[v] = "retired" => phase'[v] = "retired"
        /\ phase[v] = "superseded" => phase'[v] \in {"superseded", "retired"}
        /\ phase[v] = "current" => phase'[v] \in {"current", "superseded"}
=============================================================================
