----------------------------- MODULE TokenFamilies -----------------------------
(***************************************************************************)
(* What the refresh-token store promises its clients, without requests,    *)
(* sessions, time or scopes: tokens are minted in families, a family moves *)
(* forward one token at a time, a token that was exchanged or revoked is   *)
(* never exchangeable again, and a revocation takes every token its        *)
(* families have at that moment.                                           *)
(*                                                                         *)
(* Spend and Succeed are two steps because the code consumes a token and   *)
(* stores its successor in two statements.  So a family may stay without   *)
(* a live token, and a successor may appear after its family was revoked:  *)
(* the store promises no more than that.                                   *)
(***************************************************************************)
CONSTANTS Tokens, NoToken

VARIABLES
    status,     \* of each token: unborn, live, spent (exchanged) or dead (revoked)
    family,     \* the first token of the family it belongs to
    parent      \* the token it was rotated from

vars == <<status, family, parent>>

TypeOK ==
    /\ status \in [Tokens -> {"unborn", "live", "spent", "dead"}]
    /\ family \in [Tokens -> Tokens \cup {NoToken}]
    /\ parent \in [Tokens -> Tokens \cup {NoToken}]

Init ==
    /\ status = [t \in Tokens |-> "unborn"]
    /\ family = [t \in Tokens |-> NoToken]
    /\ parent = [t \in Tokens |-> NoToken]

Mint(t) ==
    /\ status[t] = "unborn"
    /\ status' = [status EXCEPT ![t] = "live"]
    /\ family' = [family EXCEPT ![t] = t]
    /\ UNCHANGED parent

Spend(t) ==
    /\ status[t] = "live"
    /\ status' = [status EXCEPT ![t] = "spent"]
    /\ UNCHANGED <<family, parent>>

Succeed(p, c) ==
    /\ status[p] \in {"spent", "dead"}
    /\ status[c] = "unborn"
    /\ \A t \in Tokens : parent[t] # p
    /\ status' = [status EXCEPT ![c] = "live"]
    /\ family' = [family EXCEPT ![c] = family[p]]
    /\ parent' = [parent EXCEPT ![c] = p]

\* F is a set of families: one of them, or all those of a login session.
Kill(F) ==
    /\ status' = [t \in Tokens |-> IF family[t] \in F THEN "dead" ELSE status[t]]
    /\ UNCHANGED <<family, parent>>

Next ==
    \/ \E t \in Tokens : Mint(t) \/ Spend(t)
    \/ \E p, c \in Tokens : Succeed(p, c)
    \/ \E F \in SUBSET Tokens : Kill(F)

Spec == Init /\ [][Next]_vars

-----------------------------------------------------------------------------
(* What follows for a client, whatever the order of the steps.             *)

\* A family has at most one token that can be exchanged.
OneLive ==
    \A t, u \in Tokens :
        status[t] = "live" /\ status[u] = "live" /\ family[t] = family[u] => t = u

\* No token is revoked beneath one that is not.
DeadUpToRoot ==
    \A t \in Tokens :
        status[t] = "dead" /\ parent[t] # NoToken => status[parent[t]] = "dead"

\* A successor stored after its family was revoked survives the revocation.
Survives(t) ==
    /\ status[t] \in {"live", "spent"}
    /\ parent[t] # NoToken
    /\ status[parent[t]] = "dead"

\* Of a family at most one does, and all its tokens that are not revoked descend
\* from that one.
OneSurvivor ==
    \A t, u \in Tokens :
        Survives(t) /\ Survives(u) /\ family[t] = family[u] => t = u

\* A step never makes a token exchangeable again, never forgets that one was
\* exchanged or revoked, and never moves a token to other relatives.
OnlyForward ==
    \A t \in Tokens :
        /\ status[t] \in {"spent", "dead"} => status'[t] \in {status[t], "dead"}
        /\ status[t] = "live" => status'[t] \in {"live", "spent", "dead"}
        /\ status[t] # "unborn" => family'[t] = family[t] /\ parent'[t] = parent[t]

\* A step that revokes a token revokes all its relatives with it.
WholeFamilies ==
    \A t, u \in Tokens :
        status[t] # "dead" /\ status'[t] = "dead" /\ family[u] = family[t]
            => status'[u] = "dead"
=============================================================================
