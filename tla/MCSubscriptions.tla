---------------------------- MODULE MCSubscriptions ----------------------------
(* Subscriptions on small sets, for TLC.                                     *)
EXTENDS Subscriptions, TLC

CONSTANTS t1, hooked, plain, c1, c2, r1, r2
=============================================================================
