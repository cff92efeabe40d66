------------------------------ MODULE MCConsole ------------------------------
(* Console on a small instance, for TLC: two queries, of two pages and of one. *)
EXTENDS Console

MCTotal == [q \in Queries |-> IF q = FirstQuery THEN 2 ELSE 1]

\* Loads and calls in flight are interchangeable.
MCSymmetry == Permutations(RunIds) \cup Permutations(CallIds)
=============================================================================
