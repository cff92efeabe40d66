----------------------------- MODULE MCKeyRotation -----------------------------
(* KeyRotation on small sets, for TLC.                                      *)
EXTENDS KeyRotation, TLC

CONSTANTS k1, k2

TwoTasks == {k1, k2}

Interchangeable == Permutations(Tasks)
=============================================================================
