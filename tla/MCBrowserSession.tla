--------------------------- MODULE MCBrowserSession ---------------------------
(* BrowserSession on small sets, for TLC.                                    *)
EXTENDS BrowserSession, TLC

CONSTANTS c1, c2

Symmetry == Permutations({c1, c2})
=============================================================================
