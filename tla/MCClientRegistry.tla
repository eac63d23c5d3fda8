------------------------- MODULE MCClientRegistry -------------------------
(* Three tabs: two of one administrator's browser, one of another's.       *)
EXTENDS ClientRegistry, TLC

CONSTANTS t1, t2, t3, b1, b2

MCTabs == {t1, t2, t3}
MCBrowsers == {b1, b2}
MCBrowserOf == (t1 :> b1) @@ (t2 :> b1) @@ (t3 :> b2)

\* t1 and t2 belong to the same browser, so they may change places.
Symmetry == Permutations(Secrets) \cup Permutations(Uris) \cup Permutations({t1, t2})
=============================================================================
