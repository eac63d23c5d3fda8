--------------------------- MODULE MCSsoSession ---------------------------
(* SsoSession with two papeis that no definition tells apart.              *)
EXTENDS SsoSession, TLC

Symmetry == Permutations(Papeis)
=============================================================================
