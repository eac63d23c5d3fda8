---------------------------- MODULE MCAdminPages ----------------------------
(* AdminPages on a small instance: ana has an account, bia gets one.       *)
EXTENDS AdminPages, TLC

CONSTANTS ana, bia, t1, t2

Symmetry == Permutations(Tabs)
=============================================================================
