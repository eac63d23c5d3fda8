--------------------------- MODULE MCAdminRoles ---------------------------
(* AdminRoles with two users, the portal and one more system.              *)
EXTENDS AdminRoles, TLC

\* The portal's papel 'admin' again, and a papel of another system.
MCNovosPapeis == {n \in [app : Apps, codigo : Codigos] : n.app = Portal <=> n.codigo = Admin}

Symmetry == Permutations(Users) \cup Permutations(Requests)
            \cup Permutations(PapelIds \ {AdminPapel})
=============================================================================
