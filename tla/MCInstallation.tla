-------------------------- MODULE MCInstallation --------------------------
(* The portal, one seeded application with a client and joao.              *)
EXTENDS Installation

CONSTANTS portal, qualidade

MCApps == {portal, qualidade}
MCSeededBy == [f \in Files |-> CASE f = "admin_role" -> {portal}
                                 [] f = "seed_dev" -> {qualidade}
                                 [] OTHER -> {}]

\* sql/0002 is started again first, at any time; then it may be once more, or any
\* other file that does more than create.
MCRepeated == <<{"hook"}, {"hook", "seed_dev", "admin_role", "profiles"}>>
=============================================================================
