---------------------------- MODULE MCAuthCode ----------------------------
(* AuthCode on a small instance: each user may enter one application.      *)
EXTENDS AuthCode, TLC

CONSTANTS qualidade, vendas, gerente, inspetor, c1, c2, s1, s2, s3

MCAcessos == [s \in Sessions |-> IF s = inspetor THEN {qualidade} ELSE {vendas}]

Symmetry == Permutations(TokenReqs) \cup Permutations(AuthorizeReqs)
            \cup Permutations(Codes) \cup Permutations(Secrets)
=============================================================================
