-------------------------- MODULE RotatingSecrets --------------------------
(***************************************************************************)
(* What app_clients promises of client secrets, with no request and no     *)
(* row: each application authenticates with one secret at a time, and a    *)
(* rotation puts in force one that was never drawn before.                 *)
(***************************************************************************)

CONSTANTS Apps, Secrets, NoSecret

VARIABLES
  inForce,  \* the secret each application authenticates with, or NoSecret
  drawn     \* the secrets drawn so far, for whatever purpose

rotationVars == <<inForce, drawn>>

RotationInit ==
  /\ inForce = [app \in Apps |-> NoSecret]
  /\ drawn = {}

Rotate(app, s) ==
  /\ s \notin drawn
  /\ drawn' = drawn \cup {s}
  /\ inForce' = [inForce EXCEPT ![app] = s]

\* A secret for something else: the password of a user.
Draw(s) ==
  /\ s \notin drawn
  /\ drawn' = drawn \cup {s}
  /\ UNCHANGED inForce

RotationNext ==
  \E s \in Secrets : Draw(s) \/ \E app \in Apps : Rotate(app, s)

RotationSpec == RotationInit /\ [][RotationNext]_rotationVars

----------------------------------------------------------------------------
\* No two applications share a secret, and whatever is in force was drawn.
SecretsAreApart ==
  \A app, other \in Apps : inForce[app] # NoSecret =>
    /\ inForce[app] \in drawn
    /\ inForce[app] = inForce[other] => app = other

\* A secret once replaced, or drawn for something else, is never in force again
\* for any application, and a client once configured keeps having a secret.
ReplacedForGood ==
  [][/\ \A app \in Apps, s \in drawn : inForce[app] # s => inForce'[app] # s
     /\ \A app \in Apps : inForce[app] # NoSecret => inForce'[app] # NoSecret]_rotationVars
=============================================================================
