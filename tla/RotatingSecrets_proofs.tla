----------------------- MODULE RotatingSecrets_proofs -----------------------
(***************************************************************************)
(* What follows from RotatingSecrets alone, for whatever implements it.    *)
(***************************************************************************)
EXTENDS RotatingSecrets, TLAPS

\* In every behaviour of RotatingSecrets no two applications share a secret.
THEOREM SecretsStayApart ==
  ASSUME NoSecret \notin Secrets
  PROVE  RotationSpec => []SecretsAreApart
<1> DEFINE Domains == inForce \in [Apps -> Secrets \cup {NoSecret}]
<1>1. RotationInit => Domains /\ SecretsAreApart
  BY DEF RotationInit, SecretsAreApart
<1>2. Domains /\ SecretsAreApart /\ [RotationNext]_rotationVars => Domains' /\ SecretsAreApart'
  <2> SUFFICES ASSUME Domains, SecretsAreApart, [RotationNext]_rotationVars
               PROVE  Domains' /\ SecretsAreApart'
    OBVIOUS
  <2>1. CASE UNCHANGED rotationVars
    BY <2>1 DEF rotationVars, SecretsAreApart
  <2>2. ASSUME NEW s \in Secrets, Draw(s) PROVE Domains' /\ SecretsAreApart'
    BY <2>2 DEF Draw, SecretsAreApart
  <2>3. ASSUME NEW s \in Secrets, NEW app \in Apps, Rotate(app, s)
        PROVE  Domains' /\ SecretsAreApart'
    <3>1. Domains' /\ inForce'[app] = s
          /\ \A other \in Apps \ {app} : inForce'[other] = inForce[other]
      BY <2>3 DEF Rotate
    <3>2. \A other \in Apps : inForce[other] # s
      BY <2>3 DEF Rotate, SecretsAreApart
    <3> QED
      BY <2>3, <3>1, <3>2 DEF Rotate, SecretsAreApart
  <2> QED
    BY <2>1, <2>2, <2>3 DEF RotationNext
<1> QED
  BY <1>1, <1>2, PTL DEF RotationSpec

\* Nor does a replaced secret ever come back, or a client lose its own.
THEOREM ReplacedNeverReturns ==
  ASSUME NoSecret \notin Secrets
  PROVE  RotationSpec => ReplacedForGood
<1> DEFINE Domains == inForce \in [Apps -> Secrets \cup {NoSecret}]
           Kept == /\ \A app \in Apps, s \in drawn : inForce[app] # s => inForce'[app] # s
                   /\ \A app \in Apps : inForce[app] # NoSecret => inForce'[app] # NoSecret
<1>1. RotationInit => Domains
  BY DEF RotationInit
<1>2. Domains /\ [RotationNext]_rotationVars => Domains'
  BY DEF RotationNext, Draw, Rotate, rotationVars
<1>3. Domains /\ [RotationNext]_rotationVars => [Kept]_rotationVars
  <2> SUFFICES ASSUME Domains, RotationNext PROVE Kept
    BY DEF rotationVars
  <2>1. ASSUME NEW s \in Secrets, Draw(s) PROVE Kept
    BY <2>1 DEF Draw
  <2>2. ASSUME NEW s \in Secrets, NEW app \in Apps, Rotate(app, s) PROVE Kept
    <3>1. inForce'[app] = s /\ s \notin drawn
          /\ \A other \in Apps \ {app} : inForce'[other] = inForce[other]
      BY <2>2 DEF Rotate
    <3> QED
      BY <3>1
  <2> QED
    BY <2>1, <2>2 DEF RotationNext
<1> QED
  BY <1>1, <1>2, <1>3, PTL DEF RotationSpec, ReplacedForGood
=============================================================================
