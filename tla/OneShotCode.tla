---------------------------- MODULE OneShotCode ----------------------------
(***************************************************************************)
(* What the portal promises about an authorization code, with no database, *)
(* no lock and no intermediate step: a code is issued once, for one        *)
(* application; at most one exchange ever spends it, an exchange spends at *)
(* most one code, and neither fact is ever taken back.                     *)
(***************************************************************************)

CONSTANTS Codes, Exchanges, Apps, Unissued

VARIABLES
  issuedFor,   \* the application each code was issued for, or Unissued
  spentBy      \* the exchanges that spent each code: empty or a singleton

oneShotVars == <<issuedFor, spentBy>>

OneShotInit ==
  /\ issuedFor = [c \in Codes |-> Unissued]
  /\ spentBy = [c \in Codes |-> {}]

Issue(c, app) ==
  /\ issuedFor[c] = Unissued
  /\ issuedFor' = [issuedFor EXCEPT ![c] = app]
  /\ UNCHANGED spentBy

Spend(c, x) ==
  /\ issuedFor[c] # Unissued
  /\ spentBy[c] = {}
  /\ \A d \in Codes : x \notin spentBy[d]
  /\ spentBy' = [spentBy EXCEPT ![c] = {x}]
  /\ UNCHANGED issuedFor

OneShotNext ==
  \/ \E c \in Codes, app \in Apps : Issue(c, app)
  \/ \E c \in Codes, x \in Exchanges : Spend(c, x)

OneShotSpec == OneShotInit /\ [][OneShotNext]_oneShotVars

\* A code keeps its application, and an exchange that spent it is never undone
\* nor joined by another.
NeverTakenBack ==
  [][\A c \in Codes :
       /\ issuedFor[c] # Unissued => issuedFor'[c] = issuedFor[c]
       /\ spentBy[c] # {} => spentBy'[c] = spentBy[c]]_oneShotVars
=============================================================================
