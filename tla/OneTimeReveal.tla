--------------------------- MODULE OneTimeReveal ---------------------------
(***************************************************************************)
(* What OneTimeSecretCookie promises of new credentials, with no request,  *)
(* no tab and no table: each is made for one browser, is offered to that   *)
(* browser alone, and is offered no more once it has been displayed.       *)
(***************************************************************************)

CONSTANTS Secrets, Browsers, NoSecret, Nobody

VARIABLES
  owner,     \* the browser each secret was made for, or Nobody
  offered,   \* the secret each browser may ask to see, or NoSecret
  displayed  \* the secrets displayed so far

revealVars == <<owner, offered, displayed>>

RevealInit ==
  /\ owner = [s \in Secrets |-> Nobody]
  /\ offered = [b \in Browsers |-> NoSecret]
  /\ displayed = {}

Make(s, b) ==
  /\ owner[s] = Nobody
  /\ owner' = [owner EXCEPT ![s] = b]
  /\ UNCHANGED <<offered, displayed>>

\* Two tabs of one browser share the offer: the later takes the earlier's place.
Offer(s, b) ==
  /\ owner[s] = b
  /\ s \notin displayed
  /\ offered' = [offered EXCEPT ![b] = s]
  /\ UNCHANGED <<owner, displayed>>

\* A secret asked for before another took its place may still be displayed.
Display(s, b) ==
  /\ owner[s] = b
  /\ displayed' = displayed \cup {s}
  /\ offered' = [offered EXCEPT ![b] = NoSecret]
  /\ UNCHANGED owner

\* Its time is over, or the page has nothing to show.
Withdraw(b) ==
  /\ offered' = [offered EXCEPT ![b] = NoSecret]
  /\ UNCHANGED <<owner, displayed>>

RevealNext ==
  \E b \in Browsers :
    \/ Withdraw(b)
    \/ \E s \in Secrets : Make(s, b) \/ Offer(s, b) \/ Display(s, b)

RevealSpec == RevealInit /\ [][RevealNext]_revealVars
=============================================================================
