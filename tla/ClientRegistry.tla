--------------------------- MODULE ClientRegistry ---------------------------
(***************************************************************************)
(* OAuth clients, passwords, and the cookie that shows a new credential    *)
(* once: /admin/sistemas/{id}/cliente (clientes.py), user creation and     *)
(* password reset (usuarios.py), and the flash cookie (_flash.py).         *)
(*                                                                         *)
(* A credential is stored first; its value then travels in the answer to   *)
(* the POST, in the browser's cookie jar, in the GET of the reveal page    *)
(* and back.  The tabs of one browser share one jar and one flash cookie.  *)
(***************************************************************************)
EXTENDS Naturals, FiniteSets

CONSTANTS
  Apps,       \* rows of aplicacoes, none of which is ever deleted
  Users,      \* e-mail addresses, each of one user at most
  Uris,       \* values of the redirect_uri field
  Secrets,    \* bound: values token_urlsafe returns, none of them twice
  Browsers,   \* cookie jars of administrators
  Tabs,       \* their tabs, each with one request at a time
  BrowserOf,  \* the browser of each tab
  Operations, \* what the administrators of a run do, and what goes wrong
  NoClient, NoSenha, NoSecret, NoTarget, NoUri, NoTab

AllOperations == {"configurar", "editar", "regenerar", "criar",
                  "redefinir_senha", "lose", "expire"}

ASSUME RegistryAssumption ==
  /\ BrowserOf \in [Tabs -> Browsers]
  /\ Operations \subseteq AllOperations
  /\ Apps \cap Users = {} /\ NoTarget \notin Apps \cup Users
  /\ NoClient \notin [secret : Secrets, uri : Uris]
  /\ NoSenha \notin Secrets /\ NoSecret \notin Secrets
  /\ NoUri \notin Uris /\ NoTab \notin Tabs \cup Browsers

VARIABLES
  appClients, \* app_clients: secret and redirect_uris[0], or NoClient
  senhas,     \* auth.users: each user's password, NoSenha if there is none
  flash,      \* the flash cookie in each browser, or NoSecret
  tab,        \* each tab: its request, and the page it shows
  drawnBy,    \* history: the tab each secret was drawn for, or NoTab
  shown,      \* history: the secrets displayed so far
  expired     \* history: the secrets whose cookie reached its max_age

vars == <<appClients, senhas, flash, tab, drawnBy, shown, expired>>

Client == [secret : Secrets, uri : Uris]

Idle == [pc |-> "idle", target |-> NoTarget, uri |-> NoUri,
         secret |-> NoSecret, sent |-> NoSecret, page |-> NoSecret]

Init ==
  /\ appClients = [app \in Apps |-> NoClient]
  /\ senhas = [u \in Users |-> NoSenha]
  /\ flash = [b \in Browsers |-> NoSecret]
  /\ tab = [t \in Tabs |-> Idle]
  /\ drawnBy = [s \in Secrets |-> NoTab]
  /\ shown = {} /\ expired = {}

\* Variant: the value is derived from its target, and comes back with it.
DrawsAgain(t, s, target, pc) ==
  /\ drawnBy' = [drawnBy EXCEPT ![s] = t]
  /\ tab' = [tab EXCEPT ![t] = [Idle EXCEPT !.pc = pc, !.target = target, !.secret = s]]
  /\ UNCHANGED <<flash, shown, expired>>

\* The handler draws s and, once it is stored, goes on to the state pc.
Draws(t, s, target, pc) ==
  /\ drawnBy[s] = NoTab
  /\ drawnBy' = [drawnBy EXCEPT ![s] = t]
  /\ tab' = [tab EXCEPT ![t] = [Idle EXCEPT !.pc = pc, !.target = target, !.secret = s]]
  /\ UNCHANGED <<flash, shown, expired>>

----------------------------------------------------------------------------
(* Requests that store a credential *)

\* POST .../cliente/novo does not look whether there is a client already.
Configurar(t, app, uri, s) ==
  /\ "configurar" \in Operations /\ tab[t].pc = "idle"
  /\ Draws(t, s, app, "reply")
  /\ appClients' = [appClients EXCEPT ![app] = [secret |-> s, uri |-> uri]]
  /\ UNCHANGED senhas

\* Variant: the client is not looked up before its secret is replaced.
RegenerarFetchBlind(t, app) ==
  /\ "regenerar" \in Operations /\ tab[t].pc = "idle"
  /\ tab' = [tab EXCEPT ![t] = [Idle EXCEPT !.pc = "upsert", !.target = app]]
  /\ UNCHANGED <<appClients, senhas, flash, drawnBy, shown, expired>>

\* POST .../cliente/regenerar reads the client, 404 if there is none ...
RegenerarFetch(t, app) ==
  /\ "regenerar" \in Operations /\ tab[t].pc = "idle"
  /\ appClients[app] # NoClient
  /\ tab' = [tab EXCEPT ![t] =
       [Idle EXCEPT !.pc = "upsert", !.target = app, !.uri = appClients[app].uri]]
  /\ UNCHANGED <<appClients, senhas, flash, drawnBy, shown, expired>>

\* ... and writes the redirect_uris it read back beside the new secret.
RegenerarUpsert(t, s) ==
  /\ tab[t].pc = "upsert"
  /\ Draws(t, s, tab[t].target, "reply")
  /\ appClients' = [appClients EXCEPT ![tab[t].target] = [secret |-> s, uri |-> tab[t].uri]]
  /\ UNCHANGED senhas

\* Variant: editar goes through set_app_client, with a secret of its own.
EditarUpsert(app, uri) ==
  /\ "editar" \in Operations
  /\ \E s \in Secrets, t \in Tabs :
       /\ drawnBy[s] = NoTab
       /\ drawnBy' = [drawnBy EXCEPT ![s] = t]
       /\ appClients' = [appClients EXCEPT ![app] = [secret |-> s, uri |-> uri]]
  /\ UNCHANGED <<senhas, flash, tab, shown, expired>>

\* POST .../cliente/editar: an update that finds no row changes nothing.
Editar(app, uri) ==
  /\ "editar" \in Operations
  /\ appClients[app] # NoClient
  /\ appClients' = [appClients EXCEPT ![app].uri = uri]
  /\ UNCHANGED <<senhas, flash, tab, drawnBy, shown, expired>>

\* POST /admin/usuarios/novo: the user is created first; papel_inicial, when
\* given, is granted next, and that statement can fail.
CriarUsuario(t, u, s) ==
  /\ "criar" \in Operations /\ tab[t].pc = "idle"
  /\ senhas[u] = NoSenha
  /\ \E next \in {"grant", "reply"} : Draws(t, s, u, next)
  /\ senhas' = [senhas EXCEPT ![u] = s]
  /\ UNCHANGED appClients

GrantPapelInicial(t) ==
  /\ tab[t].pc = "grant"
  /\ tab' = [tab EXCEPT ![t].pc = "reply"]
  /\ UNCHANGED <<appClients, senhas, flash, drawnBy, shown, expired>>

\* POST .../redefinir-senha; when GoTrue refuses, nothing changes.
RedefinirSenha(t, u, s) ==
  /\ "redefinir_senha" \in Operations /\ tab[t].pc = "idle"
  /\ senhas[u] # NoSenha
  /\ Draws(t, s, u, "reply")
  /\ senhas' = [senhas EXCEPT ![u] = s]
  /\ UNCHANGED appClients

\* A statement fails, the worker dies or the answer is lost: what was stored
\* stays, and no cookie is set.
PostFail(t) ==
  /\ "lose" \in Operations
  /\ tab[t].pc \in {"upsert", "grant", "reply"}
  /\ tab' = [tab EXCEPT ![t] = Idle]
  /\ UNCHANGED <<appClients, senhas, flash, drawnBy, shown, expired>>

----------------------------------------------------------------------------
(* The flash cookie and the reveal page *)

\* Variant: one place on the server for the secret to show, not one per browser.
SharedJar(t) == CHOOSE b \in Browsers : TRUE
Jar(t) == BrowserOf[t]

\* redirect_com_segredo: the cookie overwrites the one before.
ReceiveRedirect(t) ==
  /\ tab[t].pc = "reply"
  /\ flash' = [flash EXCEPT ![Jar(t)] = tab[t].secret]
  /\ tab' = [tab EXCEPT ![t].pc = "cookie"]
  /\ UNCHANGED <<appClients, senhas, drawnBy, shown, expired>>

Reveals(t) ==
  /\ tab[t].pc \in {"cookie", "revealed"}
  /\ tab' = [tab EXCEPT ![t] = [@ EXCEPT !.pc = "reveal", !.sent = flash[Jar(t)],
       !.page = NoSecret, !.secret = IF tab[t].pc = "cookie" THEN tab[t].secret ELSE NoSecret]]

\* Variant: the value is used up when it is read, not when it arrives.
RevealConsumes(t) ==
  /\ Reveals(t)
  /\ flash' = [flash EXCEPT ![Jar(t)] = NoSecret]
  /\ UNCHANGED <<appClients, senhas, drawnBy, shown, expired>>

\* GET .../segredo carries the jar's cookie as it is now: after the redirect,
\* or on a refresh, which no longer expects a secret of its own.
RevealRequest(t) ==
  /\ Reveals(t)
  /\ UNCHANGED <<appClients, senhas, flash, drawnBy, shown, expired>>

\* Variant: the page forgets delete_cookie.
RevealKeepsCookie(t) ==
  /\ tab[t].pc = "reveal"
  /\ tab' = [tab EXCEPT ![t] = [@ EXCEPT !.pc = "revealed", !.page = tab[t].sent]]
  /\ shown' = shown \cup ({tab[t].sent} \ {NoSecret})
  /\ UNCHANGED <<appClients, senhas, flash, drawnBy, expired>>

\* The answer shows the secret the request carried, under whatever address,
\* and deletes whatever flash cookie the jar holds by then.
RevealResponse(t) ==
  /\ tab[t].pc = "reveal"
  /\ tab' = [tab EXCEPT ![t] = [@ EXCEPT !.pc = "revealed", !.page = tab[t].sent]]
  /\ shown' = shown \cup ({tab[t].sent} \ {NoSecret})
  /\ flash' = [flash EXCEPT ![Jar(t)] = NoSecret]
  /\ UNCHANGED <<appClients, senhas, drawnBy, expired>>

\* The answer is lost, with its delete_cookie; the page can be asked for again.
RevealLost(t) ==
  /\ "lose" \in Operations
  /\ tab[t].pc = "reveal"
  /\ tab' = [tab EXCEPT ![t] = [@ EXCEPT !.pc = "cookie", !.sent = NoSecret]]
  /\ UNCHANGED <<appClients, senhas, flash, drawnBy, shown, expired>>

\* The tab moves on to other pages.
Leave(t) ==
  /\ tab[t].pc \in {"cookie", "revealed"}
  /\ tab' = [tab EXCEPT ![t] = Idle]
  /\ UNCHANGED <<appClients, senhas, flash, drawnBy, shown, expired>>

\* max_age=300, in the browser and in the signature.
FlashExpires(b) ==
  /\ "expire" \in Operations
  /\ flash[b] # NoSecret
  /\ flash' = [flash EXCEPT ![b] = NoSecret]
  /\ expired' = expired \cup {flash[b]}
  /\ UNCHANGED <<appClients, senhas, tab, drawnBy, shown>>

Next ==
  \/ \E t \in Tabs, app \in Apps, uri \in Uris, s \in Secrets : Configurar(t, app, uri, s)
  \/ \E t \in Tabs, app \in Apps : RegenerarFetch(t, app)
  \/ \E t \in Tabs, s \in Secrets : RegenerarUpsert(t, s)
  \/ \E app \in Apps, uri \in Uris : Editar(app, uri)
  \/ \E t \in Tabs, u \in Users, s \in Secrets : CriarUsuario(t, u, s) \/ RedefinirSenha(t, u, s)
  \/ \E t \in Tabs : GrantPapelInicial(t) \/ PostFail(t)
  \/ \E t \in Tabs :
       \/ ReceiveRedirect(t) \/ RevealRequest(t) \/ RevealResponse(t)
       \/ RevealLost(t) \/ Leave(t)
  \/ \E b \in Browsers : FlashExpires(b)

Spec == Init /\ [][Next]_vars

----------------------------------------------------------------------------
(* Properties *)

Tab == [pc : {"idle", "upsert", "grant", "reply", "cookie", "reveal", "revealed"},
        target : Apps \cup Users \cup {NoTarget}, uri : Uris \cup {NoUri},
        secret : Secrets \cup {NoSecret}, sent : Secrets \cup {NoSecret},
        page : Secrets \cup {NoSecret}]

\* Tables, cookies and tabs hold what they can hold; a regeneration under way
\* knows its client's redirect_uri, an answer under way its secret.
TypeOK ==
  /\ appClients \in [Apps -> Client \cup {NoClient}]
  /\ senhas \in [Users -> Secrets \cup {NoSenha}]
  /\ flash \in [Browsers -> Secrets \cup {NoSecret}]
  /\ tab \in [Tabs -> Tab]
  /\ drawnBy \in [Secrets -> Tabs \cup {NoTab}]
  /\ shown \subseteq Secrets /\ expired \subseteq Secrets
  /\ \A t \in Tabs :
       /\ tab[t].pc = "upsert" => tab[t].target \in Apps /\ tab[t].uri \in Uris
       /\ tab[t].pc \in {"grant", "reply"} => tab[t].secret \in Secrets

\* A displayed secret is in no cookie any more, whatever answers were lost or
\* overtook one another: a refresh never shows it again (OneTimeSecretCookie).
DisplayedIsForgotten == \A b \in Browsers : flash[b] \notin shown

\* No page shows a secret that was drawn by a request from another browser,
\* even when two administrators rotate the same client at the same time.
PageStaysInItsBrowser ==
  \A t \in Tabs : tab[t].page # NoSecret =>
    BrowserOf[drawnBy[tab[t].page]] = BrowserOf[t]

\* A client_secret changes only together with the answer that will show it:
\* correcting a redirect_uri never rotates one (update_app_client_redirect_uris).
RotationsAreAnswered ==
  [][\A app \in Apps :
       LET new == appClients'[app] IN
       /\ new # NoClient
       /\ appClients[app] = NoClient \/ appClients[app].secret # new.secret
       => \E t \in Tabs : tab'[t].pc = "reply" /\ tab'[t].target = app /\ tab'[t].secret = new.secret
    ]_vars

Shows(t) == tab[t].pc = "revealed" /\ tab[t].secret # NoSecret => tab[t].page = tab[t].secret

Lone(t) == \A u \in Tabs \ {t} : BrowserOf[u] # BrowserOf[t]

\* An administrator who works in one tab sees the very secret that was drawn,
\* even after lost answers and retries, unless its five minutes are over.
LoneTabShowsItsSecret ==
  \A t \in Tabs : Lone(t) /\ tab[t].secret \notin expired => Shows(t)

\* A new credential is revealed exactly once, by the page its POST redirects to
\* (redirect_com_segredo); taken without the proviso of a single tab.
EveryRevealShowsItsSecret == \A t \in Tabs : Shows(t)

InForceElsewhere(t) ==
  {appClients[app].secret : app \in {a \in Apps \ {tab[t].target} : appClients[a] # NoClient}}

\* The least of it: a page that fails to show its own secret does not show, under
\* the address of its system, the client_secret of another.
NoRevealOfAnotherSystem ==
  \A t \in Tabs : ~Shows(t) => tab[t].page \notin InForceElsewhere(t)

\* "redirect_uris preservadas - regenerar nao deve mexer nelas".
RegenerarKeepsRedirects ==
  [][\A t \in Tabs :
       tab[t].pc = "upsert" /\ tab'[t].pc = "reply" =>
         appClients'[tab[t].target].uri = appClients[tab[t].target].uri]_vars

\* Seen from outside, storing, redirecting and revealing are the single steps of
\* OneTimeReveal: whatever tabs overlap, a secret is offered only to the browser
\* it was drawn in, and never again once it was displayed.
OneTime == INSTANCE OneTimeReveal WITH
  Nobody <- NoTab,
  owner <- [s \in Secrets |-> IF drawnBy[s] = NoTab THEN NoTab ELSE BrowserOf[drawnBy[s]]],
  offered <- flash,
  displayed <- shown

ImplementsOneTimeReveal == OneTime!RevealSpec

\* Whatever requests overlap, are lost or come in between, what app_clients holds
\* is only ever replaced by a value drawn for that replacement, so that a secret
\* once replaced, or drawn for a password, opens no client again.
Rotating == INSTANCE RotatingSecrets WITH
  inForce <- [app \in Apps |->
    IF appClients[app] = NoClient THEN NoSecret ELSE appClients[app].secret],
  drawn <- {s \in Secrets : drawnBy[s] # NoTab}

ImplementsRotatingSecrets == Rotating!RotationSpec
=============================================================================
