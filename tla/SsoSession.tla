----------------------------- MODULE SsoSession -----------------------------
(***************************************************************************)
(* One user's way through the whole system, in time: GoTrue mints a token, *)
(* the portal keeps it in a cookie, a code carries it to an application,   *)
(* the application checks it once and keeps a cookie of its own.  What the *)
(* token says was read from the tables when it was minted; what happens to *)
(* the tables afterwards reaches the user when these copies run out.       *)
(* How a code is redeemed only once is AuthCode's matter, how the tables   *)
(* change is AdminRoles'.                                                  *)
(***************************************************************************)
EXTENDS Integers

CONSTANTS
  Papeis,         \* papeis of the application, by codigo
  Flows,          \* navigations from a tile to the application's /callback
  JwtExpiry,      \* JWT_EXPIRY of GoTrue
  PortalMaxAge,   \* portal_session_max_age_seconds
  QualidadeMaxAge,\* qualidade_session_max_age_seconds
  CodeTtl,        \* portal_auth_code_ttl_seconds
  MaxTime,        \* bound: the clock stops here
  NoCookie

ASSUME TimesAssumption ==
  /\ JwtExpiry \in Nat /\ PortalMaxAge \in Nat /\ QualidadeMaxAge \in Nat
  /\ CodeTtl \in Nat /\ MaxTime \in Nat
ASSUME NoCookieAssumption ==
  NoCookie \notin [emitido : Nat, token : [iat : Nat, papeis : SUBSET Papeis]]

VARIABLES
  clock,
  concedidos,   \* the papeis of the application the user holds
  ativo,        \* aplicacoes.ativo
  configurado,  \* the application has its row in app_clients
  lastEntitled, \* history: when each papel was last held, with ativo true
  login,        \* POST /login between GoTrue's answer and the portal's
  portal,       \* the portal_session cookie
  tile,         \* a home page shown for the present cookie has the tile
  flow,         \* the navigations: code in the URL, or token fetched
  qualidade     \* the application's cookie; token is history in it

vars == <<clock, concedidos, ativo, configurado, lastEntitled, login, portal,
          tile, flow, qualidade>>

tables == <<concedidos, ativo, configurado>>

Token == [iat : Nat, papeis : SUBSET Papeis]
Cookie == [emitido : Nat, token : Token]
NoToken == [iat |-> 0, papeis |-> {}]
Away == [pc |-> "idle", expira |-> 0, token |-> NoToken]

\* acessos.qualidade, as the hook would put it into a token now.
Entitled == IF ativo THEN concedidos ELSE {}

Init ==
  /\ clock = 0 /\ lastEntitled = [p \in Papeis |-> 0]
  /\ concedidos = {} /\ ativo = TRUE /\ configurado = FALSE
  /\ login = [pc |-> "idle", token |-> NoToken]
  /\ portal = NoCookie /\ qualidade = NoCookie
  /\ tile = FALSE
  /\ flow = [f \in Flows |-> Away]

Tick ==
  /\ clock < MaxTime
  /\ clock' = clock + 1
  /\ lastEntitled' = [p \in Papeis |-> IF p \in Entitled THEN clock' ELSE lastEntitled[p]]
  /\ UNCHANGED <<tables, login, portal, tile, flow, qualidade>>

----------------------------------------------------------------------------
(* The administrators, as far as this user can tell *)

Administer ==
  /\ lastEntitled' = [p \in Papeis |-> IF p \in Entitled \cup Entitled' THEN clock ELSE lastEntitled[p]]
  /\ UNCHANGED <<clock, login, portal, tile, flow, qualidade>>

ConcederOuRevogar(p) ==
  /\ concedidos' = IF p \in concedidos THEN concedidos \ {p} ELSE concedidos \cup {p}
  /\ UNCHANGED <<ativo, configurado>>
  /\ Administer

AtivarOuDesativar == ativo' = ~ativo /\ UNCHANGED <<concedidos, configurado>> /\ Administer

\* A client is configured once; no route deletes its row.
ConfigurarCliente ==
  /\ ~configurado
  /\ configurado' = TRUE
  /\ UNCHANGED <<concedidos, ativo>>
  /\ Administer

----------------------------------------------------------------------------
(* The portal *)

\* Variant: jwt.decode with verify_exp switched off.
SignatureOnly(token) == TRUE

\* jwt.decode refuses exp <= now.
TokenValid(token) == clock < token.iat + JwtExpiry

\* itsdangerous refuses age > max_age.
Fresh(cookie, maxAge) == cookie # NoCookie /\ clock - cookie.emitido <= maxAge

PortalSession == Fresh(portal, PortalMaxAge)
QualidadeSession == Fresh(qualidade, QualidadeMaxAge)

\* password_login: GoTrue runs the hook and mints the token ...
PasswordLogin ==
  /\ login.pc = "idle"
  /\ login' = [pc |-> "minted", token |-> [iat |-> clock, papeis |-> Entitled]]
  /\ UNCHANGED <<clock, tables, lastEntitled, portal, tile, flow, qualidade>>

\* ... its answer is lost, or refused as invalid ...
LoginFail ==
  /\ login.pc = "minted"
  /\ login' = [pc |-> "idle", token |-> NoToken]
  /\ UNCHANGED <<clock, tables, lastEntitled, portal, tile, flow, qualidade>>

\* ... or verified and put into a cookie that counts its age from now.
LoginReply ==
  /\ login.pc = "minted"
  /\ TokenValid(login.token)
  /\ portal' = [emitido |-> clock, token |-> login.token]
  /\ login' = [pc |-> "idle", token |-> NoToken]
  /\ tile' = FALSE
  /\ UNCHANGED <<clock, tables, lastEntitled, flow, qualidade>>

Logout ==
  /\ portal # NoCookie
  /\ portal' = NoCookie
  /\ tile' = FALSE
  /\ UNCHANGED <<clock, tables, lastEntitled, login, flow, qualidade>>

\* Variant: fetch_apps_for_acessos without its join with app_clients.
ActiveTile == portal.token.papeis # {} /\ ativo

\* fetch_apps_for_acessos: acessos, joined with app_clients, where ativo.
HasTile == portal.token.papeis # {} /\ ativo /\ configurado

Home ==
  /\ PortalSession
  /\ tile' = HasTile
  /\ UNCHANGED <<clock, tables, lastEntitled, login, portal, flow, qualidade>>

\* Neither 403 nor 502: authorize asks the cookie and app_clients, not ativo.
AuthorizeSucceeds == portal.token.papeis # {} /\ configurado

Authorize(f) ==
  /\ PortalSession /\ AuthorizeSucceeds
  /\ flow[f].pc = "idle"
  /\ flow' = [flow EXCEPT ![f] =
       [pc |-> "code", expira |-> clock + CodeTtl, token |-> portal.token]]
  /\ UNCHANGED <<clock, tables, lastEntitled, login, portal, tile, qualidade>>

----------------------------------------------------------------------------
(* The application *)

\* exchange_code: the portal returns the token the code was issued with, not a
\* newly minted one.
Exchange(f) ==
  /\ flow[f].pc = "code"
  /\ clock < flow[f].expira
  /\ flow' = [flow EXCEPT ![f].pc = "token"]
  /\ UNCHANGED <<clock, tables, lastEntitled, login, portal, tile, qualidade>>

\* Variant: the cookie is given the whole exchange in place of its token.
CallbackUntyped(f) ==
  /\ flow[f].pc = "token"
  /\ qualidade' = [emitido |-> clock, token |-> flow[f]]
  /\ flow' = [flow EXCEPT ![f] = Away]
  /\ UNCHANGED <<clock, tables, lastEntitled, login, portal, tile>>

\* callback: signature, exp and papeis are checked this once.
Callback(f) ==
  /\ flow[f].pc = "token"
  /\ TokenValid(flow[f].token) /\ flow[f].token.papeis # {}
  /\ qualidade' = [emitido |-> clock, token |-> flow[f].token]
  /\ flow' = [flow EXCEPT ![f] = Away]
  /\ UNCHANGED <<clock, tables, lastEntitled, login, portal, tile>>

\* sem-acesso.html, for whichever reason: expired code or token, network error.
SemAcesso(f) ==
  /\ flow[f].pc # "idle"
  /\ flow' = [flow EXCEPT ![f] = Away]
  /\ UNCHANGED <<clock, tables, lastEntitled, login, portal, tile, qualidade>>

\* area_gerente, with "gerente" for p: the cookie's papeis and nothing newer.
AreaOpen(p) == QualidadeSession /\ p \in qualidade.token.papeis

QualidadeLogout ==
  /\ qualidade # NoCookie
  /\ qualidade' = NoCookie
  /\ UNCHANGED <<clock, tables, lastEntitled, login, portal, tile, flow>>

Next ==
  \/ Tick
  \/ \E p \in Papeis : ConcederOuRevogar(p)
  \/ AtivarOuDesativar \/ ConfigurarCliente
  \/ PasswordLogin \/ LoginFail \/ LoginReply \/ Logout \/ Home
  \/ \E f \in Flows : Authorize(f) \/ Exchange(f) \/ Callback(f) \/ SemAcesso(f)
  \/ QualidadeLogout

Spec == Init /\ [][Next]_vars

----------------------------------------------------------------------------
(* Properties *)

\* Clocks are numbers, tokens are tokens, and each cookie is one or absent.
TypeOK ==
  /\ clock \in Nat /\ lastEntitled \in [Papeis -> Nat]
  /\ concedidos \subseteq Papeis /\ ativo \in BOOLEAN /\ configurado \in BOOLEAN
  /\ login \in [pc : {"idle", "minted"}, token : Token]
  /\ portal \in Cookie \cup {NoCookie}
  /\ qualidade \in Cookie \cup {NoCookie}
  /\ tile \in BOOLEAN
  /\ flow \in [Flows -> [pc : {"idle", "code", "token"}, expira : Nat, token : Token]]

\* Revoking a papel, or deactivating its system, shuts a user out for good after
\* at most the life of a token and that of the cookie made from it, whatever the
\* path by which copies of the token were carried on: through the portal ...
PortalLagIsBounded ==
  PortalSession =>
    \A p \in portal.token.papeis : lastEntitled[p] > clock - JwtExpiry - PortalMaxAge

\* ... and in the application, which starts its own count at the callback and
\* opens the area of one papel to whoever had it then, while another was granted.
QualidadeLagIsBounded ==
  \A p \in Papeis : AreaOpen(p) => lastEntitled[p] > clock - JwtExpiry - QualidadeMaxAge

\* Why: a token tells of a time when the user was entitled, and a cookie was
\* made while its token was valid.
TokenIsTrue(token) == \A p \in token.papeis : token.iat <= lastEntitled[p]
CookieIsTimely(cookie) == cookie # NoCookie => cookie.emitido < cookie.token.iat + JwtExpiry

LagInv ==
  /\ \A p \in Papeis : lastEntitled[p] <= clock
  /\ \A p \in Entitled : lastEntitled[p] = clock
  /\ TokenIsTrue(login.token)
  /\ \A f \in Flows : TokenIsTrue(flow[f].token)
  /\ portal # NoCookie => TokenIsTrue(portal.token)
  /\ qualidade # NoCookie => TokenIsTrue(qualidade.token) /\ qualidade.token.papeis # {}
  /\ CookieIsTimely(portal) /\ CookieIsTimely(qualidade)

\* A tile the user sees never leads to a 502 or a 403 while the cookie it was
\* drawn for lasts, whatever administrators do meanwhile (sql/0005: the join
\* with app_clients is what keeps such tiles off the page).
TileNeverDeadEnds ==
  tile /\ PortalSession => AuthorizeSucceeds
=============================================================================
