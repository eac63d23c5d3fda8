------------------------- MODULE SsoSession_proofs -------------------------
(***************************************************************************)
(* How long a revocation can take, for all lifetimes of tokens, cookies    *)
(* and codes and for any number of navigations.                            *)
(***************************************************************************)
EXTENDS SsoSession, TLAPS

\* The type invariant alone is inductive.
LEMMA TypeInit == Init => TypeOK
<1> SUFFICES ASSUME Init PROVE TypeOK
  OBVIOUS
<1>1. NoToken \in Token
  BY DEF NoToken, Token
<1>2. Away \in [pc : {"idle", "code", "token"}, expira : Nat, token : Token]
  BY <1>1 DEF Away
<1> QED
  BY <1>1, <1>2 DEF Init, TypeOK

LEMMA TypeStep == TypeOK /\ [Next]_vars => TypeOK'
<1> SUFFICES ASSUME TypeOK, [Next]_vars PROVE TypeOK'
  OBVIOUS
<1> USE DEF TypeOK, Token, Cookie
<1>1. CASE Tick
  BY <1>1 DEF Tick, tables
<1>2. CASE \/ \E p \in Papeis : ConcederOuRevogar(p)
          \/ AtivarOuDesativar \/ ConfigurarCliente
  <2>1. concedidos' \subseteq Papeis /\ ativo' \in BOOLEAN /\ configurado' \in BOOLEAN
    BY <1>2 DEF ConcederOuRevogar, AtivarOuDesativar, ConfigurarCliente
  <2>2. Administer
    BY <1>2 DEF ConcederOuRevogar, AtivarOuDesativar, ConfigurarCliente
  <2>3. lastEntitled' \in [Papeis -> Nat]
    BY <2>2 DEF Administer
  <2> QED
    BY <2>1, <2>2, <2>3 DEF Administer
<1>3. CASE PasswordLogin \/ LoginFail
  <2>1. [iat |-> clock, papeis |-> Entitled] \in Token
    BY DEF Entitled
  <2>2. NoToken \in Token
    BY DEF NoToken
  <2>3. login' \in [pc : {"idle", "minted"}, token : Token]
    <3> HIDE DEF TypeOK, Token, Cookie
    <3> QED
      BY <1>3, <2>1, <2>2 DEF PasswordLogin, LoginFail
  <2> QED
    BY <1>3, <2>3 DEF PasswordLogin, LoginFail, tables
<1>4. CASE LoginReply
  BY <1>4 DEF LoginReply, tables, NoToken
<1>5. CASE Logout \/ QualidadeLogout
  BY <1>5 DEF Logout, QualidadeLogout, tables
<1>6. CASE Home
  BY <1>6, NoCookieAssumption DEF Home, PortalSession, Fresh, HasTile, tables
<1>7. ASSUME NEW f \in Flows, Authorize(f) \/ Exchange(f) \/ Callback(f) \/ SemAcesso(f)
      PROVE TypeOK'
  <2>1. CASE Authorize(f)
    <3>1. portal \in Cookie
      BY <2>1 DEF Authorize, PortalSession, Fresh
    <3>2. clock + CodeTtl \in Nat
      BY TimesAssumption
    <3> QED
      BY <2>1, <3>1, <3>2 DEF Authorize, tables
  <2>2. CASE Exchange(f)
    BY <2>2 DEF Exchange, tables
  <2>3. CASE Callback(f)
    BY <2>3 DEF Callback, tables, Away, NoToken
  <2>4. CASE SemAcesso(f)
    BY <2>4 DEF SemAcesso, tables, Away, NoToken
  <2> QED
    BY <1>7, <2>1, <2>2, <2>3, <2>4
<1>8. CASE UNCHANGED vars
  BY <1>8 DEF vars, tables
<1> QED
  BY <1>1, <1>2, <1>3, <1>4, <1>5, <1>6, <1>7, <1>8 DEF Next

----------------------------------------------------------------------------
(* The chain of copies *)

LEMMA LagInit == Init => LagInv
BY DEF Init, LagInv, TokenIsTrue, CookieIsTimely, NoToken, Away, Entitled

\* Nobody's last entitlement lies ahead of the clock or is ever moved back.
EntitlementOK ==
  /\ \A p \in Papeis : lastEntitled[p] <= clock
  /\ \A p \in Entitled : lastEntitled[p] = clock

Grows == \A p \in Papeis : lastEntitled[p] <= lastEntitled'[p]

LEMMA EntitlementStep ==
  ASSUME TypeOK, LagInv, [Next]_vars
  PROVE  EntitlementOK' /\ Grows
<1>1. /\ lastEntitled \in [Papeis -> Nat] /\ clock \in Nat
      /\ Entitled \subseteq Papeis /\ EntitlementOK
  BY DEF TypeOK, Entitled, EntitlementOK, LagInv
<1>2. Entitled' \subseteq Papeis
  BY TypeStep DEF TypeOK, Entitled
<1>3. CASE Tick
  <2>1. Entitled' = Entitled
    BY <1>3 DEF Tick, tables, Entitled
  <2> QED
    BY <1>1, <1>3, <2>1 DEF Tick, EntitlementOK, Grows
<1>4. CASE Administer
  BY <1>1, <1>2, <1>4 DEF Administer, EntitlementOK, Grows
<1>5. CASE UNCHANGED <<clock, tables, lastEntitled>>
  <2>1. Entitled' = Entitled
    BY <1>5 DEF tables, Entitled
  <2> QED
    BY <1>1, <1>5, <2>1 DEF EntitlementOK, Grows
<1> QED
  BY <1>3, <1>4, <1>5
  DEF Next, vars, tables, ConcederOuRevogar, AtivarOuDesativar, ConfigurarCliente, PasswordLogin,
      LoginFail, LoginReply, Logout, Home, Authorize, Exchange, Callback, SemAcesso, QualidadeLogout

\* Tokens and cookies that an action leaves alone stay true and timely, since
\* lastEntitled only grows.
LEMMA CopiesPersist ==
  ASSUME TypeOK, LagInv, lastEntitled' \in [Papeis -> Nat], Grows
  PROVE  /\ login' = login => TokenIsTrue(login.token)'
         /\ \A f \in Flows : flow'[f] = flow[f] => TokenIsTrue(flow[f].token)'
         /\ portal' = portal => (portal # NoCookie => TokenIsTrue(portal.token))' /\ CookieIsTimely(portal)'
         /\ qualidade' = qualidade =>
              /\ (qualidade # NoCookie => TokenIsTrue(qualidade.token) /\ qualidade.token.papeis # {})'
              /\ CookieIsTimely(qualidade)'
<1>1. \A f \in Flows : flow[f].token.iat \in Nat /\ flow[f].token.papeis \subseteq Papeis
  BY DEF TypeOK, Token
<1>2. /\ login.token.iat \in Nat /\ login.token.papeis \subseteq Papeis
      /\ portal # NoCookie => portal.token.iat \in Nat /\ portal.token.papeis \subseteq Papeis
      /\ qualidade # NoCookie =>
           qualidade.token.iat \in Nat /\ qualidade.token.papeis \subseteq Papeis
  BY DEF TypeOK, Cookie, Token
<1>3. lastEntitled \in [Papeis -> Nat]
  BY DEF TypeOK
<1>4. login' = login => TokenIsTrue(login.token)'
  BY <1>2, <1>3 DEF LagInv, TokenIsTrue, Grows
<1>5. ASSUME NEW f \in Flows, flow'[f] = flow[f] PROVE TokenIsTrue(flow[f].token)'
  BY <1>1, <1>3, <1>5 DEF LagInv, TokenIsTrue, Grows
<1>6. portal' = portal => (portal # NoCookie => TokenIsTrue(portal.token))' /\ CookieIsTimely(portal)'
  BY <1>2, <1>3 DEF LagInv, TokenIsTrue, Grows, CookieIsTimely
<1>7. qualidade' = qualidade =>
        /\ (qualidade # NoCookie => TokenIsTrue(qualidade.token) /\ qualidade.token.papeis # {})'
        /\ CookieIsTimely(qualidade)'
  BY <1>2, <1>3 DEF LagInv, TokenIsTrue, Grows, CookieIsTimely
<1> QED
  BY <1>4, <1>5, <1>6, <1>7

LEMMA LagStep == TypeOK /\ LagInv /\ [Next]_vars => LagInv'
<1> SUFFICES ASSUME TypeOK, LagInv, [Next]_vars PROVE LagInv'
  OBVIOUS
<1>1. TypeOK'
  BY TypeStep
<1>2. EntitlementOK' /\ Grows /\ lastEntitled' \in [Papeis -> Nat]
  BY <1>1, EntitlementStep DEF TypeOK
<1>3. /\ login' = login => TokenIsTrue(login.token)'
      /\ \A f \in Flows : flow'[f] = flow[f] => TokenIsTrue(flow[f].token)'
      /\ portal' = portal => (portal # NoCookie => TokenIsTrue(portal.token))' /\ CookieIsTimely(portal)'
      /\ qualidade' = qualidade =>
           /\ (qualidade # NoCookie => TokenIsTrue(qualidade.token) /\ qualidade.token.papeis # {})'
           /\ CookieIsTimely(qualidade)'
  BY <1>2, CopiesPersist
<1>4. CASE UNCHANGED <<login, portal, flow, qualidade>>
  BY <1>2, <1>3, <1>4 DEF LagInv, EntitlementOK
<1>5. CASE PasswordLogin
  <2>1. login'.token = [iat |-> clock, papeis |-> Entitled] /\ lastEntitled' = lastEntitled
    BY <1>5 DEF PasswordLogin
  <2>2. \A p \in Entitled : clock <= lastEntitled[p]
    <3>1. clock \in Nat /\ \A p \in Entitled : lastEntitled[p] = clock
      BY DEF LagInv, TypeOK
    <3> QED
      BY <3>1
  <2>3. TokenIsTrue(login.token)'
    BY <2>1, <2>2 DEF TokenIsTrue
  <2> QED
    BY <1>2, <1>3, <1>5, <2>3 DEF LagInv, EntitlementOK, PasswordLogin
<1>6. CASE LoginFail
  <2>1. TokenIsTrue(login.token)'
    BY <1>6 DEF LoginFail, TokenIsTrue, NoToken
  <2> QED
    BY <1>2, <1>3, <1>6, <2>1 DEF LagInv, EntitlementOK, LoginFail
<1>7. CASE LoginReply
  <2>1. TokenIsTrue(login.token)'
    BY <1>7 DEF LoginReply, TokenIsTrue, NoToken
  <2>2. TokenIsTrue(portal.token)'
    BY <1>7 DEF LoginReply, TokenIsTrue, LagInv
  <2>3. CookieIsTimely(portal)'
    BY <1>7 DEF LoginReply, CookieIsTimely, TokenValid
  <2> QED
    BY <1>2, <1>3, <1>7, <2>1, <2>2, <2>3 DEF LagInv, EntitlementOK, LoginReply
<1>8. CASE Logout
  BY <1>2, <1>3, <1>8 DEF LagInv, EntitlementOK, Logout, CookieIsTimely
<1>9. CASE QualidadeLogout
  BY <1>2, <1>3, <1>9 DEF LagInv, EntitlementOK, QualidadeLogout, CookieIsTimely
<1>10. ASSUME NEW f \in Flows, Authorize(f) \/ Exchange(f) \/ SemAcesso(f) \/ Callback(f)
       PROVE  LagInv'
  <2>1. \A g \in Flows \ {f} : flow'[g] = flow[g]
    BY <1>10 DEF Authorize, Exchange, SemAcesso, Callback, TypeOK
  <2>2. CASE Authorize(f)
    <3>1. portal # NoCookie /\ flow'[f].token = portal.token /\ lastEntitled' = lastEntitled
      BY <2>2 DEF Authorize, PortalSession, Fresh, TypeOK
    <3>2. TokenIsTrue(flow[f].token)'
      BY <3>1 DEF LagInv, EntitlementOK, TokenIsTrue
    <3> QED
      BY <1>2, <1>3, <2>1, <2>2, <3>2 DEF LagInv, EntitlementOK, Authorize
  <2>3. CASE Exchange(f)
    <3>1. flow'[f].token = flow[f].token /\ lastEntitled' = lastEntitled
      BY <2>3 DEF Exchange, TypeOK
    <3>2. TokenIsTrue(flow[f].token)'
      BY <3>1 DEF LagInv, EntitlementOK, TokenIsTrue
    <3> QED
      BY <1>2, <1>3, <2>1, <2>3, <3>2 DEF LagInv, EntitlementOK, Exchange
  <2>4. ASSUME SemAcesso(f) \/ Callback(f) PROVE TokenIsTrue(flow[f].token)'
    BY <2>4 DEF SemAcesso, Callback, Away, NoToken, TokenIsTrue, TypeOK
  <2>5. CASE SemAcesso(f)
    BY <1>2, <1>3, <2>1, <2>4, <2>5 DEF LagInv, EntitlementOK, SemAcesso
  <2>6. CASE Callback(f)
    <3>1. TokenIsTrue(qualidade.token)' /\ qualidade'.token.papeis # {}
      BY <2>6 DEF Callback, TokenIsTrue, LagInv
    <3>2. CookieIsTimely(qualidade)'
      BY <2>6 DEF Callback, CookieIsTimely, TokenValid
    <3> QED
      BY <1>2, <1>3, <2>1, <2>4, <2>6, <3>1, <3>2 DEF LagInv, EntitlementOK, Callback
  <2> QED
    BY <1>10, <2>2, <2>3, <2>5, <2>6
<1> QED
  BY <1>4, <1>5, <1>6, <1>7, <1>8, <1>9, <1>10
  DEF Next, vars, Tick, ConcederOuRevogar, AtivarOuDesativar, ConfigurarCliente, Administer, Home

\* What any copy of a token says was true when that token was minted, and each
\* cookie was made from a token still valid.
THEOREM LagInvariant == Spec => [](TypeOK /\ LagInv)
<1>1. Init => TypeOK /\ LagInv
  BY TypeInit, LagInit
<1>2. TypeOK /\ LagInv /\ [Next]_vars => (TypeOK /\ LagInv)'
  BY TypeStep, LagStep
<1> QED
  BY <1>1, <1>2, PTL DEF Spec

\* Cookies, tokens and clocks stay well typed.
THEOREM SessionTypeCorrect == Spec => []TypeOK
BY LagInvariant, PTL

\* A cookie of some age, and the token in it: the sum of two lifetimes.
LEMMA CookieLag ==
  ASSUME TypeOK, NEW cookie \in Cookie, NEW maxAge \in Nat, NEW p \in cookie.token.papeis,
         TokenIsTrue(cookie.token), cookie.emitido < cookie.token.iat + JwtExpiry,
         clock - cookie.emitido <= maxAge
  PROVE  lastEntitled[p] > clock - JwtExpiry - maxAge
<1>1. cookie.token.iat <= lastEntitled[p]
  BY DEF TokenIsTrue
<1>2. cookie.emitido \in Nat /\ cookie.token.iat \in Nat /\ p \in Papeis
  BY DEF Cookie, Token
<1>3. clock \in Nat /\ lastEntitled[p] \in Nat
  BY <1>2 DEF TypeOK
<1> DEFINE e == cookie.emitido
           i == cookie.token.iat
           last == lastEntitled[p]
<1>4. /\ e \in Nat /\ i \in Nat /\ last \in Nat /\ i <= last
      /\ e < i + JwtExpiry /\ clock - e <= maxAge
  BY <1>1, <1>2, <1>3
<1> HIDE DEF e, i, last
<1>5. last > clock - JwtExpiry - maxAge
  BY <1>3, <1>4, TimesAssumption
<1> QED
  BY <1>5 DEF last

LEMMA LagBounds == TypeOK /\ LagInv => PortalLagIsBounded /\ QualidadeLagIsBounded
<1> SUFFICES ASSUME TypeOK, LagInv PROVE PortalLagIsBounded /\ QualidadeLagIsBounded
  OBVIOUS
<1>1. PortalLagIsBounded
  <2> SUFFICES ASSUME PortalSession, NEW p \in portal.token.papeis
               PROVE  lastEntitled[p] > clock - JwtExpiry - PortalMaxAge
    BY DEF PortalLagIsBounded
  <2>1. portal \in Cookie /\ clock - portal.emitido <= PortalMaxAge
    BY DEF PortalSession, Fresh, TypeOK
  <2>2. TokenIsTrue(portal.token) /\ portal.emitido < portal.token.iat + JwtExpiry
    BY DEF PortalSession, Fresh, LagInv, CookieIsTimely
  <2> QED
    BY <2>1, <2>2, CookieLag, TimesAssumption
<1>2. QualidadeLagIsBounded
  <2> SUFFICES ASSUME NEW p \in Papeis, AreaOpen(p)
               PROVE  lastEntitled[p] > clock - JwtExpiry - QualidadeMaxAge
    BY DEF QualidadeLagIsBounded
  <2>1. /\ qualidade \in Cookie /\ clock - qualidade.emitido <= QualidadeMaxAge
        /\ p \in qualidade.token.papeis
    BY DEF AreaOpen, QualidadeSession, Fresh, TypeOK
  <2>2. TokenIsTrue(qualidade.token) /\ qualidade.emitido < qualidade.token.iat + JwtExpiry
    BY DEF AreaOpen, QualidadeSession, Fresh, LagInv, CookieIsTimely
  <2> QED
    BY <2>1, <2>2, CookieLag, TimesAssumption
<1> QED
  BY <1>1, <1>2

\* A revocation or a deactivation shuts the portal's checks within the life of
\* a token and that of the portal's cookie, whatever these are configured to.
THEOREM PortalLag == Spec => []PortalLagIsBounded
BY LagInvariant, LagBounds, PTL

\* The application honours a revoked role no longer than the life of a token
\* and of its own cookie, whatever these are configured to.
THEOREM QualidadeLag == Spec => []QualidadeLagIsBounded
BY LagInvariant, LagBounds, PTL

----------------------------------------------------------------------------
(* Tiles *)

\* A tile on the page was drawn for the present cookie when the client was
\* already configured, and both are still so.
TileInv == tile => portal # NoCookie /\ AuthorizeSucceeds

LEMMA TileStep == TypeOK /\ TileInv /\ [Next]_vars => TileInv'
<1> SUFFICES ASSUME TypeOK, TileInv, [Next]_vars PROVE TileInv'
  OBVIOUS
<1> USE DEF TileInv, AuthorizeSucceeds
<1>1. CASE LoginReply \/ Logout
  BY <1>1 DEF LoginReply, Logout
<1>2. CASE Home
  BY <1>2 DEF Home, HasTile, PortalSession, Fresh, tables
<1>3. CASE ConfigurarCliente
  BY <1>3 DEF ConfigurarCliente, Administer
<1>4. CASE UNCHANGED <<configurado, portal, tile>>
  BY <1>4
<1> QED
  BY <1>1, <1>2, <1>3, <1>4
  DEF Next, vars, tables, Tick, ConcederOuRevogar, AtivarOuDesativar, Administer, PasswordLogin,
      LoginFail, Authorize, Exchange, Callback, SemAcesso, QualidadeLogout

\* No tile leads to a 403 or a 502 while the cookie it was drawn for lasts.
THEOREM TilesLead == Spec => []TileNeverDeadEnds
<1>1. Init => TypeOK /\ TileInv
  BY TypeInit DEF Init, TileInv
<1>2. TypeOK /\ TileInv /\ [Next]_vars => (TypeOK /\ TileInv)'
  BY TypeStep, TileStep
<1>3. TileInv => TileNeverDeadEnds
  BY DEF TileInv, TileNeverDeadEnds
<1> QED
  BY <1>1, <1>2, <1>3, PTL DEF Spec
=============================================================================
