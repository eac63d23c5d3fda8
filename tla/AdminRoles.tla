----------------------------- MODULE AdminRoles -----------------------------
(***************************************************************************)
(* Systems, roles and grants: the tables aplicacoes, papeis and            *)
(* usuario_papeis, the /admin routes that change them, the access token    *)
(* hook that reads them at login, and the cookies that remember what it    *)
(* read.                                                                   *)
(*                                                                         *)
(* require_admin admits a request from its cookie alone; its statements    *)
(* run later, each committing by itself, and by then cookie and tables may *)
(* have changed.  A login likewise: the hook reads the tables, the cookie  *)
(* is set when the answer arrives.                                         *)
(***************************************************************************)
EXTENDS Naturals, FiniteSets

CONSTANTS
  Users,      \* rows of auth.users
  Apps,       \* ids an aplicacao can have
  Codigos,    \* codigos a papel can have
  PapelIds,   \* bound: the papeis ever created, one gen_random_uuid each
  Requests,   \* POSTs to /admin in flight at once
  MaxLogins,  \* bound: the cookies and the logins under way, together
  Routes,     \* the /admin routes the administrators of a run use
  NovosPapeis, \* the papeis they create
  Portal,     \* ADMIN_APP_ID
  Admin,      \* ADMIN_ROLE_CODE
  AdminPapel, \* the papel seeded by sql/0005
  Unborn, Deleted, NoUser, NoPapel, NoApp, NoCodigo

GrantRoutes == {"usuarios_revogar", "sistema_usuarios_revogar", "conceder"}
PapelRoutes == {"perfis_editar", "perfis_excluir"}
SistemaRoutes == {"sistemas_criar", "ativar", "desativar"}
AllRoutes == GrantRoutes \cup PapelRoutes \cup SistemaRoutes \cup {"perfis_criar"}

ASSUME RolesAssumption ==
  /\ Portal \in Apps /\ Admin \in Codigos /\ AdminPapel \in PapelIds
  /\ Routes \subseteq AllRoutes
  /\ NovosPapeis \subseteq [app : Apps, codigo : Codigos]
  /\ NoUser \notin Users /\ NoPapel \notin PapelIds
  /\ NoApp \notin Apps /\ NoCodigo \notin Codigos
  /\ Unborn # Deleted /\ {Unborn, Deleted} \cap [app : Apps, codigo : Codigos] = {}

VARIABLES
  aplicacoes,    \* "ausente", "ativo" or "inativo", for each id
  papeis,        \* each papel's application and codigo, Unborn or Deleted
  usuarioPapeis, \* the grants: pairs of a user and a papel
  session,       \* the acessos in each user's cookie: {} also without a cookie
  minted,        \* those of a login under way: {} also without one
  req            \* the requests under way

vars == <<aplicacoes, papeis, usuarioPapeis, session, minted, req>>

Papel == [app : Apps, codigo : Codigos]
Live(p) == papeis[p] \notin {Unborn, Deleted}

Idle == [pc |-> "idle", user |-> NoUser, papel |-> NoPapel, app |-> NoApp,
         codigo |-> NoCodigo, holders |-> {}]

Holders(p) == {u \in Users : <<u, p>> \in usuarioPapeis}
IsAdminPapel(p) == papeis[p] = [app |-> Portal, codigo |-> Admin]

\* Whoever holds the papel 'admin' of 'portal', under whatever id.
PortalAdmins == {u \in Users : \E p \in PapelIds : IsAdminPapel(p) /\ u \in Holders(p)}

\* custom_access_token_hook: the papeis of active applications.  An entry keeps,
\* beside what the token carries, the papel it came from.
Acessos(u) ==
  {[papel |-> p, app |-> papeis[p].app, codigo |-> papeis[p].codigo] :
     p \in {q \in PapelIds : /\ u \in Holders(q) /\ Live(q)
                             /\ aplicacoes[papeis[q].app] = "ativo"}}

AdminEntry(acessos) == \E e \in acessos : e.app = Portal /\ e.codigo = Admin

\* After the migrations and the manual bootstrap of the first administrators.
Init ==
  /\ aplicacoes = [app \in Apps |-> IF app = Portal THEN "ativo" ELSE "ausente"]
  /\ papeis = [p \in PapelIds |->
       IF p = AdminPapel THEN [app |-> Portal, codigo |-> Admin] ELSE Unborn]
  /\ \E first \in (SUBSET Users) \ {{}} : usuarioPapeis = first \X {AdminPapel}
  /\ session = [u \in Users |-> {}]
  /\ minted = [u \in Users |-> {}]
  /\ req = [r \in Requests |-> Idle]

----------------------------------------------------------------------------
(* Sessions *)

LoginsNow == Cardinality({u \in Users : session[u] # {}})
             + Cardinality({u \in Users : minted[u] # {}})

\* password_login: GoTrue mints the token, and the hook reads the tables ...
PasswordLogin(u) ==
  /\ minted[u] = {}
  /\ LoginsNow < MaxLogins
  /\ minted' = [minted EXCEPT ![u] = Acessos(u)]
  /\ UNCHANGED <<aplicacoes, papeis, usuarioPapeis, session, req>>

\* ... and the cookie is set from it when the answer arrives.
LoginReply(u) ==
  /\ minted[u] # {}
  /\ session' = [session EXCEPT ![u] = minted[u]]
  /\ minted' = [minted EXCEPT ![u] = {}]
  /\ UNCHANGED <<aplicacoes, papeis, usuarioPapeis, req>>

\* The login fails after its token was minted, or its answer is lost.
LoginFail(u) ==
  /\ minted[u] # {}
  /\ minted' = [minted EXCEPT ![u] = {}]
  /\ UNCHANGED <<aplicacoes, papeis, usuarioPapeis, session, req>>

\* POST /logout, the cookie's max_age, or a login whose token lists nothing.
EndSession(u) ==
  /\ session[u] # {}
  /\ session' = [session EXCEPT ![u] = {}]
  /\ UNCHANGED <<aplicacoes, papeis, usuarioPapeis, minted, req>>

----------------------------------------------------------------------------
(* Admission: the router's require_admin, before the handler's first await *)

\* Some administrator, or whoever still has an administrator's cookie, sends a
\* request by the route; require_admin asks the cookie, not the tables.
Admit(r, route, fields) ==
  /\ route \in Routes
  /\ \E u \in Users : AdminEntry(session[u])
  /\ req[r].pc = "idle"
  /\ req' = [req EXCEPT ![r] = fields]
  /\ UNCHANGED <<aplicacoes, papeis, usuarioPapeis, session, minted>>

\* A form or button names a papel by an id that was once on some page.
AdmitGrant(r, route, u, p) ==
  /\ papeis[p] # Unborn
  /\ Admit(r, route, [Idle EXCEPT !.pc = route, !.user = u, !.papel = p])

AdmitPapel(r, route, p) ==
  /\ papeis[p] # Unborn
  /\ Admit(r, route, [Idle EXCEPT !.pc = route, !.papel = p])

AdmitSistema(r, route, app) ==
  Admit(r, route, [Idle EXCEPT !.pc = route, !.app = app])

AdmitNovoPapel(r, novo) ==
  Admit(r, "perfis_criar", [Idle EXCEPT !.pc = "perfis_criar",
                              !.app = novo.app, !.codigo = novo.codigo])

\* The request does its last statement, or is refused there, and ends.
Ends(r, pc) == req[r].pc = pc /\ req' = [req EXCEPT ![r] = Idle]

----------------------------------------------------------------------------
(* /admin/sistemas *)

\* Variant: an upsert, which finds the system there and makes it active.
CriarSistemaUpsert(r) ==
  /\ Ends(r, "sistemas_criar")
  /\ aplicacoes' = [aplicacoes EXCEPT ![req[r].app] = "ativo"]
  /\ UNCHANGED <<papeis, usuarioPapeis, session, minted>>

\* A duplicate id raises, and nothing is inserted.
CriarSistema(r) ==
  /\ Ends(r, "sistemas_criar")
  /\ aplicacoes' = IF aplicacoes[req[r].app] # "ausente" THEN aplicacoes
                   ELSE [aplicacoes EXCEPT ![req[r].app] = "ativo"]
  /\ UNCHANGED <<papeis, usuarioPapeis, session, minted>>

\* set_aplicacao_ativo: an update that finds no row changes nothing.
SetAtivo(app, ativo) ==
  aplicacoes' = IF aplicacoes[app] = "ausente" THEN aplicacoes
                ELSE [aplicacoes EXCEPT ![app] = ativo]

Ativar(r) ==
  /\ Ends(r, "ativar")
  /\ SetAtivo(req[r].app, "ativo")
  /\ UNCHANGED <<papeis, usuarioPapeis, session, minted>>

Desativar(r) ==
  /\ Ends(r, "desativar")
  /\ SetAtivo(req[r].app, "inativo")
  /\ UNCHANGED <<papeis, usuarioPapeis, session, minted>>

----------------------------------------------------------------------------
(* /admin/sistemas/{id}/perfis *)

\* unique (aplicacao_id, codigo): a duplicate raises, and nothing is inserted.
CodigoTaken(app, codigo) ==
  \E p \in PapelIds : papeis[p] = [app |-> app, codigo |-> codigo]

\* An aplicacao is never deleted, so its 404 check cannot turn stale.
CriarPapel(r, p) ==
  LET app == req[r].app codigo == req[r].codigo IN
  /\ Ends(r, "perfis_criar")
  /\ papeis[p] = Unborn
  /\ papeis' = IF aplicacoes[app] = "ausente" \/ CodigoTaken(app, codigo) THEN papeis
               ELSE [papeis EXCEPT ![p] = [app |-> app, codigo |-> codigo]]
  /\ UNCHANGED <<aplicacoes, usuarioPapeis, session, minted>>

\* Variant: the edit form also writes codigo.
EditarPapelCodigo(r) ==
  /\ Ends(r, "perfis_editar")
  /\ Live(req[r].papel)
  /\ \E codigo \in Codigos : papeis' = [papeis EXCEPT ![req[r].papel].codigo = codigo]
  /\ UNCHANGED <<aplicacoes, usuarioPapeis, session, minted>>

\* update_papel writes nome and descricao, never codigo or aplicacao_id.
EditarPapel(r) ==
  /\ Ends(r, "perfis_editar")
  /\ UNCHANGED <<aplicacoes, papeis, usuarioPapeis, session, minted>>

\* Variant: the foreign key does not cascade.
ExcluirPapelOnly(r) ==
  /\ Ends(r, "perfis_excluir")
  /\ papeis' = [papeis EXCEPT ![req[r].papel] = Deleted]
  /\ UNCHANGED <<aplicacoes, usuarioPapeis, session, minted>>

\* delete_papel, with on delete cascade; ids are never drawn again.
ExcluirPapel(r) ==
  /\ Ends(r, "perfis_excluir")
  /\ papeis' = [papeis EXCEPT ![req[r].papel] = Deleted]
  /\ usuarioPapeis' = {g \in usuarioPapeis : g[2] # req[r].papel}
  /\ UNCHANGED <<aplicacoes, session, minted>>

----------------------------------------------------------------------------
(* Grants *)

\* grant_papel: the foreign key refuses a papel that is gone by now; granting
\* twice does nothing.
Conceder(r) ==
  /\ Ends(r, "conceder")
  /\ usuarioPapeis' = IF Live(req[r].papel)
       THEN usuarioPapeis \cup {<<req[r].user, req[r].papel>>} ELSE usuarioPapeis
  /\ UNCHANGED <<aplicacoes, papeis, session, minted>>

\* sistema_usuarios.revogar: the same delete, with no guard before it.
RevogarNoSistema(r) ==
  /\ Ends(r, "sistema_usuarios_revogar")
  /\ usuarioPapeis' = usuarioPapeis \ {<<req[r].user, req[r].papel>>}
  /\ UNCHANGED <<aplicacoes, papeis, session, minted>>

\* Variant: what is handed on is the papel only.
RevogarFetchOnly(r) ==
  /\ req[r].pc = "usuarios_revogar"
  /\ req' = [req EXCEPT ![r] = [Idle EXCEPT !.papel = req[r].papel,
       !.pc = IF IsAdminPapel(req[r].papel) THEN "count" ELSE "revoke"]]
  /\ UNCHANGED <<aplicacoes, papeis, usuarioPapeis, session, minted>>

\* usuarios.revogar_papel, in its three statements: fetch_papel ...
RevogarFetch(r) ==
  /\ req[r].pc = "usuarios_revogar"
  /\ req' = [req EXCEPT ![r].pc = IF IsAdminPapel(req[r].papel) THEN "count" ELSE "revoke"]
  /\ UNCHANGED <<aplicacoes, papeis, usuarioPapeis, session, minted>>

\* Variant: total < 1.
NoneLeft(p) == Cardinality(Holders(p)) < 1

\* total <= 1
LastOne(p) == Cardinality(Holders(p)) <= 1

\* ... count_usuarios_com_papel, which ends the request when the papel would
\* be left without a holder; holders is history: whom the count saw ...
RevogarCount(r) ==
  LET p == req[r].papel IN
  /\ req[r].pc = "count"
  /\ req' = IF LastOne(p) THEN [req EXCEPT ![r] = Idle]
            ELSE [req EXCEPT ![r].pc = "revoke", ![r].holders = Holders(p)]
  /\ UNCHANGED <<aplicacoes, papeis, usuarioPapeis, session, minted>>

\* ... and revoke_papel.
RevogarDelete(r) ==
  /\ Ends(r, "revoke")
  /\ usuarioPapeis' = usuarioPapeis \ {<<req[r].user, req[r].papel>>}
  /\ UNCHANGED <<aplicacoes, papeis, session, minted>>

\* The worker dies, or a statement fails, at any await.
Fail(r) ==
  /\ req[r].pc # "idle"
  /\ req' = [req EXCEPT ![r] = Idle]
  /\ UNCHANGED <<aplicacoes, papeis, usuarioPapeis, session, minted>>

----------------------------------------------------------------------------
Admission(r) ==
  \/ \E route \in GrantRoutes, u \in Users, p \in PapelIds : AdmitGrant(r, route, u, p)
  \/ \E route \in PapelRoutes, p \in PapelIds : AdmitPapel(r, route, p)
  \/ \E route \in SistemaRoutes, app \in Apps : AdmitSistema(r, route, app)
  \/ \E novo \in NovosPapeis : AdmitNovoPapel(r, novo)

Statement(r) ==
  \/ CriarSistema(r) \/ Ativar(r) \/ Desativar(r)
  \/ \E p \in PapelIds : CriarPapel(r, p)
  \/ EditarPapel(r) \/ ExcluirPapel(r)
  \/ Conceder(r) \/ RevogarNoSistema(r)
  \/ RevogarFetch(r) \/ RevogarCount(r) \/ RevogarDelete(r)

Next ==
  \/ \E u \in Users : PasswordLogin(u) \/ LoginReply(u) \/ LoginFail(u) \/ EndSession(u)
  \/ \E r \in Requests : Admission(r) \/ Statement(r) \/ Fail(r)

Spec == Init /\ [][Next]_vars

----------------------------------------------------------------------------
(* Properties *)

Request == [pc : AllRoutes \cup {"idle", "count", "revoke"}, user : Users \cup {NoUser},
            papel : PapelIds \cup {NoPapel}, app : Apps \cup {NoApp},
            codigo : Codigos \cup {NoCodigo}, holders : SUBSET Users]

Entry == [papel : PapelIds, app : Apps, codigo : Codigos]

\* A request under way knows what its route was called with.
FieldsOK(v) ==
  /\ v.pc \in GrantRoutes \cup {"count", "revoke"} => v.user \in Users
  /\ v.pc \in GrantRoutes \cup PapelRoutes \cup {"count", "revoke"} =>
       v.papel \in PapelIds /\ papeis[v.papel] # Unborn
  /\ v.pc \in SistemaRoutes \cup {"perfis_criar"} => v.app \in Apps
  /\ v.pc = "perfis_criar" => v.codigo \in Codigos

\* Each table, cookie and request holds what it can hold.
TypeOK ==
  /\ aplicacoes \in [Apps -> {"ausente", "ativo", "inativo"}]
  /\ papeis \in [PapelIds -> Papel \cup {Unborn, Deleted}]
  /\ usuarioPapeis \subseteq Users \X PapelIds
  /\ session \in [Users -> SUBSET Entry]
  /\ minted \in [Users -> SUBSET Entry]
  /\ req \in [Requests -> Request]
  /\ \A r \in Requests : FieldsOK(req[r])

\* Whatever is created, deleted and granted concurrently, a grant refers to a
\* papel that exists, a papel to a system that exists, and a system has one
\* papel per codigo: the hook can neither lose a grant nor merge two.
TablesConsistent ==
  /\ \A g \in usuarioPapeis : Live(g[2])
  /\ \A p \in PapelIds : Live(p) => aplicacoes[papeis[p].app] # "ausente"
  /\ \A p, q \in PapelIds : Live(p) /\ papeis[p] = papeis[q] => p = q

\* What a token or a cookie says grows old but never wrong: as long as the papel
\* behind an entry is still granted, the entry still means the same system and the
\* same codigo, the one the client applications were told (update_papel's comment).
CookieKeepsItsMeaning ==
  \A u \in Users : \A e \in session[u] \cup minted[u] :
    <<u, e.papel>> \in usuarioPapeis => papeis[e.papel] = [app |-> e.app, codigo |-> e.codigo]

\* The portal loses its last administrator in three ways only: the papel itself
\* is deleted, the unguarded route takes the grant away, or the guard of
\* revogar_papel was overtaken, and somebody it counted had been revoked by the
\* time its delete ran.
LastAdminIsLostThreeWays ==
  [][PortalAdmins # {} /\ PortalAdmins' = {} =>
       \E r \in Requests :
         /\ req[r].pc \in {"perfis_excluir", "sistema_usuarios_revogar", "revoke"}
         /\ req'[r].pc = "idle"
         /\ IsAdminPapel(req[r].papel)
         /\ req[r].pc = "revoke" => ~(req[r].holders \subseteq Holders(req[r].papel))
    ]_vars

\* "nao e possivel revogar o papel admin do portal se isso deixar zero
\* administradores" (portal/README.md), taken as what it promises.
LastAdminKept == PortalAdmins # {}

\* 'portal' stays active, or require_admin could never be satisfied again
\* (sql/0005): someone can enter /admin now or after logging in.
AdminAreaReachable ==
  \E u \in Users : AdminEntry(session[u]) \/ AdminEntry(Acessos(u))

\* Requests admitted earlier that could give the area back: a grant of the papel
\* 'admin', an activation of 'portal'.
Reopens(r) ==
  \/ req[r].pc = "conceder" /\ IsAdminPapel(req[r].papel)
  \/ req[r].pc = "ativar" /\ req[r].app = Portal

\* Nobody can enter, and nothing that was under way before can change that.
LockedOut ==
  /\ ~AdminAreaReachable
  /\ \A u \in Users : ~AdminEntry(minted[u])
  /\ \A r \in Requests : ~Reopens(r)

\* Why both promises matter: once nobody can enter /admin, and the logins, grants
\* and activations that were already under way have ended, nothing the program
\* does brings the area back, whatever other requests are still in flight
\* (sql/0005: "permanentemente impossivel").
LockoutIsPermanent == [][LockedOut => LockedOut']_vars
=============================================================================
