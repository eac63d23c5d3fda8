----------------------------- MODULE AdminPages -----------------------------
(***************************************************************************)
(* The pages of /admin and the buttons on them.  A page is read from the   *)
(* tables in one or more statements and then stands still in a tab, while  *)
(* other tabs go on; its buttons say what to do in terms of what it        *)
(* showed.  The back button brings a page back as it was after its form    *)
(* was sent.  The systems are those other than 'portal', whose papel       *)
(* 'admin' revogar_papel treats apart (AdminRoles); the cliente pages and  *)
(* their secrets are ClientRegistry's subject.                             *)
(***************************************************************************)
EXTENDS Naturals, FiniteSets

CONSTANTS
  Users,       \* e-mail addresses
  Present,     \* those that have an account from the start
  Apps,        \* rows of aplicacoes
  Codigos,     \* codigos a papel can have
  PapelIds,    \* bound: the papeis ever created, one gen_random_uuid each
  Tabs,        \* tabs of administrators
  Unborn, Deleted, NoApp, NoCodigo, NoPapel, NoUser

ASSUME PagesAssumption ==
  /\ Present \subseteq Users
  /\ NoApp \notin Apps /\ NoCodigo \notin Codigos
  /\ NoPapel \notin PapelIds /\ NoUser \notin Users
  /\ Unborn # Deleted /\ {Unborn, Deleted} \cap [app : Apps, codigo : Codigos] = {}

VARIABLES
  papeis,  \* each papel's application and codigo, Unborn or Deleted
  grants,  \* usuario_papeis: pairs of a user and a papel
  contas,  \* auth.users
  ativo,   \* aplicacoes.ativo
  tab,     \* the page in each tab, and the request it is waiting for
  criando  \* history: the account the request under way in a tab has created

tables == <<papeis, grants, contas, ativo>>
vars == <<tables, tab, criando>>

Papel == [app : Apps, codigo : Codigos]
Grant == Users \X PapelIds
Live(p) == papeis[p] \notin {Unborn, Deleted}
Disponiveis == {p \in PapelIds : Live(p)}
GrantsOf(p) == {g \in grants : g[2] = p}

\* tem: the grants on the page; lista: the papeis in its select; ligado: its
\* badge; codigo: the name of the papel it asks about.
Blank == [page |-> "none", pc |-> "idle", app |-> NoApp, codigo |-> NoCodigo,
          user |-> NoUser, papel |-> NoPapel, tem |-> {}, lista |-> {}, ligado |-> FALSE]

Init ==
  /\ papeis = [p \in PapelIds |-> Unborn]
  /\ grants = {} /\ contas = Present
  /\ ativo = [app \in Apps |-> TRUE]
  /\ tab = [t \in Tabs |-> Blank]
  /\ criando = [t \in Tabs |-> NoUser]

On(t, page, pc) == tab[t].page = page /\ tab[t].pc = pc

\* The page t asked for, instead of the one it leaves.
Opens(t, content) ==
  /\ tab[t].pc = "idle"
  /\ tab' = [tab EXCEPT ![t] = content]
  /\ UNCHANGED <<tables, criando>>

Goes(t, pc) == tab' = [tab EXCEPT ![t].pc = pc]

\* The tab moves on: to another page, or to the answer 404 or 500 of a handler
\* whose papel is gone, whose statement failed or whose worker died.
Leave(t) ==
  /\ tab[t].pc # "idle"
  /\ tab' = [tab EXCEPT ![t] = Blank]
  /\ criando' = [criando EXCEPT ![t] = NoUser]
  /\ UNCHANGED tables

----------------------------------------------------------------------------
(* /admin/sistemas/{id}/perfis *)

CodigoTaken(app, codigo) ==
  \E p \in PapelIds : papeis[p] = [app |-> app, codigo |-> codigo]

\* Variant: the row of a deleted papel is taken again.
CriarPapelReusesId(p, app, codigo) ==
  /\ ~Live(p)
  /\ ~CodigoTaken(app, codigo)
  /\ papeis' = [papeis EXCEPT ![p] = [app |-> app, codigo |-> codigo]]
  /\ UNCHANGED <<grants, contas, ativo, tab, criando>>

\* perfis.criar: nothing in its form comes from the tables.
CriarPapel(p, app, codigo) ==
  /\ papeis[p] = Unborn
  /\ ~CodigoTaken(app, codigo)
  /\ papeis' = [papeis EXCEPT ![p] = [app |-> app, codigo |-> codigo]]
  /\ UNCHANGED <<grants, contas, ativo, tab, criando>>

\* excluir_confirmar fetches the papel ...
ExcluirForm(t, p) ==
  /\ Live(p)
  /\ Opens(t, [Blank EXCEPT !.page = "excluir", !.pc = "count", !.papel = p,
                            !.app = papeis[p].app, !.codigo = papeis[p].codigo])

\* ... and counts its holders: "usuario(s) perdem este perfil se voce confirmar".
ExcluirCount(t) ==
  /\ On(t, "excluir", "count")
  /\ tab' = [tab EXCEPT ![t] = [@ EXCEPT !.pc = "shown", !.tem = GrantsOf(tab[t].papel)]]
  /\ UNCHANGED <<tables, criando>>

\* excluir fetches the papel again, and neither counts nor compares ...
ExcluirFetch(t) ==
  /\ On(t, "excluir", "shown")
  /\ Live(tab[t].papel)
  /\ Goes(t, "delete")
  /\ UNCHANGED <<tables, criando>>

\* Variant: the foreign key does not cascade.
DeletePapelOnly(t) ==
  LET p == tab[t].papel IN
  /\ On(t, "excluir", "delete")
  /\ papeis' = IF Live(p) THEN [papeis EXCEPT ![p] = Deleted] ELSE papeis
  /\ Goes(t, "shown")
  /\ UNCHANGED <<grants, contas, ativo, criando>>

\* Variant: the statement names the papel by its application and codigo.
DeleteNamesake(t) ==
  LET Named(p) == papeis[p] = [app |-> tab[t].app, codigo |-> tab[t].codigo] IN
  /\ On(t, "excluir", "delete")
  /\ papeis' = [p \in PapelIds |-> IF Named(p) THEN Deleted ELSE papeis[p]]
  /\ grants' = {g \in grants : ~Named(g[2])}
  /\ Goes(t, "shown")
  /\ UNCHANGED <<contas, ativo, criando>>

\* ... and deletes by id, with on delete cascade; nothing, if it is gone.
ExcluirDelete(t) ==
  LET p == tab[t].papel IN
  /\ On(t, "excluir", "delete")
  /\ papeis' = IF Live(p) THEN [papeis EXCEPT ![p] = Deleted] ELSE papeis
  /\ grants' = grants \ GrantsOf(p)
  /\ Goes(t, "shown")
  /\ UNCHANGED <<contas, ativo, criando>>

----------------------------------------------------------------------------
(* Granting and revoking *)

\* grant_papel: a foreign key refuses a papel that is gone, a conflict does nothing.
Grants(u, p) ==
  /\ Live(p)
  /\ grants' = grants \cup {<<u, p>>}

\* usuarios.detalhe: list_papeis_do_usuario ...
DetalheUsuario(t, u) ==
  /\ u \in contas
  /\ Opens(t, [Blank EXCEPT !.page = "usuario", !.pc = "list", !.user = u,
                            !.tem = {g \in grants : g[1] = u}])

\* ... and list_papeis_disponiveis, in another statement.
DetalheDisponiveis(t) ==
  /\ On(t, "usuario", "list")
  /\ tab' = [tab EXCEPT ![t] = [@ EXCEPT !.pc = "shown", !.lista = Disponiveis]]
  /\ UNCHANGED <<tables, criando>>

Conceder(t, p) ==
  /\ On(t, "usuario", "shown")
  /\ p \in tab[t].lista
  /\ Grants(tab[t].user, p)
  /\ UNCHANGED <<papeis, contas, ativo, tab, criando>>

\* revogar_papel fetches the papel and, unless it is the portal's 'admin', goes
\* on whether it found one or not.
RevogarFetch(t, p) ==
  /\ On(t, "usuario", "shown")
  /\ <<tab[t].user, p>> \in tab[t].tem
  /\ tab' = [tab EXCEPT ![t] = [@ EXCEPT !.pc = "revoke", !.papel = p]]
  /\ UNCHANGED <<tables, criando>>

RevogarDelete(t) ==
  /\ On(t, "usuario", "revoke")
  /\ grants' = grants \ {<<tab[t].user, tab[t].papel>>}
  /\ tab' = [tab EXCEPT ![t] = [@ EXCEPT !.pc = "shown", !.papel = NoPapel]]
  /\ UNCHANGED <<papeis, contas, ativo, criando>>

\* sistema_usuarios.listar: list_usuarios_do_sistema.
UsuariosDoSistema(t, app) ==
  Opens(t, [Blank EXCEPT !.page = "sistema_usuarios", !.pc = "shown", !.app = app,
                         !.tem = {g \in grants : Live(g[2]) /\ papeis[g[2]].app = app}])

\* sistema_usuarios.revogar.
RevogarNoSistema(t, g) ==
  /\ On(t, "sistema_usuarios", "shown")
  /\ g \in tab[t].tem
  /\ grants' = grants \ {g}
  /\ UNCHANGED <<papeis, contas, ativo, tab, criando>>

----------------------------------------------------------------------------
(* /admin/usuarios/novo *)

NovoForm(t) == Opens(t, [Blank EXCEPT !.page = "novo", !.pc = "shown", !.lista = Disponiveis])

\* Variant: a user who is there already will do.
CriarOuAchar(t, u, p) ==
  /\ On(t, "novo", "shown")
  /\ p \in tab[t].lista \cup {NoPapel}
  /\ contas' = contas \cup {u}
  /\ criando' = IF u \in contas \/ p = NoPapel THEN criando ELSE [criando EXCEPT ![t] = u]
  /\ tab' = [tab EXCEPT ![t] =
       IF p = NoPapel THEN @ ELSE [@ EXCEPT !.pc = "grant", !.user = u, !.papel = p]]
  /\ UNCHANGED <<papeis, grants, ativo>>

\* criar: GoTrue creates the account; papel_inicial, if any, is granted next.
CriarConta(t, u, p) ==
  /\ On(t, "novo", "shown")
  /\ u \notin contas
  /\ p \in tab[t].lista \cup {NoPapel}
  /\ contas' = contas \cup {u}
  /\ criando' = IF p = NoPapel THEN criando ELSE [criando EXCEPT ![t] = u]
  /\ tab' = [tab EXCEPT ![t] =
       IF p = NoPapel THEN @ ELSE [@ EXCEPT !.pc = "grant", !.user = u, !.papel = p]]
  /\ UNCHANGED <<papeis, grants, ativo>>

\* EmailAlreadyExistsError, WeakPasswordError or AdminApiError: the form again,
\* with the papeis there are by now.
CriarRecusado(t) ==
  /\ On(t, "novo", "shown")
  /\ tab' = [tab EXCEPT ![t].lista = Disponiveis]
  /\ UNCHANGED <<tables, criando>>

\* The account is created, but GoTrue's answer does not arrive.
CriarSemResposta(t, u) ==
  /\ On(t, "novo", "shown")
  /\ u \notin contas
  /\ contas' = contas \cup {u}
  /\ UNCHANGED <<papeis, grants, ativo, tab, criando>>

GrantInicial(t) ==
  /\ On(t, "novo", "grant")
  /\ Grants(tab[t].user, tab[t].papel)
  /\ tab' = [tab EXCEPT ![t] = [@ EXCEPT !.pc = "shown", !.user = NoUser, !.papel = NoPapel]]
  /\ criando' = [criando EXCEPT ![t] = NoUser]
  /\ UNCHANGED <<papeis, contas, ativo>>

----------------------------------------------------------------------------
(* /admin/sistemas/{id} *)

\* sistemas.detalhe: the badge decides which of the two buttons there is; its
\* other three statements give links and totals, on which no button depends.
DetalheSistema(t, app) ==
  Opens(t, [Blank EXCEPT !.page = "sistema", !.pc = "shown", !.app = app,
                         !.ligado = ativo[app]])

\* Variant: one button that switches over.
Alternar(t) ==
  /\ On(t, "sistema", "shown")
  /\ tab[t].ligado
  /\ ativo' = [ativo EXCEPT ![tab[t].app] = ~ativo[tab[t].app]]
  /\ UNCHANGED <<papeis, grants, contas, tab, criando>>

Desativar(t) ==
  /\ On(t, "sistema", "shown")
  /\ tab[t].ligado
  /\ ativo' = [ativo EXCEPT ![tab[t].app] = FALSE]
  /\ UNCHANGED <<papeis, grants, contas, tab, criando>>

Ativar(t) ==
  /\ On(t, "sistema", "shown")
  /\ ~tab[t].ligado
  /\ ativo' = [ativo EXCEPT ![tab[t].app] = TRUE]
  /\ UNCHANGED <<papeis, grants, contas, tab, criando>>

\* atualizar writes the five fields of the form; ativo is not among them.
Atualizar(t) ==
  /\ On(t, "sistema", "shown")
  /\ UNCHANGED vars

Opening(t) ==
  \/ \E p \in PapelIds : ExcluirForm(t, p)
  \/ \E u \in Users : DetalheUsuario(t, u)
  \/ NovoForm(t)
  \/ \E app \in Apps : UsuariosDoSistema(t, app) \/ DetalheSistema(t, app)

Reading(t) ==
  \/ ExcluirCount(t) \/ DetalheDisponiveis(t)
  \/ ExcluirFetch(t) \/ \E p \in PapelIds : RevogarFetch(t, p)
  \/ CriarRecusado(t)

Writing(t) ==
  \/ ExcluirDelete(t) \/ RevogarDelete(t)
  \/ \E p \in PapelIds : Conceder(t, p)
  \/ \E g \in Grant : RevogarNoSistema(t, g)
  \/ \E u \in Users, p \in PapelIds \cup {NoPapel} : CriarConta(t, u, p)
  \/ \E u \in Users : CriarSemResposta(t, u)
  \/ GrantInicial(t)
  \/ Desativar(t) \/ Ativar(t) \/ Atualizar(t)

Next ==
  \/ \E p \in PapelIds, app \in Apps, codigo \in Codigos : CriarPapel(p, app, codigo)
  \/ \E t \in Tabs : Leave(t) \/ Opening(t) \/ Reading(t) \/ Writing(t)

Spec == Init /\ [][Next]_vars

----------------------------------------------------------------------------
(* Properties *)

Tab == [page : {"none", "excluir", "usuario", "sistema_usuarios", "novo", "sistema"},
        pc : {"idle", "shown", "count", "delete", "list", "revoke", "grant"},
        app : Apps \cup {NoApp}, codigo : Codigos \cup {NoCodigo},
        user : Users \cup {NoUser}, papel : PapelIds \cup {NoPapel},
        tem : SUBSET Grant, lista : SUBSET PapelIds, ligado : BOOLEAN]

TablesOK ==
  /\ papeis \in [PapelIds -> Papel \cup {Unborn, Deleted}]
  /\ grants \subseteq Grant /\ contas \subseteq Users
  /\ ativo \in [Apps -> BOOLEAN]

\* Tables and tabs hold what they can hold, and nobody is granted a papel that
\* is not there, or without an account: what the foreign keys would refuse.
TypeOK ==
  /\ TablesOK
  /\ tab \in [Tabs -> Tab]
  /\ criando \in [Tabs -> Users \cup {NoUser}]
  /\ \A g \in grants : g[1] \in contas /\ Live(g[2])

\* The fields a page's buttons use still mean what they meant when it was read,
\* however old the page and whatever other tabs did since: the papel of a
\* confirmation, if it is still there, has the name the page calls it by, even
\* when papeis were deleted and created again under that name; what is revoked
\* was listed; what is granted at creation was offered, and goes to the account
\* this very request created.
PageOK(t) ==
  /\ tab[t].page \in {"sistema_usuarios", "sistema", "excluir"} => tab[t].app \in Apps
  /\ tab[t].page = "usuario" => tab[t].user \in contas
  /\ tab[t].page = "excluir" =>
       /\ tab[t].papel \in PapelIds
       /\ papeis[tab[t].papel] # Unborn
       /\ Live(tab[t].papel) =>
            papeis[tab[t].papel] = [app |-> tab[t].app, codigo |-> tab[t].codigo]
  /\ On(t, "usuario", "revoke") => <<tab[t].user, tab[t].papel>> \in tab[t].tem
  /\ On(t, "novo", "grant") =>
       /\ tab[t].papel \in tab[t].lista
       /\ tab[t].user \in contas /\ criando[t] = tab[t].user

PagesInv == \A t \in Tabs : PageOK(t)

\* Whoever loses a papel loses it to a request that named it: the deletion of
\* that papel and no other, though the papel may have been deleted by another
\* tab and created again under its codigo while the request was under way; or
\* the revocation of that grant from a page that showed it.
LossesWereNamed ==
  [][\A g \in grants \ grants' :
       \E t \in Tabs :
         \/ On(t, "excluir", "delete") /\ tab[t].papel = g[2]
         \/ /\ g \in tab[t].tem
            /\ \/ On(t, "usuario", "revoke") /\ g = <<tab[t].user, tab[t].papel>>
               \/ On(t, "sistema_usuarios", "shown")]_vars

\* What the confirmation says, "N usuario(s) perdem este perfil se voce
\* confirmar" (perfil_confirmar_exclusao.html:15): no more than the N it counted
\* lose the papel.
DeletionTakesWhatItSaid ==
  [][\A t \in Tabs :
       On(t, "excluir", "delete") /\ tab[t].tem # {} /\ papeis'[tab[t].papel] # papeis[tab[t].papel]
         => Cardinality(GrantsOf(tab[t].papel)) <= Cardinality(tab[t].tem)]_vars

\* Creating a user over and over, after errors and lost answers, in one tab or
\* in several, never gives a papel to an account that was there before the
\* request: those are granted one on their own page only.
ExistingAccountsUntouched ==
  [][\A g \in grants' \ grants :
       \E t \in Tabs : /\ g[2] \in tab[t].lista
                       /\ \/ tab[t].page = "usuario" /\ tab[t].user = g[1]
                          \/ On(t, "novo", "grant") /\ criando[t] = g[1]]_vars

\* A system is switched only to the opposite of what the page of some tab
\* showed: two tabs that both switch it off leave it off.
SwitchesFollowThePage ==
  [][\A app \in Apps :
       ativo'[app] # ativo[app] =>
         \E t \in Tabs : /\ tab[t].page = "sistema" /\ tab[t].app = app
                         /\ ativo'[app] # tab[t].ligado]_vars
=============================================================================
