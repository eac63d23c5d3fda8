-------------------------- MODULE AdminPages_proofs --------------------------
(***************************************************************************)
(* What stale pages of /admin can and cannot do, for any number of tabs,   *)
(* users, systems and papeis.  The inductive invariant is Inv: types and   *)
(* foreign keys, and what each page remembers (PagesInv).  A papel, once   *)
(* there, keeps its application and codigo until it is deleted and is then *)
(* deleted for good (NamesKept), which is why a page can go stale but not  *)
(* come to mean another papel.  Every action of a tab keeps the other      *)
(* tabs' pages by Frame; its own step shows only what it does to its own.  *)
(***************************************************************************)
EXTENDS AdminPages, TLAPS

Inv == TypeOK /\ PagesInv

TabsOK ==
  /\ tab \in [Tabs -> Tab]
  /\ criando \in [Tabs -> Users \cup {NoUser}]

ForeignKeys == \A g \in grants : g[1] \in contas /\ Live(g[2])

NamesKept ==
  \A p \in PapelIds : papeis[p] # Unborn => papeis'[p] = papeis[p] \/ papeis'[p] = Deleted

LEMMA TypeParts == TypeOK <=> TablesOK /\ TabsOK /\ ForeignKeys
BY DEF TypeOK, TabsOK, ForeignKeys

LEMMA BlankIsTab == Blank \in Tab
BY DEF Blank, Tab

LEMMA Placed ==
  ASSUME TabsOK, NEW t \in Tabs, NEW content \in Tab, tab' = [tab EXCEPT ![t] = content]
  PROVE  /\ tab' \in [Tabs -> Tab] /\ tab'[t] = content
         /\ \A x \in Tabs \ {t} : tab'[x] = tab[x]
BY DEF TabsOK

\* A tab that does nothing keeps its page in order, as long as accounts stay
\* and papeis keep their names.
LEMMA Frame ==
  ASSUME NEW x \in Tabs, PageOK(x), tab'[x] = tab[x], criando'[x] = criando[x],
         contas \subseteq contas', NamesKept
  PROVE  PageOK(x)'
<1>1. ASSUME tab[x].page = "excluir"
      PROVE  /\ papeis'[tab[x].papel] # Unborn
             /\ Live(tab[x].papel)' =>
                  papeis'[tab[x].papel] = [app |-> tab[x].app, codigo |-> tab[x].codigo]
  <2>1. tab[x].papel \in PapelIds /\ papeis[tab[x].papel] # Unborn
    BY <1>1 DEF PageOK
  <2>2. CASE papeis'[tab[x].papel] = papeis[tab[x].papel]
    BY <1>1, <2>1, <2>2 DEF PageOK, Live
  <2>3. CASE papeis'[tab[x].papel] = Deleted
    BY <2>3, PagesAssumption DEF Live
  <2> QED
    BY <2>1, <2>2, <2>3 DEF NamesKept
<1> QED
  BY <1>1 DEF PageOK, On

\* A step of t: what is left to show is t's own page.
LEMMA ActsInv ==
  ASSUME Inv, NEW t \in Tabs, NEW content \in Tab, tab' = [tab EXCEPT ![t] = content],
         TablesOK', ForeignKeys', criando' \in [Tabs -> Users \cup {NoUser}],
         \A x \in Tabs \ {t} : criando'[x] = criando[x],
         contas \subseteq contas', NamesKept, tab'[t] = content => PageOK(t)'
  PROVE  Inv'
<1>1. TablesOK /\ TabsOK /\ ForeignKeys /\ PagesInv
  BY TypeParts DEF Inv
<1>2. /\ tab' \in [Tabs -> Tab] /\ tab'[t] = content
      /\ \A x \in Tabs \ {t} : tab'[x] = tab[x]
  BY <1>1, Placed
<1>3. ASSUME NEW x \in Tabs, x # t PROVE PageOK(x)'
  <2>1. PageOK(x)
    BY <1>1 DEF PagesInv
  <2> QED
    BY <1>2, <1>3, <2>1, Frame
<1>4. PagesInv'
  BY <1>2, <1>3 DEF PagesInv
<1> QED
  BY <1>2, <1>4 DEF Inv, TypeOK, ForeignKeys

\* A step on the tables alone.
LEMMA TablesInv ==
  ASSUME Inv, UNCHANGED <<tab, criando>>, TablesOK', ForeignKeys',
         contas \subseteq contas', NamesKept
  PROVE  Inv'
<1>1. TabsOK /\ PagesInv
  BY TypeParts DEF Inv
<1>2. ASSUME NEW x \in Tabs PROVE PageOK(x)'
  <2>1. PageOK(x)
    BY <1>1 DEF PagesInv
  <2> QED
    BY <2>1, Frame
<1>3. PagesInv'
  BY <1>2 DEF PagesInv
<1> QED
  BY <1>1, <1>3 DEF Inv, TypeOK, TabsOK, ForeignKeys

LEMMA SameNames == papeis' = papeis => NamesKept
BY DEF NamesKept

\* A handler reads: t's page changes, and nothing else.
LEMMA ReadsInv ==
  ASSUME Inv, NEW t \in Tabs, NEW c \in Tab, tab' = [tab EXCEPT ![t] = c],
         UNCHANGED <<tables, criando>>, tab'[t] = c => PageOK(t)'
  PROVE  Inv'
<1>1. TablesOK /\ TabsOK /\ ForeignKeys
  BY TypeParts DEF Inv
<1>2. TablesOK' /\ ForeignKeys' /\ criando' \in [Tabs -> Users \cup {NoUser}]
  BY <1>1 DEF TablesOK, ForeignKeys, TabsOK, Live, tables
<1> QED
  BY <1>2, SameNames, ActsInv DEF tables

\* Opening a page: the content need only be in order by itself.
LEMMA OpensInv ==
  ASSUME Inv, NEW t \in Tabs, NEW content \in Tab, Opens(t, content),
         content.pc \in {"shown", "count", "list"},
         content.page = "excluir" =>
           /\ content.papel \in PapelIds /\ Live(content.papel)
           /\ papeis[content.papel] = [app |-> content.app, codigo |-> content.codigo],
         content.page \in {"sistema_usuarios", "sistema", "excluir"} => content.app \in Apps,
         content.page = "usuario" => content.user \in contas
  PROVE  Inv'
<1>1. tab' = [tab EXCEPT ![t] = content] /\ UNCHANGED <<tables, criando>>
  BY DEF Opens
<1>2. tab'[t] = content => PageOK(t)'
  BY <1>1 DEF PageOK, On, Live, tables
<1> QED
  BY <1>1, <1>2, ReadsInv

LEMMA LeaveInv ==
  ASSUME Inv, NEW t \in Tabs, Leave(t)
  PROVE  Inv'
<1>1. TablesOK /\ TabsOK /\ ForeignKeys
  BY TypeParts DEF Inv
<1>2. /\ tab' = [tab EXCEPT ![t] = Blank] /\ criando' = [criando EXCEPT ![t] = NoUser]
      /\ UNCHANGED <<papeis, grants, contas, ativo>>
  BY DEF Leave, tables
<1>3. tab'[t] = Blank => PageOK(t)'
  BY DEF PageOK, On, Blank
<1>4. TablesOK' /\ ForeignKeys'
  BY <1>1, <1>2 DEF TablesOK, ForeignKeys, Live
<1>5. /\ criando' \in [Tabs -> Users \cup {NoUser}]
      /\ \A x \in Tabs \ {t} : criando'[x] = criando[x]
  BY <1>1, <1>2 DEF TabsOK
<1> QED
  BY <1>2, <1>3, <1>4, <1>5, SameNames, BlankIsTab, ActsInv

LEMMA OpeningInv ==
  ASSUME Inv, NEW t \in Tabs, Opening(t)
  PROVE  Inv'
<1>1. TablesOK
  BY TypeParts DEF Inv
<1>2. ASSUME NEW p \in PapelIds, ExcluirForm(t, p) PROVE Inv'
  <2>0. PICK r \in Papel : r = papeis[p]
    BY <1>1, <1>2 DEF ExcluirForm, TablesOK, Live
  <2> DEFINE c == [Blank EXCEPT !.page = "excluir", !.pc = "count", !.papel = p,
                                !.app = r.app, !.codigo = r.codigo]
  <2>1. /\ c \in Tab /\ c.page = "excluir" /\ c.pc = "count" /\ c.papel = p
        /\ c.app = r.app /\ c.codigo = r.codigo /\ c.app \in Apps
    BY DEF Blank, Tab, Papel
  <2>2. Opens(t, c) /\ Live(p)
    BY <1>2, <2>0, Zenon DEF ExcluirForm
  <2>3. r = [app |-> r.app, codigo |-> r.codigo]
    BY DEF Papel
  <2> HIDE DEF c
  <2> QED
    BY <2>0, <2>1, <2>2, <2>3, OpensInv
<1>3. ASSUME NEW u \in Users, DetalheUsuario(t, u) PROVE Inv'
  <2>0. PICK h \in SUBSET Grant : h = {g \in grants : g[1] = u}
    BY <1>1 DEF TablesOK
  <2> DEFINE c == [Blank EXCEPT !.page = "usuario", !.pc = "list", !.user = u, !.tem = h]
  <2>1. c \in Tab /\ c.page = "usuario" /\ c.pc = "list" /\ c.user = u
    BY DEF Blank, Tab
  <2>2. Opens(t, c) /\ u \in contas
    BY <1>3, <2>0, Zenon DEF DetalheUsuario
  <2> HIDE DEF c
  <2> QED
    BY <2>1, <2>2, OpensInv
<1>4. CASE NovoForm(t)
  <2>0. PICK h \in SUBSET PapelIds : h = Disponiveis
    BY DEF Disponiveis
  <2> DEFINE c == [Blank EXCEPT !.page = "novo", !.pc = "shown", !.lista = h]
  <2>1. c \in Tab /\ c.page = "novo" /\ c.pc = "shown"
    BY DEF Blank, Tab
  <2>2. Opens(t, c)
    BY <1>4, <2>0, Zenon DEF NovoForm
  <2> HIDE DEF c
  <2> QED
    BY <2>1, <2>2, OpensInv
<1>5. ASSUME NEW app \in Apps, UsuariosDoSistema(t, app) PROVE Inv'
  <2>0. PICK h \in SUBSET Grant :
          h = {g \in grants : Live(g[2]) /\ papeis[g[2]].app = app}
    BY <1>1 DEF TablesOK
  <2> DEFINE c == [Blank EXCEPT !.page = "sistema_usuarios", !.pc = "shown", !.app = app,
                                !.tem = h]
  <2>1. c \in Tab /\ c.page = "sistema_usuarios" /\ c.pc = "shown" /\ c.app = app
    BY DEF Blank, Tab
  <2>2. Opens(t, c)
    BY <1>5, <2>0, Zenon DEF UsuariosDoSistema
  <2> HIDE DEF c
  <2> QED
    BY <2>1, <2>2, OpensInv
<1>6. ASSUME NEW app \in Apps, DetalheSistema(t, app) PROVE Inv'
  <2> DEFINE c == [Blank EXCEPT !.page = "sistema", !.pc = "shown", !.app = app,
                         !.ligado = ativo[app]]
  <2>1. c \in Tab /\ c.page = "sistema" /\ c.pc = "shown" /\ c.app = app
    BY <1>1 DEF Blank, Tab, TablesOK
  <2>2. Opens(t, c)
    BY <1>6 DEF DetalheSistema
  <2> HIDE DEF c
  <2> QED
    BY <2>1, <2>2, OpensInv
<1> QED
  BY <1>2, <1>3, <1>4, <1>5, <1>6 DEF Opening

\* Only the state of the request changes.
LEMMA GoesOn ==
  ASSUME NEW r \in Tab, NEW pc \in {"idle", "shown", "count", "delete", "list", "revoke",
                                    "grant"}
  PROVE  LET c == [r EXCEPT !.pc = pc] IN
         /\ c \in Tab /\ c.pc = pc /\ c.page = r.page /\ c.app = r.app
         /\ c.codigo = r.codigo /\ c.user = r.user
         /\ c.papel = r.papel /\ c.tem = r.tem /\ c.lista = r.lista
         /\ c.ligado = r.ligado
BY DEF Tab

\* A confirmation page stays in order as long as it names the same papel and
\* the papel keeps its name.
LEMMA StillNamed ==
  ASSUME NEW t \in Tabs, PageOK(t), NamesKept, tab[t].page = "excluir",
         tab'[t].page = "excluir", tab'[t].papel = tab[t].papel,
         tab'[t].app = tab[t].app, tab'[t].codigo = tab[t].codigo
  PROVE  PageOK(t)'
<1>1. /\ tab[t].papel \in PapelIds /\ papeis[tab[t].papel] # Unborn
      /\ tab[t].app \in Apps
      /\ Live(tab[t].papel) =>
           papeis[tab[t].papel] = [app |-> tab[t].app, codigo |-> tab[t].codigo]
  BY DEF PageOK
<1>2. /\ papeis'[tab[t].papel] # Unborn
      /\ papeis'[tab[t].papel] \notin {Unborn, Deleted} =>
           papeis'[tab[t].papel] = [app |-> tab[t].app, codigo |-> tab[t].codigo]
  <2>1. CASE papeis'[tab[t].papel] = papeis[tab[t].papel]
    BY <1>1, <2>1 DEF Live
  <2>2. CASE papeis'[tab[t].papel] = Deleted
    BY <2>2, PagesAssumption
  <2> QED
    BY <1>1, <2>1, <2>2 DEF NamesKept
<1> QED
  BY <1>1, <1>2 DEF PageOK, On, Live

LEMMA ReadingInv ==
  ASSUME Inv, NEW t \in Tabs, Reading(t)
  PROVE  Inv'
<1>1. TablesOK /\ TabsOK /\ PageOK(t)
  BY TypeParts DEF Inv, PagesInv
<1>2. PICK r \in Tab : r = tab[t]
  BY <1>1 DEF TabsOK
<1>3. CASE ExcluirCount(t)
  <2>1. PICK h \in SUBSET Grant : h = GrantsOf(r.papel)
    BY <1>1 DEF TablesOK, GrantsOf
  <2> DEFINE c == [r EXCEPT !.pc = "shown", !.tem = h]
  <2>2. /\ c \in Tab /\ c.page = r.page /\ c.app = r.app /\ c.codigo = r.codigo
        /\ c.papel = r.papel
    BY DEF Tab
  <2>3. tab' = [tab EXCEPT ![t] = c] /\ UNCHANGED <<tables, criando>> /\ r.page = "excluir"
    BY <1>2, <1>3, <2>1, Zenon DEF ExcluirCount, On
  <2> HIDE DEF c
  <2>4. NamesKept
    BY <2>3, SameNames DEF tables
  <2>5. tab'[t] = c => PageOK(t)'
    BY <1>1, <1>2, <2>2, <2>3, <2>4, StillNamed
  <2> QED
    BY <2>2, <2>3, <2>5, ReadsInv
<1>4. CASE DetalheDisponiveis(t)
  <2>1. PICK h \in SUBSET PapelIds : h = Disponiveis
    BY DEF Disponiveis
  <2> DEFINE c == [r EXCEPT !.pc = "shown", !.lista = h]
  <2>2. c \in Tab /\ c.pc = "shown" /\ c.page = r.page /\ c.user = r.user
    BY DEF Tab
  <2>3. tab' = [tab EXCEPT ![t] = c] /\ UNCHANGED <<tables, criando>> /\ r.page = "usuario"
    BY <1>2, <1>4, <2>1, Zenon DEF DetalheDisponiveis, On
  <2> HIDE DEF c
  <2>4. tab'[t] = c => PageOK(t)'
    BY <1>1, <1>2, <2>2, <2>3 DEF PageOK, On, tables
  <2> QED
    BY <2>2, <2>3, <2>4, ReadsInv
<1>5. CASE ExcluirFetch(t)
  <2> DEFINE c == [r EXCEPT !.pc = "delete"]
  <2>1. /\ c \in Tab /\ c.page = r.page /\ c.app = r.app /\ c.codigo = r.codigo
        /\ c.papel = r.papel
    BY GoesOn
  <2>2. tab' = [tab EXCEPT ![t] = c] /\ UNCHANGED <<tables, criando>> /\ r.page = "excluir"
    BY <1>2, <1>5 DEF ExcluirFetch, Goes, On
  <2> HIDE DEF c
  <2>3. NamesKept
    BY <2>2, SameNames DEF tables
  <2>4. tab'[t] = c => PageOK(t)'
    BY <1>1, <1>2, <2>1, <2>2, <2>3, StillNamed
  <2> QED
    BY <2>1, <2>2, <2>4, ReadsInv
<1>6. ASSUME NEW p \in PapelIds, RevogarFetch(t, p) PROVE Inv'
  <2> DEFINE c == [r EXCEPT !.pc = "revoke", !.papel = p]
  <2>1. /\ c \in Tab /\ c.pc = "revoke" /\ c.page = r.page /\ c.user = r.user
        /\ c.papel = p /\ c.tem = r.tem
    BY DEF Tab
  <2>2. tab' = [tab EXCEPT ![t] = c] /\ UNCHANGED <<tables, criando>>
        /\ r.page = "usuario" /\ <<r.user, p>> \in r.tem
    BY <1>2, <1>6 DEF RevogarFetch, On
  <2> HIDE DEF c
  <2>3. tab'[t] = c => PageOK(t)'
    BY <1>1, <1>2, <2>1, <2>2 DEF PageOK, On, tables
  <2> QED
    BY <2>1, <2>2, <2>3, ReadsInv
<1>7. CASE CriarRecusado(t)
  <2>1. PICK h \in SUBSET PapelIds : h = Disponiveis
    BY DEF Disponiveis
  <2> DEFINE c == [r EXCEPT !.lista = h]
  <2>2. c \in Tab /\ c.pc = r.pc /\ c.page = r.page
    BY DEF Tab
  <2>3. tab' = [tab EXCEPT ![t].lista = h] /\ UNCHANGED <<tables, criando>>
        /\ r.page = "novo" /\ r.pc = "shown"
    BY <1>2, <1>7, <2>1, Zenon DEF CriarRecusado, On
  <2>4. tab' = [tab EXCEPT ![t] = c]
    BY <1>2, <2>3
  <2> HIDE DEF c
  <2>5. tab'[t] = c => PageOK(t)'
    BY <2>2, <2>3 DEF PageOK, On
  <2> QED
    BY <2>2, <2>3, <2>4, <2>5, ReadsInv
<1> QED
  BY <1>3, <1>4, <1>5, <1>6, <1>7 DEF Reading

LEMMA CriarPapelInv ==
  ASSUME Inv, NEW p \in PapelIds, NEW app \in Apps, NEW codigo \in Codigos,
         CriarPapel(p, app, codigo)
  PROVE  Inv'
<1>1. TablesOK /\ TabsOK /\ ForeignKeys
  BY TypeParts DEF Inv
<1>2. /\ papeis[p] = Unborn
      /\ papeis' = [papeis EXCEPT ![p] = [app |-> app, codigo |-> codigo]]
      /\ UNCHANGED <<grants, contas, ativo, tab, criando>>
  BY DEF CriarPapel
<1>3. [app |-> app, codigo |-> codigo] \in Papel
  BY DEF Papel
<1>4. TablesOK'
  BY <1>1, <1>2, <1>3 DEF TablesOK
<1>5. \A q \in PapelIds : papeis[q] # Unborn => papeis'[q] = papeis[q]
  BY <1>1, <1>2 DEF TablesOK
<1>6. NamesKept
  BY <1>5 DEF NamesKept
<1>7. ForeignKeys'
  <2>1. ASSUME NEW g \in grants PROVE g[1] \in contas /\ Live(g[2])'
    <3>1. Live(g[2]) /\ g[1] \in contas /\ g[2] \in PapelIds
      BY <1>1 DEF ForeignKeys, TablesOK, Grant
    <3>2. papeis'[g[2]] = papeis[g[2]]
      BY <1>5, <3>1 DEF Live
    <3> QED
      BY <3>1, <3>2 DEF Live
  <2> QED
    BY <1>2, <2>1 DEF ForeignKeys
<1> QED
  BY <1>2, <1>4, <1>6, <1>7, TablesInv

LEMMA ExcluirInv ==
  ASSUME Inv, NEW t \in Tabs, ExcluirDelete(t)
  PROVE  Inv'
<1>1. TablesOK /\ TabsOK /\ ForeignKeys /\ PageOK(t)
  BY TypeParts DEF Inv, PagesInv
<1>2. PICK r \in Tab : r = tab[t]
  BY <1>1 DEF TabsOK
<1>3. /\ r.page = "excluir" /\ r.pc = "delete"
      /\ papeis' = IF Live(r.papel) THEN [papeis EXCEPT ![r.papel] = Deleted] ELSE papeis
      /\ grants' = grants \ GrantsOf(r.papel)
      /\ UNCHANGED <<contas, ativo, criando>>
  BY <1>2 DEF ExcluirDelete, On
<1>4. r.papel \in PapelIds
  BY <1>1, <1>2, <1>3 DEF PageOK
<1>5. TablesOK'
  BY <1>1, <1>3, <1>4 DEF TablesOK
<1>6. NamesKept
  BY <1>1, <1>3, <1>4 DEF NamesKept, TablesOK
<1>7. ForeignKeys'
  <2>1. ASSUME NEW g \in grants' PROVE g[1] \in contas /\ Live(g[2])'
    <3>1. g \in grants /\ g[2] # r.papel /\ Live(g[2]) /\ g[1] \in contas /\ g[2] \in PapelIds
      BY <1>1, <1>3 DEF GrantsOf, ForeignKeys, TablesOK, Grant
    <3>2. papeis'[g[2]] = papeis[g[2]]
      BY <1>1, <1>3, <1>4, <3>1 DEF TablesOK
    <3> QED
      BY <3>1, <3>2 DEF Live
  <2> QED
    BY <1>3, <2>1 DEF ForeignKeys
<1> DEFINE c == [r EXCEPT !.pc = "shown"]
<1>8. /\ c \in Tab /\ c.page = r.page /\ c.app = r.app /\ c.codigo = r.codigo
      /\ c.papel = r.papel
  BY GoesOn
<1>9. tab' = [tab EXCEPT ![t] = c]
  BY <1>2 DEF ExcluirDelete, Goes
<1> HIDE DEF c
<1>10. tab'[t] = c => PageOK(t)'
  BY <1>1, <1>2, <1>3, <1>6, <1>8, StillNamed
<1>11. /\ criando' \in [Tabs -> Users \cup {NoUser}]
       /\ \A x \in Tabs \ {t} : criando'[x] = criando[x]
  BY <1>1, <1>3 DEF TabsOK
<1> QED
  BY <1>3, <1>5, <1>6, <1>7, <1>8, <1>9, <1>10, <1>11, ActsInv

\* A step that only adds or takes grants: the rest of the tables is as it was.
LEMMA RevokedOK ==
  ASSUME TablesOK, ForeignKeys, grants' \subseteq grants, UNCHANGED <<papeis, contas, ativo>>
  PROVE  TablesOK' /\ ForeignKeys'
BY DEF TablesOK, ForeignKeys, Live

LEMMA GrantedOK ==
  ASSUME TablesOK, ForeignKeys, NEW u \in contas, NEW p \in PapelIds, Grants(u, p),
         UNCHANGED <<papeis, contas, ativo>>
  PROVE  TablesOK' /\ ForeignKeys'
<1>1. <<u, p>> \in Grant
  BY DEF TablesOK, Grant
<1> QED
  BY <1>1 DEF Grants, TablesOK, ForeignKeys, Live

LEMMA RevogarInv ==
  ASSUME Inv, NEW t \in Tabs, RevogarDelete(t)
  PROVE  Inv'
<1>1. TablesOK /\ TabsOK /\ ForeignKeys /\ PageOK(t)
  BY TypeParts DEF Inv, PagesInv
<1>2. PICK r \in Tab : r = tab[t]
  BY <1>1 DEF TabsOK
<1> DEFINE c == [r EXCEPT !.pc = "shown", !.papel = NoPapel]
<1>3. c \in Tab /\ c.pc = "shown" /\ c.page = r.page /\ c.user = r.user
  BY DEF Tab
<1>4. /\ tab' = [tab EXCEPT ![t] = c] /\ r.page = "usuario"
      /\ grants' \subseteq grants
      /\ UNCHANGED <<papeis, contas, ativo, criando>>
  BY <1>2 DEF RevogarDelete, On
<1> HIDE DEF c
<1>5. TablesOK' /\ ForeignKeys'
  BY <1>1, <1>4, RevokedOK
<1>6. tab'[t] = c => PageOK(t)'
  BY <1>1, <1>2, <1>3, <1>4 DEF PageOK, On
<1>7. criando' \in [Tabs -> Users \cup {NoUser}]
  BY <1>1, <1>4 DEF TabsOK
<1> QED
  BY <1>3, <1>4, <1>5, <1>6, <1>7, SameNames, ActsInv

LEMMA ConcederInv ==
  ASSUME Inv, NEW t \in Tabs, NEW p \in PapelIds, Conceder(t, p)
  PROVE  Inv'
<1>1. TablesOK /\ ForeignKeys /\ PageOK(t)
  BY TypeParts DEF Inv, PagesInv
<1>2. /\ tab[t].user \in contas /\ Grants(tab[t].user, p)
      /\ UNCHANGED <<papeis, contas, ativo, tab, criando>>
  BY <1>1 DEF Conceder, PageOK, On
<1>3. TablesOK' /\ ForeignKeys'
  BY <1>1, <1>2, GrantedOK
<1> QED
  BY <1>2, <1>3, SameNames, TablesInv

LEMMA GrantInicialInv ==
  ASSUME Inv, NEW t \in Tabs, GrantInicial(t)
  PROVE  Inv'
<1>1. TablesOK /\ TabsOK /\ ForeignKeys /\ PageOK(t)
  BY TypeParts DEF Inv, PagesInv
<1>2. PICK r \in Tab : r = tab[t]
  BY <1>1 DEF TabsOK
<1> DEFINE c == [r EXCEPT !.pc = "shown", !.user = NoUser, !.papel = NoPapel]
<1>3. c \in Tab /\ c.pc = "shown" /\ c.page = r.page
  BY DEF Tab
<1>4. /\ tab' = [tab EXCEPT ![t] = c] /\ r.page = "novo" /\ Grants(r.user, r.papel)
      /\ criando' = [criando EXCEPT ![t] = NoUser]
      /\ UNCHANGED <<papeis, contas, ativo>>
  BY <1>2 DEF GrantInicial, On
<1>5. r.user \in contas /\ r.papel \in PapelIds
  BY <1>1, <1>2 DEF GrantInicial, PageOK, On, Tab
<1> HIDE DEF c
<1>6. TablesOK' /\ ForeignKeys'
  BY <1>1, <1>4, <1>5, GrantedOK
<1>7. /\ criando' \in [Tabs -> Users \cup {NoUser}]
      /\ \A x \in Tabs \ {t} : criando'[x] = criando[x]
  BY <1>1, <1>4 DEF TabsOK
<1>8. tab'[t] = c => PageOK(t)'
  BY <1>3, <1>4 DEF PageOK, On
<1> QED
  BY <1>3, <1>4, <1>6, <1>7, <1>8, SameNames, ActsInv

LEMMA CriarContaInv ==
  ASSUME Inv, NEW t \in Tabs, NEW u \in Users, NEW p \in PapelIds \cup {NoPapel},
         CriarConta(t, u, p)
  PROVE  Inv'
<1>1. TablesOK /\ TabsOK /\ ForeignKeys /\ PageOK(t)
  BY TypeParts DEF Inv, PagesInv
<1>2. PICK r \in Tab : r = tab[t]
  BY <1>1 DEF TabsOK
<1>3. /\ r.page = "novo" /\ r.pc = "shown" /\ contas' = contas \cup {u}
      /\ p \in r.lista \cup {NoPapel}
      /\ criando' = IF p = NoPapel THEN criando ELSE [criando EXCEPT ![t] = u]
      /\ UNCHANGED <<papeis, grants, ativo>>
      /\ tab' = [tab EXCEPT ![t] =
           IF p = NoPapel THEN r ELSE [r EXCEPT !.pc = "grant", !.user = u, !.papel = p]]
  BY <1>2 DEF CriarConta, On
<1>4. TablesOK' /\ ForeignKeys' /\ contas \subseteq contas'
  BY <1>1, <1>3 DEF TablesOK, ForeignKeys, Live
<1>5. /\ criando' \in [Tabs -> Users \cup {NoUser}]
      /\ \A x \in Tabs \ {t} : criando'[x] = criando[x]
  BY <1>1, <1>3 DEF TabsOK
<1>6. CASE p = NoPapel
  <2>1. tab' = [tab EXCEPT ![t] = r]
    BY <1>3, <1>6
  <2>2. tab'[t] = r => PageOK(t)'
    BY <1>3 DEF PageOK, On
  <2> QED
    BY <1>3, <1>4, <1>5, <2>1, <2>2, SameNames, ActsInv
<1>7. CASE p # NoPapel
  <2> DEFINE c == [r EXCEPT !.pc = "grant", !.user = u, !.papel = p]
  <2>1. /\ c \in Tab /\ c.pc = "grant" /\ c.page = r.page /\ c.user = u /\ c.papel = p
        /\ c.lista = r.lista
    BY DEF Tab
  <2>2. tab' = [tab EXCEPT ![t] = c]
    BY <1>3, <1>7
  <2>3. criando'[t] = u
    BY <1>1, <1>3, <1>7 DEF TabsOK
  <2> HIDE DEF c
  <2>4. tab'[t] = c => PageOK(t)'
    BY <1>3, <1>4, <1>7, <2>1, <2>3 DEF PageOK, On
  <2> QED
    BY <1>3, <1>4, <1>5, <2>1, <2>2, <2>4, SameNames, ActsInv
<1> QED
  BY <1>6, <1>7

LEMMA WritingInv ==
  ASSUME Inv, NEW t \in Tabs, Writing(t)
  PROVE  Inv'
<1>1. TablesOK /\ TabsOK /\ ForeignKeys
  BY TypeParts DEF Inv
<1>2. CASE ExcluirDelete(t) \/ RevogarDelete(t) \/ GrantInicial(t)
  BY <1>2, ExcluirInv, RevogarInv, GrantInicialInv
<1>3. ASSUME NEW p \in PapelIds, Conceder(t, p) PROVE Inv'
  BY <1>3, ConcederInv
<1>4. ASSUME NEW g \in Grant, RevogarNoSistema(t, g) PROVE Inv'
  <2>1. grants' \subseteq grants /\ UNCHANGED <<papeis, contas, ativo, tab, criando>>
    BY <1>4 DEF RevogarNoSistema
  <2>2. TablesOK' /\ ForeignKeys'
    BY <1>1, <2>1, RevokedOK
  <2> QED
    BY <2>1, <2>2, SameNames, TablesInv
<1>5. ASSUME NEW u \in Users, NEW p \in PapelIds \cup {NoPapel}, CriarConta(t, u, p) PROVE Inv'
  BY <1>5, CriarContaInv
<1>6. ASSUME NEW u \in Users, CriarSemResposta(t, u) PROVE Inv'
  <2>1. contas' = contas \cup {u} /\ UNCHANGED <<papeis, grants, ativo, tab, criando>>
    BY <1>6 DEF CriarSemResposta
  <2>2. TablesOK' /\ ForeignKeys'
    BY <1>1, <2>1 DEF TablesOK, ForeignKeys, Live
  <2> QED
    BY <2>1, <2>2, SameNames, TablesInv
<1>7. CASE Desativar(t) \/ Ativar(t) \/ Atualizar(t)
  <2>1. ativo' \in [Apps -> BOOLEAN]
    BY <1>1, <1>7 DEF Desativar, Ativar, Atualizar, TablesOK, vars, tables
  <2>2. UNCHANGED <<papeis, grants, contas, tab, criando>>
    BY <1>7 DEF Desativar, Ativar, Atualizar, vars, tables
  <2>3. TablesOK' /\ ForeignKeys'
    BY <1>1, <2>1, <2>2 DEF TablesOK, ForeignKeys, Live
  <2> QED
    BY <2>2, <2>3, SameNames, TablesInv
<1> QED
  BY <1>2, <1>3, <1>4, <1>5, <1>6, <1>7 DEF Writing

LEMMA InitInv == Init => Inv
<1> SUFFICES ASSUME Init PROVE Inv
  OBVIOUS
<1>1. TablesOK /\ ForeignKeys
  BY PagesAssumption DEF Init, TablesOK, ForeignKeys, Grant
<1>2. TabsOK
  BY BlankIsTab DEF Init, TabsOK
<1>3. \A t \in Tabs : tab[t] = Blank
  BY DEF Init
<1>4. PagesInv
  BY <1>3 DEF PagesInv, PageOK, On, Blank
<1> QED
  BY <1>1, <1>2, <1>4, TypeParts DEF Inv

LEMMA NextInv == Inv /\ [Next]_vars => Inv'
<1> SUFFICES ASSUME Inv, [Next]_vars PROVE Inv'
  OBVIOUS
<1>1. ASSUME NEW p \in PapelIds, NEW app \in Apps, NEW codigo \in Codigos,
             CriarPapel(p, app, codigo)
      PROVE  Inv'
  BY <1>1, CriarPapelInv
<1>2. ASSUME NEW t \in Tabs, Leave(t) \/ Opening(t) \/ Reading(t) \/ Writing(t) PROVE Inv'
  BY <1>2, LeaveInv, OpeningInv, ReadingInv, WritingInv
<1>3. CASE UNCHANGED vars
  <2>1. TablesOK /\ ForeignKeys
    BY TypeParts DEF Inv
  <2>2. TablesOK' /\ ForeignKeys'
    BY <1>3, <2>1 DEF TablesOK, ForeignKeys, Live, vars, tables
  <2> QED
    BY <1>3, <2>2, SameNames, TablesInv DEF vars, tables
<1> QED
  BY <1>1, <1>2, <1>3 DEF Next

THEOREM Invariance == Spec => []Inv
<1> QED
  BY InitInv, NextInv, PTL DEF Spec

\* The tables' foreign keys hold through every interleaving of pages.
THEOREM PagesTypeCorrect == Spec => []TypeOK
<1>1. Inv => TypeOK
  BY DEF Inv
<1> QED
  BY Invariance, <1>1, PTL

\* What a button does is about what its page was read with.
THEOREM ButtonsKeepTheirPage == Spec => []PagesInv
<1>1. Inv => PagesInv
  BY DEF Inv
<1> QED
  BY Invariance, <1>1, PTL

\* Only the buttons write: opening, reading and leaving change no table.
LEMMA OpeningWritesNothing ==
  ASSUME NEW t \in Tabs, Opening(t)
  PROVE  UNCHANGED tables
<1>1. ASSUME NEW page, Opens(t, page) PROVE UNCHANGED tables
  BY <1>1 DEF Opens
<1>2. ASSUME NEW p \in PapelIds, ExcluirForm(t, p) PROVE UNCHANGED tables
  <2> DEFINE page == [Blank EXCEPT !.page = "excluir", !.pc = "count", !.papel = p,
                                   !.app = papeis[p].app, !.codigo = papeis[p].codigo]
  <2>1. Opens(t, page)
    BY <1>2, Zenon DEF ExcluirForm
  <2> QED
    BY <1>1, <2>1, Zenon
<1>3. ASSUME NEW u \in Users, DetalheUsuario(t, u) PROVE UNCHANGED tables
  <2> DEFINE page == [Blank EXCEPT !.page = "usuario", !.pc = "list", !.user = u,
                                   !.tem = {g \in grants : g[1] = u}]
  <2>1. Opens(t, page)
    BY <1>3, Zenon DEF DetalheUsuario
  <2> QED
    BY <1>1, <2>1, Zenon
<1>4. ASSUME NovoForm(t) PROVE UNCHANGED tables
  <2> DEFINE page == [Blank EXCEPT !.page = "novo", !.pc = "shown", !.lista = Disponiveis]
  <2>1. Opens(t, page)
    BY <1>4, Zenon DEF NovoForm
  <2> QED
    BY <1>1, <2>1, Zenon
<1>5. ASSUME NEW app \in Apps, UsuariosDoSistema(t, app) PROVE UNCHANGED tables
  <2> DEFINE page == [Blank EXCEPT
                !.page = "sistema_usuarios", !.pc = "shown", !.app = app,
                !.tem = {g \in grants : Live(g[2]) /\ papeis[g[2]].app = app}]
  <2>1. Opens(t, page)
    BY <1>5, Zenon DEF UsuariosDoSistema
  <2> QED
    BY <1>1, <2>1, Zenon
<1>6. ASSUME NEW app \in Apps, DetalheSistema(t, app) PROVE UNCHANGED tables
  BY <1>6 DEF DetalheSistema, Opens
<1> QED
  BY <1>2, <1>3, <1>4, <1>5, <1>6, Zenon DEF Opening

LEMMA ReadingWritesNothing ==
  ASSUME NEW t \in Tabs, Reading(t)
  PROVE  UNCHANGED tables
<1>1. ASSUME ExcluirCount(t) PROVE UNCHANGED tables
  BY <1>1, Zenon DEF ExcluirCount
<1>2. ASSUME DetalheDisponiveis(t) PROVE UNCHANGED tables
  BY <1>2, Zenon DEF DetalheDisponiveis
<1>3. ASSUME ExcluirFetch(t) PROVE UNCHANGED tables
  BY <1>3, Zenon DEF ExcluirFetch
<1>4. ASSUME NEW p \in PapelIds, RevogarFetch(t, p) PROVE UNCHANGED tables
  BY <1>4, Zenon DEF RevogarFetch
<1>5. ASSUME CriarRecusado(t) PROVE UNCHANGED tables
  BY <1>5, Zenon DEF CriarRecusado
<1> QED
  BY <1>1, <1>2, <1>3, <1>4, <1>5, Zenon DEF Reading

LEMMA PagesOnlyRead ==
  ASSUME NEW t \in Tabs, Leave(t) \/ Opening(t) \/ Reading(t)
  PROVE  UNCHANGED tables
<1>1. CASE Leave(t)
  BY <1>1 DEF Leave
<1> QED
  BY <1>1, OpeningWritesNothing, ReadingWritesNothing

\* What the writes of a button do to each table.
LEMMA WhoWrites ==
  ASSUME NEW t \in Tabs, Writing(t)
  PROVE  /\ grants' # grants =>
              \/ ExcluirDelete(t) \/ RevogarDelete(t) \/ GrantInicial(t)
              \/ \E p \in PapelIds : Conceder(t, p)
              \/ \E g \in Grant : RevogarNoSistema(t, g)
         /\ ativo' # ativo => Desativar(t) \/ Ativar(t)
<1>1. ASSUME ExcluirDelete(t) PROVE ativo' = ativo
  BY <1>1 DEF ExcluirDelete
<1>2. ASSUME RevogarDelete(t) PROVE ativo' = ativo
  BY <1>2 DEF RevogarDelete
<1>3. ASSUME NEW p \in PapelIds, Conceder(t, p) PROVE ativo' = ativo
  BY <1>3 DEF Conceder
<1>4. ASSUME NEW g \in Grant, RevogarNoSistema(t, g) PROVE ativo' = ativo
  BY <1>4 DEF RevogarNoSistema
<1>5. ASSUME NEW u \in Users, NEW p \in PapelIds \cup {NoPapel}, CriarConta(t, u, p)
      PROVE  UNCHANGED <<grants, ativo>>
  BY <1>5 DEF CriarConta
<1>6. ASSUME NEW u \in Users, CriarSemResposta(t, u) PROVE UNCHANGED <<grants, ativo>>
  BY <1>6 DEF CriarSemResposta
<1>7. ASSUME GrantInicial(t) PROVE ativo' = ativo
  BY <1>7 DEF GrantInicial
<1>8. ASSUME Desativar(t) \/ Ativar(t) PROVE grants' = grants
  BY <1>8 DEF Desativar, Ativar
<1>9. ASSUME Atualizar(t) PROVE UNCHANGED <<grants, ativo>>
  BY <1>9 DEF Atualizar, vars, tables
<1> QED
  BY <1>1, <1>2, <1>3, <1>4, <1>5, <1>6, <1>7, <1>8, <1>9 DEF Writing

LEMMA WritesAreButtons ==
  ASSUME [Next]_vars, grants' # grants \/ ativo' # ativo
  PROVE  \E t \in Tabs : Writing(t)
<1>1. ~ UNCHANGED vars
  BY DEF vars, tables
<1>2. ASSUME NEW p \in PapelIds, NEW app \in Apps, NEW codigo \in Codigos,
             CriarPapel(p, app, codigo)
      PROVE  FALSE
  BY <1>2 DEF CriarPapel
<1>3. ASSUME NEW t \in Tabs, Leave(t) \/ Opening(t) \/ Reading(t) PROVE FALSE
  BY <1>3, PagesOnlyRead DEF tables
<1> QED
  BY <1>1, <1>2, <1>3 DEF Next

\* No deletion and no revocation, from however old a page, takes a papel from
\* somebody but the one its request names: a deletion its own papel, never the
\* one created since under the same codigo.
THEOREM LossesHaveTheirRequest == Spec => LossesWereNamed
<1>1. ASSUME Inv, [Next]_vars, NEW g \in grants \ grants'
      PROVE  \E t \in Tabs :
           \/ On(t, "excluir", "delete") /\ tab[t].papel = g[2]
           \/ /\ g \in tab[t].tem
              /\ \/ On(t, "usuario", "revoke") /\ g = <<tab[t].user, tab[t].papel>>
                 \/ On(t, "sistema_usuarios", "shown")
  <2>1. PICK t \in Tabs : Writing(t)
    BY <1>1, WritesAreButtons
  <2>2. PageOK(t)
    BY <1>1 DEF Inv, PagesInv
  <2>3. \/ ExcluirDelete(t) \/ RevogarDelete(t) \/ GrantInicial(t)
        \/ \E p \in PapelIds : Conceder(t, p)
        \/ \E h \in Grant : RevogarNoSistema(t, h)
    BY <1>1, <2>1, WhoWrites
  <2>4. CASE ExcluirDelete(t)
    <3>1. On(t, "excluir", "delete") /\ g \in GrantsOf(tab[t].papel)
      BY <1>1, <2>4 DEF ExcluirDelete
    <3> QED
      BY <3>1 DEF GrantsOf
  <2>5. CASE RevogarDelete(t)
    <3>1. On(t, "usuario", "revoke") /\ g = <<tab[t].user, tab[t].papel>>
      BY <1>1, <2>5 DEF RevogarDelete
    <3>2. g \in tab[t].tem
      BY <2>2, <3>1 DEF PageOK
    <3> QED
      BY <3>1, <3>2
  <2>6. CASE GrantInicial(t) \/ \E p \in PapelIds : Conceder(t, p)
    <3>1. grants \subseteq grants'
      BY <2>6 DEF GrantInicial, Conceder, Grants
    <3> QED
      BY <1>1, <3>1
  <2>7. ASSUME NEW h \in Grant, RevogarNoSistema(t, h)
        PROVE  g \in tab[t].tem /\ On(t, "sistema_usuarios", "shown")
    BY <1>1, <2>7 DEF RevogarNoSistema
  <2> QED
    BY <2>3, <2>4, <2>5, <2>6, <2>7
<1> DEFINE Claim ==
       \A g \in grants \ grants' :
         \E t \in Tabs :
           \/ On(t, "excluir", "delete") /\ tab[t].papel = g[2]
           \/ /\ g \in tab[t].tem
              /\ \/ On(t, "usuario", "revoke") /\ g = <<tab[t].user, tab[t].papel>>
                 \/ On(t, "sistema_usuarios", "shown")
<1>2. Inv /\ [Next]_vars => Claim
  BY <1>1
<1> QED
  BY <1>2, Invariance, PTL DEF Spec, LossesWereNamed

\* A papel given at creation goes to the account that creation made.
THEOREM CreationSparesOthers == Spec => ExistingAccountsUntouched
<1>1. ASSUME Inv, [Next]_vars, NEW g \in grants' \ grants
      PROVE  \E t \in Tabs : /\ g[2] \in tab[t].lista
                             /\ \/ tab[t].page = "usuario" /\ tab[t].user = g[1]
                                \/ On(t, "novo", "grant") /\ criando[t] = g[1]
  <2>1. PICK t \in Tabs : Writing(t)
    BY <1>1, WritesAreButtons
  <2>2. PageOK(t)
    BY <1>1 DEF Inv, PagesInv
  <2>3. \/ ExcluirDelete(t) \/ RevogarDelete(t) \/ GrantInicial(t)
        \/ \E p \in PapelIds : Conceder(t, p)
        \/ \E h \in Grant : RevogarNoSistema(t, h)
    BY <1>1, <2>1, WhoWrites
  <2>4. CASE GrantInicial(t)
    <3>1. On(t, "novo", "grant") /\ g = <<tab[t].user, tab[t].papel>>
      BY <1>1, <2>4 DEF GrantInicial, Grants
    <3> QED
      BY <2>2, <3>1 DEF PageOK, On
  <2>5. ASSUME NEW p \in PapelIds, Conceder(t, p)
        PROVE  g[2] \in tab[t].lista /\ tab[t].page = "usuario" /\ tab[t].user = g[1]
    BY <1>1, <2>5 DEF Conceder, Grants, On
  <2>6. ASSUME ExcluirDelete(t) \/ RevogarDelete(t) \/ \E h \in Grant : RevogarNoSistema(t, h)
        PROVE  FALSE
    <3>1. grants' \subseteq grants
      BY <2>6 DEF ExcluirDelete, RevogarDelete, RevogarNoSistema
    <3> QED
      BY <1>1, <3>1
  <2> QED
    BY <2>3, <2>4, <2>5, <2>6
<1> DEFINE Claim ==
       \A g \in grants' \ grants :
         \E t \in Tabs : /\ g[2] \in tab[t].lista
                         /\ \/ tab[t].page = "usuario" /\ tab[t].user = g[1]
                            \/ On(t, "novo", "grant") /\ criando[t] = g[1]
<1>2. Inv /\ [Next]_vars => Claim
  BY <1>1
<1> QED
  BY <1>2, Invariance, PTL DEF Spec, ExistingAccountsUntouched

\* Switching on and off is idempotent, whatever the page's age.
THEOREM SwitchesFollow == Spec => SwitchesFollowThePage
<1>1. ASSUME Inv, [Next]_vars, NEW app \in Apps, ativo'[app] # ativo[app]
      PROVE  \E t \in Tabs : /\ tab[t].page = "sistema" /\ tab[t].app = app
                             /\ ativo'[app] # tab[t].ligado
  <2>1. PICK t \in Tabs : Writing(t)
    BY <1>1, WritesAreButtons
  <2>2. Desativar(t) \/ Ativar(t)
    BY <1>1, <2>1, WhoWrites
  <2>3. tab[t].page = "sistema" /\ tab[t].app \in Apps /\ ativo \in [Apps -> BOOLEAN]
    BY <1>1, <2>2 DEF Desativar, Ativar, On, Inv, PagesInv, PageOK, TypeOK, TablesOK
  <2>4. CASE Desativar(t)
    BY <1>1, <2>3, <2>4 DEF Desativar
  <2>5. CASE Ativar(t)
    BY <1>1, <2>3, <2>5 DEF Ativar
  <2> QED
    BY <2>2, <2>4, <2>5
<1> DEFINE Claim ==
       \A app \in Apps :
         ativo'[app] # ativo[app] =>
           \E t \in Tabs : /\ tab[t].page = "sistema" /\ tab[t].app = app
                           /\ ativo'[app] # tab[t].ligado
<1>2. Inv /\ [Next]_vars => Claim
  BY <1>1
<1> QED
  BY <1>2, Invariance, PTL DEF Spec, SwitchesFollowThePage
=============================================================================
