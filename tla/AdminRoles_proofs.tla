------------------------- MODULE AdminRoles_proofs -------------------------
(***************************************************************************)
(* The tables, the cookies and the lockout, for any number of users, roles *)
(* and requests.                                                           *)
(***************************************************************************)
EXTENDS AdminRoles, FiniteSetTheorems, TLAPS

\* An entry names a papel that either means what it meant at login or is gone:
\* ids are never drawn again, and codigo is never written.
EntriesInv ==
  \A u \in Users : \A e \in session[u] \cup minted[u] :
    papeis[e.papel] \in {[app |-> e.app, codigo |-> e.codigo], Deleted}

\* The portal is a system from sql/0005 on; no aplicacao is ever deleted.
PortalThere == aplicacoes[Portal] # "ausente"

RolesInv == TypeOK /\ TablesConsistent /\ EntriesInv /\ PortalThere

\* What an entry of a token minted now says of its papel.
LEMMA AcessosFacts ==
  ASSUME TypeOK, NEW u \in Users
  PROVE  /\ Acessos(u) \subseteq Entry
         /\ \A e \in Acessos(u) : papeis[e.papel] = [app |-> e.app, codigo |-> e.codigo]
<1>1. ASSUME NEW e \in Acessos(u)
      PROVE  e \in Entry /\ papeis[e.papel] = [app |-> e.app, codigo |-> e.codigo]
  <2>1. PICK p \in PapelIds :
          Live(p) /\ e = [papel |-> p, app |-> papeis[p].app, codigo |-> papeis[p].codigo]
    BY <1>1 DEF Acessos
  <2>2. papeis[p] \in Papel
    BY <2>1 DEF TypeOK, Live
  <2>3. papeis[p] = [app |-> papeis[p].app, codigo |-> papeis[p].codigo]
    BY <2>2 DEF Papel
  <2> QED
    BY <2>1, <2>2, <2>3 DEF Entry, Papel
<1> QED
  BY <1>1

----------------------------------------------------------------------------
LEMMA IdleFacts == Idle \in Request /\ Idle.pc = "idle"
BY DEF Idle, Request

LEMMA RolesInit == Init => RolesInv
<1> SUFFICES ASSUME Init PROVE RolesInv
  OBVIOUS
<1>1. TypeOK
  <2>1. [app |-> Portal, codigo |-> Admin] \in Papel
    BY RolesAssumption DEF Papel
  <2>2. papeis \in [PapelIds -> Papel \cup {Unborn, Deleted}]
    BY <2>1 DEF Init
  <2>3. usuarioPapeis \subseteq Users \X PapelIds
    BY RolesAssumption DEF Init
  <2>4. req \in [Requests -> Request] /\ \A r \in Requests : FieldsOK(req[r])
    BY IdleFacts DEF Init, FieldsOK, GrantRoutes, PapelRoutes, SistemaRoutes
  <2> QED
    BY <2>2, <2>3, <2>4 DEF Init, TypeOK
<1>2. TablesConsistent
  <2>1. [app |-> Portal, codigo |-> Admin] \notin {Unborn, Deleted}
    BY RolesAssumption
  <2>2. \A p \in PapelIds : Live(p) => p = AdminPapel
    BY DEF Init, Live
  <2>3. \A g \in usuarioPapeis : g[2] = AdminPapel
    BY DEF Init
  <2>4. papeis[AdminPapel] = [app |-> Portal, codigo |-> Admin]
    BY RolesAssumption DEF Init
  <2>5. aplicacoes[Portal] = "ativo"
    BY RolesAssumption DEF Init
  <2> QED
    BY <2>1, <2>2, <2>3, <2>4, <2>5 DEF TablesConsistent, Live
<1>3. EntriesInv /\ PortalThere
  BY RolesAssumption DEF Init, EntriesInv, PortalThere
<1> QED
  BY <1>1, <1>2, <1>3 DEF RolesInv

----------------------------------------------------------------------------
(* Sessions *)

\* Entries come from the tables, or from a token that came from them.
LEMMA SessionSteps ==
  ASSUME RolesInv, NEW u \in Users,
         PasswordLogin(u) \/ LoginReply(u) \/ LoginFail(u) \/ EndSession(u)
  PROVE  RolesInv'
<1>1. UNCHANGED <<aplicacoes, papeis, usuarioPapeis, req>>
  BY DEF PasswordLogin, LoginReply, LoginFail, EndSession
<1>2. PICK s, m \in {Acessos(u), session[u], minted[u], {}} :
        session' = [session EXCEPT ![u] = s] /\ minted' = [minted EXCEPT ![u] = m]
  <2>1. session = [session EXCEPT ![u] = session[u]] /\ minted = [minted EXCEPT ![u] = minted[u]]
    BY DEF RolesInv, TypeOK
  <2> QED
    BY <2>1 DEF PasswordLogin, LoginReply, LoginFail, EndSession
<1>3. \A x \in {s, m} : x \subseteq Entry /\ \A e \in x :
        papeis[e.papel] \in {[app |-> e.app, codigo |-> e.codigo], Deleted}
  BY AcessosFacts DEF RolesInv, TypeOK, EntriesInv
<1>4. TypeOK'
  BY <1>1, <1>2, <1>3 DEF RolesInv, TypeOK, FieldsOK
<1>5. TablesConsistent' /\ PortalThere'
  BY <1>1 DEF RolesInv, TablesConsistent, Live, PortalThere
<1>6. EntriesInv'
  <2> SUFFICES ASSUME NEW v \in Users, NEW e \in session'[v] \cup minted'[v]
               PROVE  papeis[e.papel] \in {[app |-> e.app, codigo |-> e.codigo], Deleted}
    BY <1>1 DEF EntriesInv
  <2>1. e \in session[v] \cup minted[v] \/ e \in s \/ e \in m
    BY <1>2 DEF RolesInv, TypeOK
  <2> QED
    BY <1>3, <2>1 DEF RolesInv, EntriesInv
<1> QED
  BY <1>4, <1>5, <1>6 DEF RolesInv

----------------------------------------------------------------------------
(* Requests *)

\* A papel that was created stays created, so what the requests name does.
LEMMA RequestsKept ==
  ASSUME TypeOK, NEW r \in Requests, NEW v \in Request, FieldsOK(v)',
         req' = [req EXCEPT ![r] = v],
         \A p \in PapelIds : papeis[p] # Unborn => papeis'[p] # Unborn
  PROVE  req' \in [Requests -> Request] /\ \A q \in Requests : FieldsOK(req[q])'
<1>1. req' \in [Requests -> Request]
  BY DEF TypeOK
<1>2. ASSUME NEW q \in Requests PROVE FieldsOK(req[q])'
  <2>1. CASE q = r
    BY <2>1 DEF TypeOK, FieldsOK
  <2>2. CASE q # r
    <3>1. FieldsOK(req[q]) /\ req'[q] = req[q]
      BY <2>2 DEF TypeOK
    <3> QED
      BY <3>1 DEF FieldsOK
  <2> QED
    BY <2>1, <2>2
<1> QED
  BY <1>1, <1>2

LEMMA EndedRequest ==
  ASSUME TypeOK, NEW r \in Requests, req' = [req EXCEPT ![r] = Idle],
         \A p \in PapelIds : papeis[p] # Unborn => papeis'[p] # Unborn
  PROVE  req' \in [Requests -> Request] /\ \A q \in Requests : FieldsOK(req[q])'
<1>1. FieldsOK(Idle)'
  BY IdleFacts DEF FieldsOK, GrantRoutes, PapelRoutes, SistemaRoutes
<1> QED
  BY <1>1, IdleFacts, RequestsKept

\* A step of a request that writes no table.
LEMMA RequestOnly ==
  ASSUME RolesInv, NEW r \in Requests, NEW v \in Request, FieldsOK(v),
         req' = [req EXCEPT ![r] = v],
         UNCHANGED <<aplicacoes, papeis, usuarioPapeis, session, minted>>
  PROVE  RolesInv'
<1>1. req' \in [Requests -> Request] /\ \A q \in Requests : FieldsOK(req[q])'
  <2>1. FieldsOK(v)'
    BY DEF FieldsOK
  <2> QED
    BY <2>1, RequestsKept DEF RolesInv
<1>2. TypeOK'
  BY <1>1 DEF RolesInv, TypeOK
<1> QED
  BY <1>2 DEF RolesInv, TablesConsistent, EntriesInv, PortalThere, Live

\* What a request is admitted with, whatever its route.
LEMMA AdmissionFields ==
  ASSUME NEW r \in Requests, Admission(r)
  PROVE  \E v \in Request :
           /\ FieldsOK(v) /\ v.pc \in Routes /\ v.pc \in AllRoutes
           /\ req' = [req EXCEPT ![r] = v]
           /\ \E u \in Users : AdminEntry(session[u])
           /\ UNCHANGED <<aplicacoes, papeis, usuarioPapeis, session, minted>>
<1> USE DEF Idle, Request, FieldsOK, Admit, GrantRoutes, PapelRoutes, SistemaRoutes, AllRoutes
<1>1. CASE \E route \in GrantRoutes, u \in Users, p \in PapelIds : AdmitGrant(r, route, u, p)
  <2>1. PICK route \in GrantRoutes, u \in Users, p \in PapelIds : AdmitGrant(r, route, u, p)
    BY <1>1
  <2> DEFINE v == [Idle EXCEPT !.pc = route, !.user = u, !.papel = p]
  <2>2. v \in Request /\ FieldsOK(v) /\ v.pc = route
    BY <2>1 DEF AdmitGrant
  <2> QED
    BY <2>1, <2>2 DEF AdmitGrant
<1>2. CASE \E route \in PapelRoutes, p \in PapelIds : AdmitPapel(r, route, p)
  <2>1. PICK route \in PapelRoutes, p \in PapelIds : AdmitPapel(r, route, p)
    BY <1>2
  <2> DEFINE v == [Idle EXCEPT !.pc = route, !.papel = p]
  <2>2. v \in Request /\ FieldsOK(v) /\ v.pc = route
    BY <2>1 DEF AdmitPapel
  <2> QED
    BY <2>1, <2>2 DEF AdmitPapel
<1>3. CASE \E route \in SistemaRoutes, app \in Apps : AdmitSistema(r, route, app)
  <2>1. PICK route \in SistemaRoutes, app \in Apps : AdmitSistema(r, route, app)
    BY <1>3
  <2> DEFINE v == [Idle EXCEPT !.pc = route, !.app = app]
  <2>2. v \in Request /\ FieldsOK(v) /\ v.pc = route
    BY <2>1
  <2> QED
    BY <2>1, <2>2 DEF AdmitSistema
<1>4. CASE \E novo \in NovosPapeis : AdmitNovoPapel(r, novo)
  <2>1. PICK novo \in NovosPapeis : AdmitNovoPapel(r, novo)
    BY <1>4
  <2>2. novo.app \in Apps /\ novo.codigo \in Codigos
    BY RolesAssumption
  <2> DEFINE v == [Idle EXCEPT !.pc = "perfis_criar", !.app = novo.app, !.codigo = novo.codigo]
  <2>3. v \in Request /\ FieldsOK(v) /\ v.pc = "perfis_criar"
    BY <2>2
  <2> QED
    BY <2>1, <2>3 DEF AdmitNovoPapel
<1> QED
  BY <1>1, <1>2, <1>3, <1>4 DEF Admission

LEMMA AdmissionStep ==
  ASSUME RolesInv, NEW r \in Requests, Admission(r)
  PROVE  RolesInv'
BY AdmissionFields, RequestOnly

\* The steps before the delete of revogar_papel.
LEMMA GuardedFields ==
  ASSUME TypeOK, NEW r \in Requests, RevogarFetch(r) \/ RevogarCount(r)
  PROVE  \E v \in Request :
           /\ FieldsOK(v) /\ req' = [req EXCEPT ![r] = v]
           /\ v.pc = "revoke" => v.user = req[r].user /\ v.papel = req[r].papel
           /\ v.pc \in {"idle", "count", "revoke"}
<1>1. req[r] \in Request /\ FieldsOK(req[r]) /\ req \in [Requests -> Request]
  BY DEF TypeOK
<1>2. req[r].pc \in GrantRoutes \cup {"count"}
  BY DEF RevogarFetch, RevogarCount, GrantRoutes
<1>3. req[r].user \in Users /\ req[r].papel \in PapelIds /\ papeis[req[r].papel] # Unborn
  BY <1>1, <1>2 DEF FieldsOK
<1>4. CASE RevogarCount(r) /\ LastOne(req[r].papel)
  BY <1>4, IdleFacts DEF RevogarCount, FieldsOK, GrantRoutes, PapelRoutes, SistemaRoutes
<1>5. ASSUME NEW pc \in {"count", "revoke"}, NEW h \in SUBSET Users,
             req' = [req EXCEPT ![r].pc = pc, ![r].holders = h]
      PROVE  \E v \in Request :
               /\ FieldsOK(v) /\ req' = [req EXCEPT ![r] = v]
               /\ v.user = req[r].user /\ v.papel = req[r].papel
               /\ v.pc \in {"idle", "count", "revoke"}
  <2> DEFINE v == [req[r] EXCEPT !.pc = pc, !.holders = h]
  <2>1. /\ v \in Request /\ v.pc = pc
        /\ v.user = req[r].user /\ v.papel = req[r].papel
    BY <1>1, <1>5 DEF Request
  <2>2. req' = [req EXCEPT ![r] = v]
    BY <1>1, <1>5 DEF Request
  <2> HIDE DEF v
  <2>3. FieldsOK(v)
    BY <1>3, <2>1 DEF FieldsOK, GrantRoutes, PapelRoutes, SistemaRoutes
  <2> QED
    BY <1>5, <2>1, <2>2, <2>3
<1>6. CASE RevogarFetch(r)
  <2>1. PICK pc \in {"count", "revoke"} : req' = [req EXCEPT ![r].pc = pc]
    BY <1>6 DEF RevogarFetch
  <2>2. req[r].holders \in SUBSET Users
    BY <1>1 DEF Request
  <2>3. req' = [req EXCEPT ![r].pc = pc, ![r].holders = req[r].holders]
    BY <1>1, <2>1 DEF Request
  <2> QED
    BY <1>5, <2>2, <2>3
<1>7. CASE RevogarCount(r) /\ ~LastOne(req[r].papel)
  <2>1. Holders(req[r].papel) \in SUBSET Users
    BY DEF Holders
  <2> QED
    BY <1>5, <1>7, <2>1 DEF RevogarCount
<1> QED
  BY <1>4, <1>6, <1>7

LEMMA GuardedSteps ==
  ASSUME RolesInv, NEW r \in Requests,
         RevogarFetch(r) \/ RevogarCount(r) \/ EditarPapel(r) \/ Fail(r)
  PROVE  RolesInv'
<1>1. UNCHANGED <<aplicacoes, papeis, usuarioPapeis, session, minted>>
  BY DEF RevogarFetch, RevogarCount, EditarPapel, Fail
<1>2. CASE RevogarFetch(r) \/ RevogarCount(r)
  BY <1>1, <1>2, GuardedFields, RequestOnly DEF RolesInv
<1>3. CASE EditarPapel(r) \/ Fail(r)
  <2>1. req' = [req EXCEPT ![r] = Idle] /\ FieldsOK(Idle)
    BY <1>3, IdleFacts
    DEF EditarPapel, Fail, Ends, FieldsOK, GrantRoutes, PapelRoutes, SistemaRoutes
  <2> QED
    BY <1>1, <2>1, IdleFacts, RequestOnly
<1> QED
  BY <1>2, <1>3

----------------------------------------------------------------------------
(* The statements that write a table *)

LEMMA SistemaSteps ==
  ASSUME RolesInv, NEW r \in Requests, CriarSistema(r) \/ Ativar(r) \/ Desativar(r)
  PROVE  RolesInv'
<1>1. UNCHANGED <<papeis, usuarioPapeis, session, minted>> /\ req' = [req EXCEPT ![r] = Idle]
  BY DEF CriarSistema, Ativar, Desativar, Ends
<1>2. /\ aplicacoes' \in [Apps -> {"ausente", "ativo", "inativo"}]
      /\ \A a \in Apps : aplicacoes[a] # "ausente" => aplicacoes'[a] # "ausente"
  BY DEF CriarSistema, Ativar, Desativar, SetAtivo, RolesInv, TypeOK
<1>3. TypeOK'
  BY <1>1, <1>2, EndedRequest DEF RolesInv, TypeOK
<1>4. TablesConsistent'
  <2>1. \A p \in PapelIds : Live(p) => papeis[p].app \in Apps
    BY DEF RolesInv, TypeOK, Live, Papel
  <2> QED
    BY <1>1, <1>2, <2>1 DEF RolesInv, TablesConsistent, Live
<1>5. EntriesInv' /\ PortalThere'
  BY <1>1, <1>2, RolesAssumption DEF RolesInv, EntriesInv, PortalThere
<1> QED
  BY <1>3, <1>4, <1>5 DEF RolesInv

\* A papel that is written is new, and its codigo is free in its system.
LEMMA CriarPapelFacts ==
  ASSUME TypeOK, NEW r \in Requests, NEW p \in PapelIds, CriarPapel(r, p), papeis' # papeis
  PROVE  LET new == [app |-> req[r].app, codigo |-> req[r].codigo] IN
         /\ new \in Papel /\ new \notin {Unborn, Deleted}
         /\ papeis[p] = Unborn /\ aplicacoes[new.app] # "ausente"
         /\ \A q \in PapelIds : papeis[q] # new
         /\ papeis' = [papeis EXCEPT ![p] = new]
<1>1. req[r].app \in Apps /\ req[r].codigo \in Codigos
  BY DEF TypeOK, FieldsOK, CriarPapel, Ends
<1>2. [app |-> req[r].app, codigo |-> req[r].codigo] \in Papel
  BY <1>1 DEF Papel
<1>3. [app |-> req[r].app, codigo |-> req[r].codigo] \notin {Unborn, Deleted}
  BY <1>2, RolesAssumption DEF Papel
<1>4. ~(aplicacoes[req[r].app] = "ausente" \/ CodigoTaken(req[r].app, req[r].codigo))
  BY DEF CriarPapel
<1> QED
  BY <1>2, <1>3, <1>4 DEF CriarPapel, CodigoTaken

LEMMA CriarPapelStep ==
  ASSUME RolesInv, NEW r \in Requests, NEW p \in PapelIds, CriarPapel(r, p)
  PROVE  RolesInv'
<1> DEFINE new == [app |-> req[r].app, codigo |-> req[r].codigo]
<1>1. UNCHANGED <<aplicacoes, usuarioPapeis, session, minted>> /\ req' = [req EXCEPT ![r] = Idle]
  BY DEF CriarPapel, Ends
<1>2. CASE papeis' = papeis
  BY <1>1, <1>2, IdleFacts, RequestOnly DEF FieldsOK, GrantRoutes, PapelRoutes, SistemaRoutes
<1>3. CASE papeis' # papeis
  <2>1. /\ new \in Papel /\ new \notin {Unborn, Deleted}
        /\ papeis[p] = Unborn /\ aplicacoes[new.app] # "ausente"
        /\ \A q \in PapelIds : papeis[q] # new
        /\ papeis' = [papeis EXCEPT ![p] = new]
    BY <1>3, CriarPapelFacts DEF RolesInv
  <2> HIDE DEF new
  <2>2. papeis \in [PapelIds -> Papel \cup {Unborn, Deleted}]
    BY DEF RolesInv, TypeOK
  <2>3. /\ papeis' \in [PapelIds -> Papel \cup {Unborn, Deleted}]
        /\ papeis'[p] = new
        /\ \A q \in PapelIds \ {p} : papeis'[q] = papeis[q]
    BY <2>1, <2>2
  <2>4. \A q \in PapelIds : papeis[q] # Unborn => papeis'[q] # Unborn
    BY <2>1, <2>3
  <2>5. TypeOK'
    BY <1>1, <2>3, <2>4, EndedRequest DEF RolesInv, TypeOK
  <2>6. TablesConsistent'
    <3>1. \A g \in usuarioPapeis : g[2] \in PapelIds
      BY DEF RolesInv, TypeOK
    <3>2. \A g \in usuarioPapeis : papeis'[g[2]] \notin {Unborn, Deleted}
      BY <2>1, <2>3, <3>1 DEF RolesInv, TablesConsistent, Live
    <3>3. \A q \in PapelIds : papeis'[q] \notin {Unborn, Deleted} => aplicacoes[papeis'[q].app] # "ausente"
      BY <2>1, <2>3 DEF RolesInv, TablesConsistent, Live
    <3>4. \A q, s \in PapelIds : papeis'[q] \notin {Unborn, Deleted} /\ papeis'[q] = papeis'[s] => q = s
      BY <2>1, <2>3 DEF RolesInv, TablesConsistent, Live
    <3> QED
      BY <1>1, <3>2, <3>3, <3>4 DEF TablesConsistent, Live
  <2>7. EntriesInv'
    <3>1. ASSUME NEW u \in Users, NEW e \in session[u] \cup minted[u]
          PROVE  papeis'[e.papel] \in {[app |-> e.app, codigo |-> e.codigo], Deleted}
      <4>1. e.papel \in PapelIds /\ [app |-> e.app, codigo |-> e.codigo] \in Papel
        BY <3>1 DEF RolesInv, TypeOK, Entry, Papel
      <4>2. papeis[e.papel] \in {[app |-> e.app, codigo |-> e.codigo], Deleted}
        BY <3>1 DEF RolesInv, EntriesInv
      <4>3. e.papel # p
        BY <2>1, <4>1, <4>2, RolesAssumption DEF Papel
      <4> QED
        BY <2>3, <4>1, <4>2, <4>3
    <3> QED
      BY <1>1, <3>1 DEF EntriesInv
  <2> QED
    BY <1>1, <2>5, <2>6, <2>7 DEF RolesInv, PortalThere
<1> QED
  BY <1>2, <1>3

LEMMA ExcluirPapelFacts ==
  ASSUME TypeOK, NEW r \in Requests, ExcluirPapel(r)
  PROVE  LET p == req[r].papel IN
         /\ p \in PapelIds /\ papeis[p] # Unborn
         /\ papeis'[p] = Deleted
         /\ \A q \in PapelIds \ {p} : papeis'[q] = papeis[q]
         /\ papeis' \in [PapelIds -> Papel \cup {Unborn, Deleted}]
         /\ usuarioPapeis' = {g \in usuarioPapeis : g[2] # p}
         /\ UNCHANGED <<aplicacoes, session, minted>>
         /\ req' = [req EXCEPT ![r] = Idle]
<1>1. req[r].papel \in PapelIds /\ papeis[req[r].papel] # Unborn
  BY DEF TypeOK, FieldsOK, ExcluirPapel, Ends, PapelRoutes
<1> QED
  BY <1>1 DEF ExcluirPapel, Ends, TypeOK

LEMMA ExcluirPapelStep ==
  ASSUME RolesInv, NEW r \in Requests, ExcluirPapel(r)
  PROVE  RolesInv'
<1> DEFINE p == req[r].papel
<1>1. /\ p \in PapelIds /\ papeis[p] # Unborn
      /\ papeis'[p] = Deleted
      /\ \A q \in PapelIds \ {p} : papeis'[q] = papeis[q]
      /\ papeis' \in [PapelIds -> Papel \cup {Unborn, Deleted}]
      /\ usuarioPapeis' = {g \in usuarioPapeis : g[2] # p}
      /\ UNCHANGED <<aplicacoes, session, minted>>
      /\ req' = [req EXCEPT ![r] = Idle]
  BY ExcluirPapelFacts DEF RolesInv
<1> HIDE DEF p
<1>2. \A q \in PapelIds : papeis[q] # Unborn => papeis'[q] # Unborn
  BY <1>1, RolesAssumption
<1>3. TypeOK'
  BY <1>1, <1>2, EndedRequest DEF RolesInv, TypeOK
<1>4. TablesConsistent'
  <2>1. \A g \in usuarioPapeis' : g \in usuarioPapeis /\ g[2] \in PapelIds \ {p}
    BY <1>1 DEF RolesInv, TypeOK
  <2> QED
    BY <1>1, <2>1 DEF RolesInv, TablesConsistent, Live
<1>5. EntriesInv'
  <2>1. ASSUME NEW u \in Users, NEW e \in session[u] \cup minted[u] PROVE e.papel \in PapelIds
    BY <2>1 DEF RolesInv, TypeOK, Entry
  <2> QED
    BY <1>1, <2>1 DEF RolesInv, EntriesInv
<1> QED
  BY <1>1, <1>3, <1>4, <1>5 DEF RolesInv, PortalThere

LEMMA GrantSteps ==
  ASSUME RolesInv, NEW r \in Requests,
         Conceder(r) \/ RevogarNoSistema(r) \/ RevogarDelete(r)
  PROVE  RolesInv'
<1>1. UNCHANGED <<aplicacoes, papeis, session, minted>> /\ req' = [req EXCEPT ![r] = Idle]
  BY DEF Conceder, RevogarNoSistema, RevogarDelete, Ends
<1>2. req[r].user \in Users /\ req[r].papel \in PapelIds
  BY DEF Conceder, RevogarNoSistema, RevogarDelete, Ends, RolesInv, TypeOK, FieldsOK, GrantRoutes
<1>3. usuarioPapeis' \subseteq Users \X PapelIds
  BY <1>2 DEF Conceder, RevogarNoSistema, RevogarDelete, RolesInv, TypeOK
<1>4. \A g \in usuarioPapeis' : g \in usuarioPapeis \/ Live(g[2])
  BY DEF Conceder, RevogarNoSistema, RevogarDelete
<1>5. TypeOK'
  BY <1>1, <1>3, EndedRequest DEF RolesInv, TypeOK
<1>6. TablesConsistent'
  BY <1>1, <1>4 DEF RolesInv, TablesConsistent, Live
<1> QED
  BY <1>1, <1>5, <1>6 DEF RolesInv, EntriesInv, PortalThere

LEMMA RolesStep == RolesInv /\ [Next]_vars => RolesInv'
<1> SUFFICES ASSUME RolesInv, [Next]_vars PROVE RolesInv'
  OBVIOUS
<1>1. CASE UNCHANGED vars
  BY <1>1 DEF vars, RolesInv, TypeOK, TablesConsistent, EntriesInv, PortalThere, Live, FieldsOK
<1>2. ASSUME NEW u \in Users, PasswordLogin(u) \/ LoginReply(u) \/ LoginFail(u) \/ EndSession(u)
      PROVE  RolesInv'
  BY <1>2, SessionSteps
<1>3. ASSUME NEW r \in Requests, Admission(r) PROVE RolesInv'
  BY <1>3, AdmissionStep
<1>4. ASSUME NEW r \in Requests, Statement(r) \/ Fail(r) PROVE RolesInv'
  BY <1>4, SistemaSteps, CriarPapelStep, ExcluirPapelStep, GrantSteps, GuardedSteps DEF Statement
<1> QED
  BY <1>1, <1>2, <1>3, <1>4 DEF Next

LEMMA RolesInvariant == Spec => []RolesInv
BY RolesInit, RolesStep, PTL DEF Spec

\* Every table, cookie and request keeps its type.
THEOREM RolesTypeCorrect == Spec => []TypeOK
<1>1. RolesInv => TypeOK
  BY DEF RolesInv
<1> QED
  BY <1>1, RolesInvariant, PTL

\* Concurrent administration keeps grants, papeis and systems consistent.
THEOREM TablesStayConsistent == Spec => []TablesConsistent
<1>1. RolesInv => TablesConsistent
  BY DEF RolesInv
<1> QED
  BY <1>1, RolesInvariant, PTL

\* As long as the papel behind it is granted, an entry of a token or of a cookie
\* means what the client applications were told.
THEOREM CookiesKeepTheirMeaning == Spec => []CookieKeepsItsMeaning
<1>1. RolesInv => CookieKeepsItsMeaning
  <2> SUFFICES ASSUME RolesInv, NEW u \in Users, NEW e \in session[u] \cup minted[u],
                      <<u, e.papel>> \in usuarioPapeis
               PROVE  papeis[e.papel] = [app |-> e.app, codigo |-> e.codigo]
    BY DEF CookieKeepsItsMeaning
  <2>1. Live(e.papel)
    BY DEF RolesInv, TablesConsistent
  <2> QED
    BY <2>1 DEF RolesInv, EntriesInv, Live
<1> QED
  BY <1>1, RolesInvariant, PTL

----------------------------------------------------------------------------
(* What a step does to a request and to a papel *)

\* A papel that was created stays what it is until it is deleted.
LEMMA PapeisStep ==
  ASSUME TypeOK, [Next]_vars
  PROVE  \A p \in PapelIds : papeis[p] # Unborn => papeis'[p] \in {papeis[p], Deleted}
<1>1. CASE papeis' = papeis
  BY <1>1
<1>2. ASSUME NEW r \in Requests, NEW p \in PapelIds, CriarPapel(r, p), papeis' # papeis
      PROVE  \A q \in PapelIds : papeis[q] # Unborn => papeis'[q] = papeis[q]
  BY <1>2, CriarPapelFacts DEF TypeOK
<1>3. ASSUME NEW r \in Requests, ExcluirPapel(r)
      PROVE  \A q \in PapelIds : papeis'[q] \in {papeis[q], Deleted}
  BY <1>3, ExcluirPapelFacts
<1>4. ASSUME NEW r \in Requests, Admission(r) PROVE papeis' = papeis
  BY <1>4, AdmissionFields
<1> QED
  BY <1>1, <1>2, <1>3, <1>4
  DEF Next, vars, PasswordLogin, LoginReply, LoginFail, EndSession, Statement, CriarSistema,
    Ativar, Desativar, EditarPapel, Conceder, RevogarNoSistema, RevogarFetch, RevogarCount,
    RevogarDelete, Fail

\* A statement touches its own request only, and ends it but in the guard.
LEMMA StatementMoves ==
  ASSUME TypeOK, NEW q \in Requests, Statement(q) \/ Fail(q), NEW r \in Requests
  PROVE  \/ r # q /\ req'[r] = req[r]
         \/ r = q /\ req'[r].pc = "idle"
         \/ r = q /\ (RevogarFetch(r) \/ RevogarCount(r)) /\ req'[r].pc \in {"count", "revoke"}
<1>1. CASE req' = [req EXCEPT ![q] = Idle]
  BY <1>1, IdleFacts DEF TypeOK
<1>2. CASE RevogarFetch(q) \/ RevogarCount(q)
  <2>1. PICK v \in Request : req' = [req EXCEPT ![q] = v] /\ v.pc \in {"idle", "count", "revoke"}
    BY <1>2, GuardedFields
  <2> QED
    BY <1>2, <2>1 DEF TypeOK
<1> QED
  BY <1>1, <1>2
  DEF Statement, CriarSistema, Ativar, Desativar, CriarPapel, EditarPapel, ExcluirPapel, Conceder,
    RevogarNoSistema, RevogarDelete, Fail, Ends

----------------------------------------------------------------------------
(* The lockout *)

AdminComesIn == PortalAdmins # {} /\ aplicacoes[Portal] = "ativo"

\* Whoever holds the portal's papel admin enters /admin after a login, as long
\* as the portal is an active system ...
LEMMA AdminsEnter ==
  ASSUME aplicacoes[Portal] = "ativo", NEW u \in PortalAdmins
  PROVE  u \in Users /\ AdminEntry(Acessos(u))
<1>1. PICK p \in PapelIds : IsAdminPapel(p) /\ u \in Holders(p)
  BY DEF PortalAdmins
<1>2. /\ papeis[p] = [app |-> Portal, codigo |-> Admin] /\ Live(p)
      /\ papeis[p].app = Portal /\ papeis[p].codigo = Admin
  BY <1>1, RolesAssumption DEF IsAdminPapel, Live
<1> DEFINE e == [papel |-> p, app |-> papeis[p].app, codigo |-> papeis[p].codigo]
<1>3. e \in Acessos(u)
  BY <1>1, <1>2 DEF Acessos
<1>4. e.app = Portal /\ e.codigo = Admin
  BY <1>2
<1>5. u \in Users
  BY DEF PortalAdmins
<1> QED
  BY <1>3, <1>4, <1>5 DEF AdminEntry

\* ... and nobody else does.
LEMMA OnlyAdminsEnter ==
  TypeOK => \A u \in Users : AdminEntry(Acessos(u)) => AdminComesIn
<1> SUFFICES ASSUME TypeOK, NEW u \in Users, NEW e \in Acessos(u), e.app = Portal, e.codigo = Admin
             PROVE  AdminComesIn
  BY DEF AdminEntry
<1>1. PICK p \in PapelIds :
        /\ u \in Holders(p) /\ Live(p) /\ aplicacoes[papeis[p].app] = "ativo"
        /\ e = [papel |-> p, app |-> papeis[p].app, codigo |-> papeis[p].codigo]
  BY DEF Acessos
<1>2. papeis[p] \in Papel
  BY <1>1 DEF TypeOK, Live
<1>3. papeis[p] = [app |-> Portal, codigo |-> Admin]
  BY <1>1, <1>2 DEF Papel
<1> QED
  BY <1>1, <1>3 DEF AdminComesIn, PortalAdmins, IsAdminPapel

LEMMA OnlyAdminsEnterNext ==
  TypeOK' => (\A u \in Users : AdminEntry(Acessos(u)) => AdminComesIn)'
BY OnlyAdminsEnter, PTL

\* What a step may not bring back: an administrator, or the active portal.
LEMMA NoAdminBack ==
  ASSUME RolesInv, [Next]_vars, LockedOut
  PROVE  ~AdminComesIn'
<1>1. ~AdminComesIn
  BY AdminsEnter DEF LockedOut, AdminAreaReachable, AdminComesIn
<1>2. \A u \in Users : ~AdminEntry(session[u])
  BY DEF LockedOut, AdminAreaReachable
<1>3. ASSUME aplicacoes'[Portal] = "ativo" => aplicacoes[Portal] = "ativo",
             papeis' = papeis, usuarioPapeis' \subseteq usuarioPapeis
      PROVE  ~AdminComesIn'
  BY <1>1, <1>3 DEF AdminComesIn, PortalAdmins, IsAdminPapel, Holders
<1>4. CASE UNCHANGED vars
  BY <1>3, <1>4 DEF vars
<1>5. ASSUME NEW u \in Users, PasswordLogin(u) \/ LoginReply(u) \/ LoginFail(u) \/ EndSession(u)
      PROVE  ~AdminComesIn'
  BY <1>3, <1>5 DEF PasswordLogin, LoginReply, LoginFail, EndSession
<1>6. ASSUME NEW r \in Requests, Admission(r) PROVE FALSE
  BY <1>2, <1>6, AdmissionFields
<1>7. ASSUME NEW r \in Requests, CriarSistema(r) \/ Ativar(r) \/ Desativar(r)
      PROVE  ~AdminComesIn'
  <2>1. aplicacoes'[Portal] = "ativo" => aplicacoes[Portal] = "ativo"
    <3>1. CASE CriarSistema(r)
      BY <3>1 DEF CriarSistema, RolesInv, PortalThere, TypeOK
    <3>2. CASE Ativar(r)
      BY <3>2 DEF Ativar, SetAtivo, Ends, LockedOut, Reopens, RolesInv, TypeOK
    <3>3. CASE Desativar(r)
      BY <3>3 DEF Desativar, SetAtivo, RolesInv, TypeOK
    <3> QED
      BY <1>7, <3>1, <3>2, <3>3
  <2> QED
    BY <1>3, <1>7, <2>1 DEF CriarSistema, Ativar, Desativar
<1>8. ASSUME NEW r \in Requests, NEW p \in PapelIds, CriarPapel(r, p) PROVE ~AdminComesIn'
  <2>1. CASE papeis' = papeis
    BY <1>3, <1>8, <2>1 DEF CriarPapel
  <2>2. CASE papeis' # papeis
    <3>1. papeis[p] = Unborn /\ \A q \in PapelIds \ {p} : papeis'[q] = papeis[q]
      <4>1. papeis[p] = Unborn /\ \E new : papeis' = [papeis EXCEPT ![p] = new]
        BY <1>8, <2>2, CriarPapelFacts DEF RolesInv
      <4> QED
        BY <4>1 DEF RolesInv, TypeOK
    <3>2. aplicacoes' = aplicacoes /\ usuarioPapeis' = usuarioPapeis
      BY <1>8 DEF CriarPapel
    <3>3. \A u \in Users : <<u, p>> \notin usuarioPapeis
      BY <3>1 DEF RolesInv, TablesConsistent, Live
    <3> QED
      BY <1>1, <3>1, <3>2, <3>3 DEF AdminComesIn, PortalAdmins, IsAdminPapel, Holders
  <2> QED
    BY <2>1, <2>2
<1>9. ASSUME NEW r \in Requests, ExcluirPapel(r) PROVE ~AdminComesIn'
  <2>1. \A q \in PapelIds : papeis'[q] \in {papeis[q], Deleted}
    BY <1>9, ExcluirPapelFacts DEF RolesInv
  <2>2. \A q \in PapelIds : IsAdminPapel(q)' => IsAdminPapel(q)
    BY <2>1, RolesAssumption DEF IsAdminPapel
  <2>3. usuarioPapeis' \subseteq usuarioPapeis /\ aplicacoes' = aplicacoes
    BY <1>9 DEF ExcluirPapel
  <2> QED
    BY <1>1, <2>2, <2>3 DEF AdminComesIn, PortalAdmins, Holders
<1>10. ASSUME NEW r \in Requests, Conceder(r) PROVE ~AdminComesIn'
  <2>1. ~IsAdminPapel(req[r].papel)
    BY <1>10 DEF Conceder, Ends, LockedOut, Reopens
  <2>2. /\ aplicacoes' = aplicacoes /\ papeis' = papeis
        /\ usuarioPapeis' \subseteq usuarioPapeis \cup {<<req[r].user, req[r].papel>>}
    BY <1>10 DEF Conceder
  <2> QED
    BY <1>1, <2>1, <2>2 DEF AdminComesIn, PortalAdmins, IsAdminPapel, Holders
<1>11. ASSUME NEW r \in Requests,
              \/ EditarPapel(r) \/ RevogarNoSistema(r) \/ RevogarFetch(r) \/ RevogarCount(r)
              \/ RevogarDelete(r) \/ Fail(r)
       PROVE  ~AdminComesIn'
  BY <1>3, <1>11
  DEF EditarPapel, RevogarNoSistema, RevogarFetch, RevogarCount, RevogarDelete, Fail
<1> QED
  BY <1>4, <1>5, <1>6, <1>7, <1>8, <1>9, <1>10, <1>11 DEF Next, Statement

\* No cookie and no login under way gains an administrator's entry.
LEMMA NoEntryBack ==
  ASSUME RolesInv, [Next]_vars, LockedOut
  PROVE  \A u \in Users : ~AdminEntry(session'[u]) /\ ~AdminEntry(minted'[u])
<1>1. \A u \in Users : /\ ~AdminEntry(session[u]) /\ ~AdminEntry(minted[u])
                       /\ ~AdminEntry(Acessos(u))
  BY DEF LockedOut, AdminAreaReachable
<1>2. ~AdminEntry({})
  BY DEF AdminEntry
<1>3. ASSUME NEW u \in Users, PasswordLogin(u) \/ LoginReply(u) \/ LoginFail(u) \/ EndSession(u)
      PROVE  \A w \in Users : ~AdminEntry(session'[w]) /\ ~AdminEntry(minted'[w])
  <2>1. \A w \in Users : /\ session'[w] \in {session[w], minted[w], {}}
                         /\ minted'[w] \in {minted[w], Acessos(w), {}}
    BY <1>3 DEF PasswordLogin, LoginReply, LoginFail, EndSession, RolesInv, TypeOK
  <2> QED
    BY <1>1, <1>2, <2>1
<1>4. ASSUME NEW r \in Requests, Admission(r) \/ Statement(r) \/ Fail(r)
      PROVE  UNCHANGED <<session, minted>>
  BY <1>4, AdmissionFields
  DEF Statement, CriarSistema, Ativar, Desativar, CriarPapel, EditarPapel, ExcluirPapel, Conceder,
    RevogarNoSistema, RevogarFetch, RevogarCount, RevogarDelete, Fail
<1> QED
  BY <1>1, <1>3, <1>4 DEF Next, vars

\* No request that could give the area back is admitted.
LEMMA NoReopening ==
  ASSUME RolesInv, [Next]_vars, LockedOut, NEW r \in Requests
  PROVE  ~Reopens(r)'
<1>1. \A u \in Users : ~AdminEntry(session[u])
  BY DEF LockedOut, AdminAreaReachable
<1>2. /\ ~(req[r].pc = "conceder" /\ IsAdminPapel(req[r].papel))
      /\ ~(req[r].pc = "ativar" /\ req[r].app = Portal)
  BY DEF LockedOut, Reopens
<1>3. \A p \in PapelIds : papeis[p] # Unborn => papeis'[p] \in {papeis[p], Deleted}
  BY PapeisStep DEF RolesInv
<1>4. CASE req'[r] = req[r]
  <2>1. req[r].pc = "conceder" => req[r].papel \in PapelIds /\ papeis[req[r].papel] # Unborn
    BY DEF RolesInv, TypeOK, FieldsOK, GrantRoutes
  <2> QED
    BY <1>2, <1>3, <1>4, <2>1, RolesAssumption DEF Reopens, IsAdminPapel
<1>5. CASE req'[r].pc \in {"idle", "count", "revoke"}
  BY <1>5 DEF Reopens
<1>6. ASSUME NEW q \in Requests, Admission(q) PROVE FALSE
  BY <1>1, <1>6, AdmissionFields
<1>7. ASSUME NEW q \in Requests, Statement(q) \/ Fail(q)
      PROVE  req'[r] = req[r] \/ req'[r].pc \in {"idle", "count", "revoke"}
  BY <1>7, StatementMoves DEF RolesInv
<1> QED
  BY <1>4, <1>5, <1>6, <1>7
  DEF Next, vars, PasswordLogin, LoginReply, LoginFail, EndSession

\* Once nobody can enter and the logins, grants and activations under way are
\* over, the area is closed for good.
THEOREM LockoutStays == Spec => LockoutIsPermanent
<1>1. RolesInv /\ RolesInv' /\ [Next]_vars => [LockedOut => LockedOut']_vars
  <2> SUFFICES ASSUME RolesInv, RolesInv', [Next]_vars, LockedOut PROVE LockedOut'
    OBVIOUS
  <2>1. \A u \in Users : ~AdminEntry(session'[u]) /\ ~AdminEntry(minted'[u])
    BY NoEntryBack
  <2>2. (\A u \in Users : AdminEntry(Acessos(u)) => AdminComesIn)'
    BY OnlyAdminsEnterNext DEF RolesInv
  <2>3. \A u \in Users : ~AdminEntry(Acessos(u))'
    BY <2>2, NoAdminBack
  <2>4. \A r \in Requests : ~Reopens(r)'
    BY NoReopening
  <2> QED
    BY <2>1, <2>3, <2>4 DEF LockedOut, AdminAreaReachable
<1> QED
  BY <1>1, RolesInvariant, PTL DEF LockoutIsPermanent, Spec

----------------------------------------------------------------------------
(* The guard of revogar_papel *)

\* A request past the guard, for the portal's papel admin.
PastGuard(r) == req[r].pc = "revoke" /\ IsAdminPapel(req[r].papel)

\* Past the guard, the request counted two holders at least.
GuardInv == \A r \in Requests : PastGuard(r) => ~(Cardinality(req[r].holders) <= 1)

\* How a request gets past the guard: by its count, or it was there before.
LEMMA PastGuardStep ==
  ASSUME TypeOK, [Next]_vars, NEW r \in Requests, PastGuard(r)'
  PROVE  \/ PastGuard(r) /\ req'[r] = req[r]
         \/ /\ ~LastOne(req[r].papel) /\ UNCHANGED <<papeis, usuarioPapeis>>
            /\ req'[r].papel = req[r].papel /\ req'[r].holders = Holders(req[r].papel)
<1>1. \A p \in PapelIds : papeis[p] # Unborn /\ IsAdminPapel(p)' => IsAdminPapel(p)
  BY PapeisStep, RolesAssumption DEF IsAdminPapel
<1>2. CASE req'[r] = req[r]
  <2>1. req[r].papel \in PapelIds /\ papeis[req[r].papel] # Unborn
    BY <1>2 DEF TypeOK, PastGuard, FieldsOK
  <2>2. IsAdminPapel(req[r].papel)'
    BY <1>2 DEF PastGuard, IsAdminPapel
  <2> QED
    BY <1>1, <1>2, <2>1, <2>2 DEF PastGuard
<1>3. ASSUME RevogarFetch(r) PROVE FALSE
  <2>1. /\ req'[r].pc = IF IsAdminPapel(req[r].papel) THEN "count" ELSE "revoke"
        /\ req'[r].papel = req[r].papel /\ papeis' = papeis
    BY <1>3 DEF RevogarFetch, TypeOK, Request
  <2> QED
    BY <2>1 DEF PastGuard, IsAdminPapel
<1>4. CASE RevogarCount(r)
  <2>1. ~LastOne(req[r].papel)
    BY <1>4 DEF RevogarCount, TypeOK, Idle, PastGuard
  <2> QED
    BY <1>4, <2>1 DEF RevogarCount, TypeOK, Request
<1>5. ASSUME NEW q \in Requests, Admission(q) PROVE req'[r] = req[r]
  <2>1. PICK v \in Request : v.pc \in AllRoutes /\ req' = [req EXCEPT ![q] = v]
    BY <1>5, AdmissionFields
  <2>2. v.pc # "revoke"
    BY <2>1 DEF AllRoutes, GrantRoutes, PapelRoutes, SistemaRoutes
  <2> QED
    BY <2>1, <2>2 DEF TypeOK, PastGuard
<1>6. ASSUME NEW q \in Requests, Statement(q) \/ Fail(q)
      PROVE  req'[r] = req[r] \/ RevogarFetch(r) \/ RevogarCount(r)
  BY <1>6, StatementMoves DEF PastGuard
<1> QED
  BY <1>2, <1>3, <1>4, <1>5, <1>6
  DEF Next, vars, PasswordLogin, LoginReply, LoginFail, EndSession

LEMMA GuardInvariant == Spec => []GuardInv
<1>1. Init => GuardInv
  BY IdleFacts DEF Init, GuardInv, PastGuard
<1>2. TypeOK /\ GuardInv /\ [Next]_vars => GuardInv'
  <2> SUFFICES ASSUME TypeOK, GuardInv, [Next]_vars, NEW r \in Requests, PastGuard(r)'
               PROVE  ~(Cardinality(req'[r].holders) <= 1)
    BY DEF GuardInv
  <2> QED
    BY PastGuardStep DEF GuardInv, LastOne
<1> QED
  BY <1>1, <1>2, RolesTypeCorrect, PTL DEF Spec

\* A set that one user's removal empties has at most one member.
LEMMA AtMostOne ==
  ASSUME NEW S, NEW u, S \subseteq {u}
  PROVE  Cardinality(S) <= 1
<1>1. S = {} \/ S = {u}
  OBVIOUS
<1>2. Cardinality({}) = 0 /\ Cardinality({u}) = 1
  BY FS_EmptySet, FS_Singleton
<1>3. CASE S = {}
  BY <1>2, <1>3
<1>4. CASE S = {u}
  BY <1>2, <1>4
<1> QED
  BY <1>1, <1>3, <1>4

\* A papel that stays and loses no grant keeps whom it makes an administrator.
LEMMA AdminsKept ==
  ASSUME \A p \in PapelIds : IsAdminPapel(p) => IsAdminPapel(p)' /\ Holders(p) \subseteq Holders(p)'
  PROVE  PortalAdmins \subseteq PortalAdmins'
BY DEF PortalAdmins

\* Only three statements take an administrator away: the deletion of the papel,
\* and the two that take a grant of it away.
LEMMA AdminsLost ==
  ASSUME TypeOK, [Next]_vars, ~(PortalAdmins \subseteq PortalAdmins')
  PROVE  \E r \in Requests : /\ ExcluirPapel(r) \/ RevogarNoSistema(r) \/ RevogarDelete(r)
                             /\ IsAdminPapel(req[r].papel)
<1>1. ASSUME papeis' = papeis, usuarioPapeis \subseteq usuarioPapeis' PROVE FALSE
  BY <1>1, AdminsKept DEF IsAdminPapel, Holders
<1>2. ASSUME NEW r \in Requests, NEW p \in PapelIds, CriarPapel(r, p) PROVE FALSE
  <2>1. CASE papeis' = papeis
    BY <1>1, <1>2, <2>1 DEF CriarPapel
  <2>2. CASE papeis' # papeis
    <3>1. papeis[p] = Unborn /\ \E new : papeis' = [papeis EXCEPT ![p] = new]
      BY <1>2, <2>2, CriarPapelFacts
    <3>2. usuarioPapeis' = usuarioPapeis /\ \A q \in PapelIds \ {p} : papeis'[q] = papeis[q]
      BY <1>2, <3>1 DEF CriarPapel, TypeOK
    <3> QED
      BY <3>1, <3>2, AdminsKept, RolesAssumption DEF IsAdminPapel, Holders
  <2> QED
    BY <2>1, <2>2
<1>3. ASSUME NEW r \in Requests, ExcluirPapel(r), ~IsAdminPapel(req[r].papel) PROVE FALSE
  <2>1. \A q \in PapelIds \ {req[r].papel} : papeis'[q] = papeis[q]
    BY <1>3, ExcluirPapelFacts
  <2>2. \A q \in PapelIds \ {req[r].papel} : Holders(q) \subseteq Holders(q)'
    BY <1>3 DEF ExcluirPapel, Holders
  <2> QED
    BY <1>3, <2>1, <2>2, AdminsKept DEF IsAdminPapel
<1>4. ASSUME NEW r \in Requests, RevogarNoSistema(r) \/ RevogarDelete(r),
             ~IsAdminPapel(req[r].papel)
      PROVE  FALSE
  <2>1. papeis' = papeis /\ usuarioPapeis' = usuarioPapeis \ {<<req[r].user, req[r].papel>>}
    BY <1>4 DEF RevogarNoSistema, RevogarDelete
  <2>2. \A q \in PapelIds : q # req[r].papel => Holders(q) \subseteq Holders(q)'
    BY <2>1 DEF Holders
  <2> QED
    BY <1>4, <2>1, <2>2, AdminsKept DEF IsAdminPapel
<1>5. ASSUME NEW r \in Requests, Conceder(r) PROVE FALSE
  BY <1>1, <1>5 DEF Conceder
<1>6. ASSUME NEW r \in Requests,
             \/ Admission(r) \/ EditarPapel(r) \/ RevogarFetch(r) \/ RevogarCount(r) \/ Fail(r)
             \/ CriarSistema(r) \/ Ativar(r) \/ Desativar(r)
      PROVE  FALSE
  BY <1>1, <1>6, AdmissionFields
  DEF EditarPapel, RevogarFetch, RevogarCount, Fail, CriarSistema, Ativar, Desativar
<1>7. ASSUME NEW u \in Users, PasswordLogin(u) \/ LoginReply(u) \/ LoginFail(u) \/ EndSession(u)
      PROVE  FALSE
  BY <1>1, <1>7 DEF PasswordLogin, LoginReply, LoginFail, EndSession
<1>8. ASSUME UNCHANGED vars PROVE FALSE
  BY <1>1, <1>8 DEF vars
<1> QED
  BY <1>2, <1>3, <1>4, <1>5, <1>6, <1>7, <1>8 DEF Next, Statement

\* Past the guard, a delete that empties the role finds that somebody it counted
\* was gone already.
LEMMA GuardOvertaken ==
  ASSUME TypeOK, GuardInv, NEW r \in Requests, RevogarDelete(r),
         IsAdminPapel(req[r].papel), PortalAdmins' = {}
  PROVE  ~(req[r].holders \subseteq Holders(req[r].papel))
<1> DEFINE v == req[r].user
           p == req[r].papel
<1>1. p \in PapelIds
  BY DEF TypeOK, FieldsOK, RevogarDelete, Ends
<1>2. papeis' = papeis /\ usuarioPapeis' = usuarioPapeis \ {<<v, p>>}
  BY DEF RevogarDelete
<1>3. ~(Cardinality(req[r].holders) <= 1)
  BY DEF GuardInv, PastGuard, RevogarDelete, Ends
<1> HIDE DEF v, p
<1>4. Holders(p) \subseteq {v}
  BY <1>1, <1>2 DEF PortalAdmins, IsAdminPapel, Holders, p
<1> SUFFICES ASSUME req[r].holders \subseteq Holders(p) PROVE FALSE
  BY DEF p
<1>5. req[r].holders \subseteq {v}
  BY <1>4
<1> QED
  BY <1>3, <1>5, AtMostOne

\* Exactly three ways lead to a portal without administrators, however many
\* requests are under way: the guard of revogar_papel fails in a race only.
THEOREM ThreeWaysToLoseTheLastAdmin == Spec => LastAdminIsLostThreeWays
<1> DEFINE Way(r) ==
      /\ req[r].pc \in {"perfis_excluir", "sistema_usuarios_revogar", "revoke"}
      /\ req'[r].pc = "idle"
      /\ IsAdminPapel(req[r].papel)
      /\ req[r].pc = "revoke" => ~(req[r].holders \subseteq Holders(req[r].papel))
<1>1. TypeOK /\ GuardInv /\ [Next]_vars =>
        [PortalAdmins # {} /\ PortalAdmins' = {} => \E r \in Requests : Way(r)]_vars
  <2> SUFFICES ASSUME TypeOK, GuardInv, [Next]_vars, PortalAdmins # {}, PortalAdmins' = {}
               PROVE  \E r \in Requests : Way(r)
    OBVIOUS
  <2>1. PICK r \in Requests : /\ ExcluirPapel(r) \/ RevogarNoSistema(r) \/ RevogarDelete(r)
                              /\ IsAdminPapel(req[r].papel)
    BY AdminsLost
  <2>2. /\ req[r].pc \in {"perfis_excluir", "sistema_usuarios_revogar", "revoke"}
        /\ req[r].pc = "revoke" => RevogarDelete(r)
        /\ req'[r].pc = "idle"
    BY <2>1, IdleFacts DEF ExcluirPapel, RevogarNoSistema, RevogarDelete, Ends, TypeOK
  <2>3. Way(r)
    BY <2>1, <2>2, GuardOvertaken
  <2> QED
    BY <2>3
<1> QED
  BY <1>1, GuardInvariant, RolesTypeCorrect, PTL DEF Spec, LastAdminIsLostThreeWays

----------------------------------------------------------------------------
(* When the promises that the runs refute do hold *)

\* What administrators who know the races and the unguarded routes would keep to:
\* no two of them past the guard together, and neither of the two routes that
\* have none used on the portal's papel admin.
AdminsTakeTurns ==
  /\ \A r, q \in Requests : PastGuard(r) /\ PastGuard(q) => r = q
  /\ \A r \in Requests : req[r].pc \in {"perfis_excluir", "sistema_usuarios_revogar"} =>
       ~IsAdminPapel(req[r].papel)

\* Nor is the portal among the systems they deactivate.
PortalIsLeftAlone == \A r \in Requests : req[r].pc = "desativar" => req[r].app # Portal

\* Past the count, the holders it saw are holders still.
CountIsFresh ==
  \A r \in Requests : PastGuard(r) => req[r].holders \subseteq Holders(req[r].papel)

LEMMA CountStaysFresh ==
  ASSUME TypeOK, AdminsTakeTurns, CountIsFresh, [Next]_vars
  PROVE  CountIsFresh'
<1> SUFFICES ASSUME NEW r \in Requests, PastGuard(r)'
             PROVE  req'[r].holders \subseteq Holders(req[r].papel)'
  BY DEF CountIsFresh
<1>1. CASE /\ UNCHANGED <<papeis, usuarioPapeis>>
           /\ req'[r].papel = req[r].papel /\ req'[r].holders = Holders(req[r].papel)
  BY <1>1 DEF Holders
<1>2. CASE PastGuard(r) /\ req'[r] = req[r]
  <2>1. req[r].holders \subseteq Holders(req[r].papel)
    BY <1>2 DEF CountIsFresh
  <2>2. CASE usuarioPapeis \subseteq usuarioPapeis'
    BY <1>2, <2>1, <2>2 DEF Holders
  <2>3. ASSUME NEW q \in Requests,
               ExcluirPapel(q) \/ RevogarNoSistema(q) \/ RevogarDelete(q)
        PROVE  Holders(req[r].papel) \subseteq Holders(req[r].papel)'
    <3>1. req[q].papel # req[r].papel
      <4>1. CASE ExcluirPapel(q) \/ RevogarNoSistema(q)
        BY <1>2, <4>1 DEF ExcluirPapel, RevogarNoSistema, Ends, AdminsTakeTurns, PastGuard
      <4>2. CASE RevogarDelete(q)
        <5>1. q # r
          BY <1>2, <4>2, IdleFacts DEF RevogarDelete, Ends, PastGuard, TypeOK
        <5> QED
          BY <1>2, <4>2, <5>1 DEF RevogarDelete, Ends, AdminsTakeTurns, PastGuard
      <4> QED
        BY <2>3, <4>1, <4>2
    <3> QED
      BY <1>2, <2>3, <3>1 DEF ExcluirPapel, RevogarNoSistema, RevogarDelete, Holders
  <2>4. \/ usuarioPapeis \subseteq usuarioPapeis'
        \/ \E q \in Requests : ExcluirPapel(q) \/ RevogarNoSistema(q) \/ RevogarDelete(q)
    <3>1. ASSUME NEW q \in Requests, Admission(q) PROVE usuarioPapeis' = usuarioPapeis
      BY <3>1, AdmissionFields
    <3> QED
      BY <3>1
      DEF Next, vars, PasswordLogin, LoginReply, LoginFail, EndSession, Statement, CriarSistema,
        Ativar, Desativar, CriarPapel, EditarPapel, Conceder, RevogarFetch, RevogarCount, Fail
  <2> QED
    BY <1>2, <2>1, <2>2, <2>3, <2>4
<1> QED
  BY <1>1, <1>2, PastGuardStep

\* portal/README.md's promise holds as long as administrators take turns: the race
\* and the two unguarded routes are all there is against it.
THEOREM LastAdminKeptInTurns == Spec /\ []AdminsTakeTurns => []LastAdminKept
<1>1. Init => LastAdminKept
  <2> SUFFICES ASSUME Init PROVE PortalAdmins # {}
    BY DEF LastAdminKept
  <2>1. PICK first \in (SUBSET Users) \ {{}} : usuarioPapeis = first \X {AdminPapel}
    BY DEF Init
  <2>2. PICK u \in first : u \in Users
    <3>1. first # {} /\ first \subseteq Users
      BY <2>1
    <3> QED
      BY <3>1
  <2>3. IsAdminPapel(AdminPapel) /\ u \in Holders(AdminPapel)
    BY <2>1, <2>2, RolesAssumption DEF Init, IsAdminPapel, Holders
  <2> QED
    BY <2>2, <2>3, RolesAssumption DEF PortalAdmins
<1>2. Init => CountIsFresh
  BY IdleFacts DEF Init, CountIsFresh, PastGuard
<1>3. TypeOK /\ GuardInv /\ AdminsTakeTurns /\ CountIsFresh /\ LastAdminKept /\ [Next]_vars =>
        LastAdminKept'
  <2> SUFFICES ASSUME TypeOK, GuardInv, AdminsTakeTurns, CountIsFresh, PortalAdmins # {},
                      [Next]_vars, PortalAdmins' = {}
               PROVE  FALSE
    BY DEF LastAdminKept
  <2>1. PICK r \in Requests : /\ ExcluirPapel(r) \/ RevogarNoSistema(r) \/ RevogarDelete(r)
                              /\ IsAdminPapel(req[r].papel)
    BY AdminsLost
  <2>2. RevogarDelete(r)
    BY <2>1 DEF AdminsTakeTurns, ExcluirPapel, RevogarNoSistema, Ends
  <2>3. req[r].holders \subseteq Holders(req[r].papel)
    BY <2>1, <2>2 DEF CountIsFresh, PastGuard, RevogarDelete, Ends
  <2> QED
    BY <2>1, <2>2, <2>3, GuardOvertaken
<1> QED
  BY <1>1, <1>2, <1>3, CountStaysFresh, GuardInvariant, RolesTypeCorrect, PTL DEF Spec

\* sql/0005's promise needs one thing more: the portal is not deactivated.
THEOREM AdminAreaKeptInTurns ==
  Spec /\ []AdminsTakeTurns /\ []PortalIsLeftAlone => []AdminAreaReachable
<1> DEFINE Active == aplicacoes[Portal] = "ativo"
<1>1. Init => Active
  BY RolesAssumption DEF Init
<1>2. TypeOK /\ PortalIsLeftAlone /\ Active /\ [Next]_vars => Active'
  <2> SUFFICES ASSUME TypeOK, PortalIsLeftAlone, Active, [Next]_vars PROVE Active'
    OBVIOUS
  <2>1. ASSUME NEW r \in Requests, CriarSistema(r) \/ Ativar(r) \/ Desativar(r) PROVE Active'
    BY <2>1, RolesAssumption
    DEF CriarSistema, Ativar, Desativar, SetAtivo, Ends, TypeOK, PortalIsLeftAlone
  <2>2. ASSUME NEW r \in Requests, Admission(r) PROVE Active'
    BY <2>2, AdmissionFields
  <2> QED
    BY <2>1, <2>2
    DEF Next, vars, PasswordLogin, LoginReply, LoginFail, EndSession, Statement, CriarPapel,
      EditarPapel, ExcluirPapel, Conceder, RevogarNoSistema, RevogarFetch, RevogarCount,
      RevogarDelete, Fail
<1>3. LastAdminKept /\ Active => AdminAreaReachable
  BY AdminsEnter DEF LastAdminKept, AdminAreaReachable
<1> QED
  BY <1>1, <1>2, <1>3, LastAdminKeptInTurns, RolesTypeCorrect, PTL DEF Spec
=============================================================================
