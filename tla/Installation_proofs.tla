------------------------ MODULE Installation_proofs ------------------------
(* Proofs about Installation for any users, names and applications, any     *)
(* seeds that leave out the portal, and any number of re-applications.     *)
EXTENDS Installation, FiniteSetTheorems, TLAPS

----------------------------------------------------------------------------
(* Where a file stands *)

\* The scripts, place by place.
LEMMA Scripts ==
  /\ Len(Script["apps_roles"]) = 1 /\ Script["apps_roles"][1] = "create"
  /\ Len(Script["clients_codes"]) = 1 /\ Script["clients_codes"][1] = "create"
  /\ Len(Script["seed_dev"]) = 4 /\ Script["seed_dev"][1] = "aplicacoes"
  /\ Script["seed_dev"][2] = "papeis" /\ Script["seed_dev"][3] = "grants"
  /\ Script["seed_dev"][4] = "clients"
  /\ Len(Script["admin_role"]) = 2 /\ Script["admin_role"][1] = "aplicacoes"
  /\ Script["admin_role"][2] = "papeis"
  /\ Len(Script["profiles"]) = 5 /\ Script["profiles"][1] = "create"
  /\ Script["profiles"][2] = "drop trigger" /\ Script["profiles"][3] = "create trigger"
  /\ Script["profiles"][4] = "read" /\ Script["profiles"][5] = "insert"
  /\ Len(Script["seed_skp"]) = 3 /\ Script["seed_skp"][1] = "aplicacoes"
  /\ Script["seed_skp"][2] = "papeis" /\ Script["seed_skp"][3] = "clients"
BY DEF Script, ScriptAppsRoles, ScriptClientsCodes, ScriptSeedDev, ScriptAdminRole,
       ScriptProfiles, ScriptSeedSkp

LEMMA HookScript ==
  /\ Len(Script["hook"]) = 11 /\ Script["hook"][1] = "function"
  /\ Script["hook"][2] = "usage"
  /\ Script["hook"][3] = "execute"
  /\ Script["hook"][4] = "revoke"
  /\ Script["hook"][5] = "select"
  /\ Script["hook"][6] = "drop usuario_papeis"
  /\ Script["hook"][7] = "create usuario_papeis"
  /\ Script["hook"][8] = "drop papeis"
  /\ Script["hook"][9] = "create papeis"
  /\ Script["hook"][10] = "drop aplicacoes"
  /\ Script["hook"][11] = "create aplicacoes"
BY DEF Script, ScriptHook

LEMMA Lengths == ASSUME NEW f \in Files PROVE Len(Script[f]) \in {1, 2, 3, 4, 5, 11}
BY Scripts, HookScript DEF Files

\* Each statement belongs to one place of the files that have it.
PlaceOf(s, f, k) ==
  /\ s = "function" => f = "hook" /\ k = 1
  /\ s = "usage" => f = "hook" /\ k = 2
  /\ s = "execute" => f = "hook" /\ k = 3
  /\ s = "revoke" => f = "hook" /\ k = 4
  /\ s = "select" => f = "hook" /\ k = 5
  /\ s = "drop usuario_papeis" => f = "hook" /\ k = 6
  /\ s = "create usuario_papeis" => f = "hook" /\ k = 7
  /\ s = "drop papeis" => f = "hook" /\ k = 8
  /\ s = "create papeis" => f = "hook" /\ k = 9
  /\ s = "drop aplicacoes" => f = "hook" /\ k = 10
  /\ s = "create aplicacoes" => f = "hook" /\ k = 11
  /\ s = "grants" => f = "seed_dev"
  /\ s = "drop trigger" => f = "profiles" /\ k = 2
  /\ s = "create trigger" => f = "profiles" /\ k = 3
  /\ s = "read" => f = "profiles" /\ k = 4
  /\ s = "insert" => f = "profiles" /\ k = 5
  /\ s \in {"aplicacoes", "papeis", "clients"} => f \notin {"hook", "profiles"}
  /\ s = "create" /\ f = "profiles" => k = 1
  /\ s = "create" => f # "hook"

LEMMA Placed ==
  ASSUME NEW f \in Files, NEW k \in 1 .. Len(Script[f])
  PROVE  PlaceOf(Script[f][k], f, k)
<1>1. CASE f = "profiles"
  <2>1. Len(Script[f]) = 5
    BY <1>1, Scripts
  <2>2. k \in 1 .. 5
    BY <2>1
  <2>3. k \in {1, 2, 3, 4, 5}
    BY <2>2
  <2> QED
    BY <1>1, <2>3, Scripts DEF PlaceOf
<1>2. CASE f = "hook"
  <2>1. Len(Script[f]) = 11
    BY <1>2, HookScript
  <2>2. k \in 1 .. 11
    BY <2>1
  <2>3. k \in {1, 2, 3, 4, 5, 6, 7, 8, 9, 10, 11}
    BY <2>2
  <2>4. CASE k \in {1, 2, 3, 4, 5}
    BY <1>2, <2>4, HookScript DEF PlaceOf
  <2>5. CASE k \in {6, 7, 8, 9, 10, 11}
    BY <1>2, <2>5, HookScript DEF PlaceOf
  <2> QED
    BY <2>3, <2>4, <2>5
<1>3. CASE f = "apps_roles"
  <2>1. Len(Script[f]) = 1
    BY <1>3, Scripts
  <2>2. k \in 1 .. 1
    BY <2>1
  <2>3. k \in {1}
    BY <2>2
  <2> QED
    BY <1>3, <2>3, Scripts DEF PlaceOf
<1>4. CASE f = "clients_codes"
  <2>1. Len(Script[f]) = 1
    BY <1>4, Scripts
  <2>2. k \in 1 .. 1
    BY <2>1
  <2>3. k \in {1}
    BY <2>2
  <2> QED
    BY <1>4, <2>3, Scripts DEF PlaceOf
<1>5. CASE f = "seed_dev"
  <2>1. Len(Script[f]) = 4
    BY <1>5, Scripts
  <2>2. k \in 1 .. 4
    BY <2>1
  <2>3. k \in {1, 2, 3, 4}
    BY <2>2
  <2> QED
    BY <1>5, <2>3, Scripts DEF PlaceOf
<1>6. CASE f = "admin_role"
  <2>1. Len(Script[f]) = 2
    BY <1>6, Scripts
  <2>2. k \in 1 .. 2
    BY <2>1
  <2>3. k \in {1, 2}
    BY <2>2
  <2> QED
    BY <1>6, <2>3, Scripts DEF PlaceOf
<1>7. CASE f = "seed_skp"
  <2>1. Len(Script[f]) = 3
    BY <1>7, Scripts
  <2>2. k \in 1 .. 3
    BY <2>1
  <2>3. k \in {1, 2, 3}
    BY <2>2
  <2> QED
    BY <1>7, <2>3, Scripts DEF PlaceOf
<1> QED
  BY <1>1, <1>2, <1>3, <1>4, <1>5, <1>6, <1>7 DEF Files

LEMMA Places ==
  ASSUME ProgressOK, NEW s, At(s)
  PROVE  /\ running \in Run /\ running.file \in Files /\ running.file \in unfinished
         /\ running.at \in 1 .. Len(Script[running.file])
         /\ PlaceOf(s, running.file, running.at)
<1>1. /\ running \in Run /\ running.file \in unfinished
      /\ running.at \in 1 .. Len(Script[running.file]) /\ Script[running.file][running.at] = s
  BY DEF ProgressOK, At
<1>2. running.file \in Files
  BY <1>1 DEF Run
<1> QED
  BY <1>1, <1>2, Placed

\* A statement's end moves on within the file, or finishes it.
LEMMA Advances ==
  ASSUME ProgressOK, running # Nothing, Advance
  PROVE  /\ ProgressOK'
         /\ again' = again /\ piecemeal' = piecemeal
         /\ \/ /\ running.at < Len(Script[running.file])
               /\ running' = [running EXCEPT !.at = running.at + 1]
               /\ running' # Nothing
               /\ running'.file = running.file /\ running'.alone = running.alone
               /\ running'.lidos = running.lidos /\ running'.at = running.at + 1
               /\ UNCHANGED <<applied, unfinished>>
            \/ /\ running.at = Len(Script[running.file])
               /\ running' = Nothing
               /\ applied' = applied \cup {running.file}
               /\ unfinished' = unfinished \ {running.file}
<1>1. running \in Run /\ running.file \in unfinished
      /\ running.at \in 1 .. Len(Script[running.file]) /\ running.file \in Files
  BY DEF ProgressOK, Run
<1> DEFINE k == running.at
           n == Len(Script[running.file])
<1>2. n \in {1, 2, 3, 4, 5, 11} /\ k \in 1 .. n
  BY <1>1, Lengths
<1>3. CASE running.at < Len(Script[running.file])
  <2> DEFINE next == [running EXCEPT !.at = running.at + 1]
  <2>1. running' = next /\ UNCHANGED <<applied, unfinished, again, piecemeal>>
    BY <1>3 DEF Advance
  <2>2. k + 1 \in 1 .. 11 /\ k + 1 \in 1 .. n /\ k + 1 # 0
    <3>1. k < n
      BY <1>3
    <3> HIDE DEF k, n
    <3> QED
      BY <1>2, <3>1
  <2>3. next \in Run /\ next.file = running.file /\ next.alone = running.alone
        /\ next.lidos = running.lidos /\ next.at = running.at + 1
    BY <1>1, <2>2 DEF Run
  <2>4. next # Nothing
    BY <2>2, <2>3 DEF Nothing
  <2> HIDE DEF next
  <2>5. ProgressOK'
    BY <1>1, <2>1, <2>2, <2>3, <2>4 DEF ProgressOK
  <2> QED
    BY <1>3, <2>1, <2>3, <2>4, <2>5 DEF next
<1>4. CASE ~(running.at < Len(Script[running.file]))
  <2>1. running' = Nothing /\ applied' = applied \cup {running.file}
        /\ unfinished' = unfinished \ {running.file} /\ UNCHANGED <<again, piecemeal>>
    BY <1>4 DEF Advance
  <2>2. ProgressOK'
    BY <1>1, <2>1 DEF ProgressOK
  <2>3. k = n
    <3>1. ~(k < n)
      BY <1>4
    <3> HIDE DEF k, n
    <3> QED
      BY <1>2, <3>1
  <2> QED
    BY <2>1, <2>2, <2>3
<1> QED
  BY <1>3, <1>4

----------------------------------------------------------------------------
(* Type correctness *)

LEMMA NothingFacts == Nothing.file = NoFile /\ Nothing.at = 0 /\ ~Nothing.alone
BY DEF Nothing

\* A run that starts, and one whose backfill has read, are runs.
LEMMA RunRecords ==
  ASSUME NEW F, NEW A, NEW L, NEW r \in [file : F, at : A, alone : BOOLEAN, lidos : L],
         NEW f, NEW k, NEW alone, NEW l
  PROVE  /\ f \in F /\ k \in A /\ alone \in BOOLEAN =>
              /\ [r EXCEPT !.file = f, !.at = k, !.alone = alone]
                   \in [file : F, at : A, alone : BOOLEAN, lidos : L]
              /\ [r EXCEPT !.file = f, !.at = k, !.alone = alone].file = f
              /\ [r EXCEPT !.file = f, !.at = k, !.alone = alone].at = k
              /\ [r EXCEPT !.file = f, !.at = k, !.alone = alone].alone = alone
         /\ k \in A /\ l \in L =>
              /\ [r EXCEPT !.lidos = l, !.at = k]
                   \in [file : F, at : A, alone : BOOLEAN, lidos : L]
              /\ [r EXCEPT !.lidos = l, !.at = k].file = r.file
              /\ [r EXCEPT !.lidos = l, !.at = k].at = k
              /\ [r EXCEPT !.lidos = l, !.at = k].alone = r.alone
              /\ [r EXCEPT !.lidos = l, !.at = k].lidos = l
OBVIOUS

LEMMA TypeInit == Init => TypeOK
<1> SUFFICES ASSUME Init PROVE TypeOK
  OBVIOUS
<1>1. MirrorOK
  BY DEF Init, MirrorOK
<1>2. HookOK /\ SeedsOK
  BY DEF Init, HookOK, SeedsOK
<1>3. ProgressOK
  BY DEF Init, ProgressOK
<1> QED
  BY <1>1, <1>2, <1>3 DEF TypeOK

\* What a file starts as.
LEMMA StartRecord ==
  ASSUME NEW f \in Files, NEW alone \in BOOLEAN, Start(f, alone)
  PROVE  running' \in Run /\ running'.file = f /\ running'.at = 1 /\ running'.alone = alone
<1> DEFINE F == Files \cup {NoFile}
           A == 0 .. 11
           L == [Users -> Nomes \cup {NoNome, NoUser}]
           none == [u \in Users |-> NoUser]
           new == [Nothing EXCEPT !.file = f, !.at = 1, !.alone = alone]
<1>1. none \in L
  OBVIOUS
<1>2. Nothing = [file |-> NoFile, at |-> 0, alone |-> FALSE, lidos |-> none]
  BY DEF Nothing
<1>3. NoFile \in F /\ 0 \in A /\ f \in F /\ 1 \in A
  OBVIOUS
<1>4. running' = new
  BY DEF Start
<1> HIDE DEF F, A, L, none
<1>5. Nothing \in [file : F, at : A, alone : BOOLEAN, lidos : L]
  BY <1>1, <1>2, <1>3
<1>6. new \in [file : F, at : A, alone : BOOLEAN, lidos : L]
      /\ new.file = f /\ new.at = 1 /\ new.alone = alone
  BY <1>3, <1>5, RunRecords
<1> HIDE DEF new
<1>7. 1 \in 1 .. 11
  OBVIOUS
<1>8. new \in [file : Files, at : 1 .. 11, alone : BOOLEAN, lidos : L]
  BY <1>6, <1>7
<1> QED
  BY <1>4, <1>6, <1>8 DEF Run, L

\* What the backfill has read.
LEMMA ReadRecord ==
  ASSUME TypeOK, BackfillRead
  PROVE  /\ running.file = "profiles" /\ running.at = 4 /\ running.file \in unfinished
         /\ running' \in Run /\ running'.file = "profiles" /\ running'.at = 5
         /\ running'.alone = running.alone /\ running'.lidos = nome
<1> DEFINE new == [running EXCEPT !.lidos = nome, !.at = running.at + 1]
           A == 1 .. 11
           L == [Users -> Nomes \cup {NoNome, NoUser}]
<1>1. At("read") /\ running' = new
  BY DEF BackfillRead
<1>2. running.file = "profiles" /\ running.at = 4 /\ running \in Run /\ running.file \in unfinished
  BY <1>1, Places DEF PlaceOf, TypeOK
<1>3. nome \in L /\ running.at + 1 \in A /\ running.at + 1 = 5
  BY <1>2 DEF TypeOK, MirrorOK
<1>4. running \in [file : Files, at : A, alone : BOOLEAN, lidos : L]
  BY <1>2 DEF Run
<1> HIDE DEF A, L
<1>5. new \in [file : Files, at : A, alone : BOOLEAN, lidos : L]
      /\ new.file = running.file /\ new.at = 5 /\ new.alone = running.alone /\ new.lidos = nome
  BY <1>3, <1>4, RunRecords
<1> QED
  BY <1>1, <1>2, <1>5 DEF Run, A, L

\* Starting a file, or giving up on it.
LEMMA ProgressStep ==
  ASSUME TypeOK, (\E f \in Files, alone \in BOOLEAN : Start(f, alone)) \/ Interrupt
  PROVE  TypeOK'
<1>1. MirrorOK' /\ HookOK' /\ SeedsOK'
  BY DEF TypeOK, MirrorOK, HookOK, SeedsOK, Start, Interrupt, mirror, hook, tables
<1>2. CASE Interrupt
  BY <1>1, <1>2 DEF TypeOK, ProgressOK, Interrupt
<1>3. ASSUME NEW f \in Files, NEW alone \in BOOLEAN, Start(f, alone) PROVE TypeOK'
  <2>1. 1 \in 1 .. Len(Script[f])
    <3> DEFINE n == Len(Script[f])
    <3>1. n \in {1, 2, 3, 4, 5, 11}
      BY Lengths
    <3> HIDE DEF n
    <3>2. 1 \in 1 .. n
      BY <3>1
    <3> QED
      BY <3>2 DEF n
  <2>2. applied' = applied /\ unfinished' = unfinished \cup {f} /\ again' \in Nat
    <3>1. again \in Nat
      BY DEF TypeOK, ProgressOK
    <3>2. again' = IF f \in Started THEN again + 1 ELSE again
      BY <1>3 DEF Start
    <3>3. again' \in Nat
      BY <3>1, <3>2
    <3> QED
      BY <1>3, <3>3 DEF Start
  <2>3. ProgressOK'
    BY <1>3, <2>1, <2>2, StartRecord DEF TypeOK, ProgressOK
  <2>4. piecemeal' \in BOOLEAN
    BY <1>3 DEF Start, TypeOK, MirrorOK
  <2> QED
    BY <1>1, <2>3, <2>4 DEF TypeOK, MirrorOK
<1> QED
  BY <1>2, <1>3

LEMMA ApplyingTypes == TypeOK /\ Applying => TypeOK'
<1> SUFFICES ASSUME TypeOK, Applying PROVE TypeOK'
  OBVIOUS
<1> USE InstallationAssumption DEF TypeOK, mirror, hook, tables, progress
<1>1. ASSUME NEW s, At(s), Advance PROVE ProgressOK' /\ UNCHANGED piecemeal
  BY <1>1, Advances DEF At
<1>2. CASE Create \/ HookStatement
  <2>1. PICK s : At(s) /\ Advance /\ UNCHANGED <<mirror, tables, bootstrapped>>
    BY <1>2 DEF Create, HookStatement, CreateFunction, GrantRight, RevokeExecute, DropPolicy, CreatePolicy
  <2>2. HookOK'
    BY <1>2 DEF Create, HookStatement, CreateFunction, GrantRight, RevokeExecute, DropPolicy,
                CreatePolicy, HookOK, HookTables
  <2> QED
    BY <1>1, <2>1, <2>2 DEF MirrorOK, SeedsOK
<1>3. CASE InsertAplicacoes \/ InsertPapeis \/ InsertGrants \/ InsertClients
  <2>1. \E s : At(s) /\ Advance
    BY <1>3 DEF InsertAplicacoes, InsertPapeis, InsertGrants, InsertClients
  <2>2. PICK s : At(s) /\ Advance
    BY <2>1
  <2>3. ProgressOK' /\ piecemeal' = piecemeal /\ Seeds \subseteq Apps
    BY <1>1, <2>2, Places DEF Seeds, PlaceOf
  <2>4. MirrorOK' /\ HookOK'
    BY <1>3, <2>3 DEF InsertAplicacoes, InsertPapeis, InsertGrants, InsertClients, MirrorOK, HookOK
  <2>5. SeedsOK'
    BY <1>3, <2>3 DEF InsertAplicacoes, InsertPapeis, InsertGrants, InsertClients, SeedsOK, GrantsOfJoao
  <2> QED
    BY <2>3, <2>4, <2>5
<1>4. CASE DropTrigger \/ CreateTrigger
  BY <1>1, <1>4 DEF DropTrigger, CreateTrigger, MirrorOK, HookOK, SeedsOK
<1>5. CASE BackfillInsert
  <2>1. At("insert") /\ Advance
    BY <1>5 DEF BackfillInsert
  <2>2. running.lidos \in [Users -> Nomes \cup {NoNome, NoUser}]
    BY <2>1 DEF At, ProgressOK, Run
  <2>3. profiles' \in [Users -> Nomes \cup {NoNome, NoProfile}]
    BY <1>5, <2>2 DEF BackfillInsert, MirrorOK
  <2>4. MirrorOK' /\ HookOK' /\ SeedsOK'
    BY <1>5, <1>1, <2>1, <2>3 DEF BackfillInsert, MirrorOK, HookOK, SeedsOK
  <2> QED
    BY <1>1, <2>1, <2>4
<1>6. CASE BackfillRead
  <2>1. 5 \in 1 .. Len(Script["profiles"])
    <3>1. Len(Script["profiles"]) = 5
      BY Scripts
    <3> QED
      BY <3>1
  <2>2. ProgressOK'
    BY <1>6, <2>1, ReadRecord DEF BackfillRead, ProgressOK
  <2> QED
    BY <1>6, <2>2 DEF BackfillRead, MirrorOK, HookOK, SeedsOK
<1> QED
  BY <1>2, <1>3, <1>4, <1>5, <1>6 DEF Applying

LEMMA OthersTypes ==
  TypeOK /\ (Operating \/ UsingGoTrue \/ Administering \/ UNCHANGED vars) => TypeOK'
<1> SUFFICES ASSUME TypeOK, Operating \/ UsingGoTrue \/ Administering \/ UNCHANGED vars
             PROVE  TypeOK'
  OBVIOUS
<1> USE InstallationAssumption DEF TypeOK, mirror, hook, tables, progress
<1>1. CASE Operating
  <2>1. MirrorOK' /\ HookOK' /\ ProgressOK'
    BY <1>1 DEF Operating, EnableHook, Bootstrap, MirrorOK, HookOK, ProgressOK
  <2>2. CASE EnableHook
    BY <2>1, <2>2 DEF EnableHook, SeedsOK
  <2>3. CASE Bootstrap
    <3>1. bootstrapped' \in BOOLEAN
      BY <2>3, Zenon DEF Bootstrap, SeedsOK
    <3>2. grants' \subseteq Users \X Apps
      BY <2>3 DEF Bootstrap, SeedsOK
    <3> QED
      BY <2>1, <2>3, <3>1, <3>2 DEF Bootstrap, SeedsOK
  <2> QED
    BY <1>1, <2>2, <2>3 DEF Operating
<1>2. CASE UsingGoTrue
  <2>1. PICK u \in Users, n \in Nomes \cup {NoNome} : SyncProfile(u, n)
    BY <1>2 DEF UsingGoTrue, CriarUsuario, Renomear
  <2> QED
    BY <2>1 DEF SyncProfile, MirrorOK, HookOK, SeedsOK, ProgressOK
<1>3. CASE Administering
  <2>1. Administer
    BY <1>3 DEF Administering, Ativar, Desativar, GerarSegredo, CriarPapel, ExcluirPapel,
                Conceder, Revogar
  <2>2. MirrorOK' /\ HookOK' /\ ProgressOK' /\ bootstrapped' = bootstrapped
    BY <2>1 DEF Administer, MirrorOK, HookOK, ProgressOK
  <2>3. CASE \E app \in Apps : Ativar(app) \/ Desativar(app) \/ GerarSegredo(app)
    BY <2>2, <2>3 DEF Ativar, Desativar, GerarSegredo, SeedsOK
  <2>4. CASE \E app \in Apps : CriarPapel(app) \/ ExcluirPapel(app)
    BY <2>2, <2>4 DEF CriarPapel, ExcluirPapel, SeedsOK
  <2>5. CASE \E u \in Users, app \in Apps : Conceder(u, app) \/ Revogar(u, app)
    BY <2>2, <2>5 DEF Conceder, Revogar, SeedsOK
  <2> QED
    BY <1>3, <2>3, <2>4, <2>5 DEF Administering
<1>4. CASE UNCHANGED vars
  BY <1>4 DEF vars, MirrorOK, HookOK, SeedsOK, ProgressOK
<1> QED
  BY <1>1, <1>2, <1>3, <1>4

LEMMA TypeStep == TypeOK /\ [Next]_vars => TypeOK'
BY ProgressStep, ApplyingTypes, OthersTypes DEF Next

\* Tables and database objects stay what they can be, and a file under way
\* stands at one of its statements.
THEOREM InstallationTypeCorrect == Spec => []TypeOK
BY TypeInit, TypeStep, PTL DEF Spec

----------------------------------------------------------------------------
(* The hook keeps answering, and finds its policies *)

\* Taking one element away, or adding one.
LEMMA CountOne ==
  ASSUME NEW S, IsFiniteSet(S), NEW t
  PROVE  /\ Cardinality(S) \in Nat
         /\ IsFiniteSet(S \ {t}) /\ Cardinality(S \ {t}) \in Nat
         /\ Cardinality(S \ {t}) <= Cardinality(S)
         /\ Cardinality(S) <= Cardinality(S \ {t}) + 1
<1>1. /\ Cardinality(S) \in Nat /\ IsFiniteSet(S \ {t})
      /\ Cardinality(S \ {t}) = IF t \in S THEN Cardinality(S) - 1 ELSE Cardinality(S)
  BY FS_CardinalityType, FS_RemoveElement
<1>2. Cardinality(S \ {t}) \in Nat
  BY <1>1, FS_CardinalityType
<1> QED
  BY <1>1, <1>2

Missing == HookTables \ policies

LEMMA MissingFinite == IsFiniteSet(Missing)
<1>1. IsFiniteSet({})
  BY FS_EmptySet
<1>2. IsFiniteSet({"usuario_papeis"})
  BY FS_Singleton
<1>3. IsFiniteSet({"usuario_papeis"} \cup {"papeis"})
  BY <1>2, FS_AddElement
<1>4. IsFiniteSet({"usuario_papeis"} \cup {"papeis"} \cup {"aplicacoes"})
  BY <1>3, FS_AddElement
<1>5. HookTables = {"usuario_papeis"} \cup {"papeis"} \cup {"aplicacoes"}
  BY DEF HookTables
<1>6. IsFiniteSet(HookTables)
  BY <1>4, <1>5
<1> QED
  BY <1>6, FS_Difference DEF Missing

OnHook == running.file = "hook"

\* The policy dropped and not yet created again, at its place in sql/0002.
Open ==
  CASE running.at = 7 -> {"usuario_papeis"}
    [] running.at = 9 -> {"papeis"}
    [] running.at = 11 -> {"aplicacoes"}
    [] OTHER -> {}

\* What sql/0002 has granted and created by the statement it stands at.
SoFar ==
  OnHook =>
    /\ running.at >= 2 => function
    /\ running.at >= 3 => "usage" \in rights
    /\ running.at >= 4 => "execute" \in rights
    /\ running.at >= 6 => "select" \in rights
    /\ running.at >= 8 => "usuario_papeis" \in policies
    /\ running.at >= 10 => "papeis" \in policies

\* A pass holds back at most the policy it has open; what else is missing was
\* lost by the passes before it.
LostInv ==
  "hook" \in applied =>
    /\ Cardinality(Missing) <= again
    /\ OnHook => Cardinality(Missing \ Open) < again

HookInv ==
  /\ HookKeepsAnswering
  /\ SoFar
  /\ Settled("hook") => policies = HookTables
  /\ LostInv

\* A file that is not sql/0002 is not on it next either.
LEMMA HookElsewhere ==
  ASSUME TypeOK, HookInv, NEW s, At(s), Advance, running.file # "hook", UNCHANGED hook
  PROVE  HookInv'
<1>1. running # Nothing /\ ProgressOK
  BY DEF At, TypeOK
<1>2. /\ running'.file # "hook" /\ again' = again
      /\ "hook" \in applied' <=> "hook" \in applied
      /\ "hook" \in unfinished' <=> "hook" \in unfinished
  BY <1>1, Advances, NothingFacts, InstallationAssumption DEF Files
<1>3. HookKeepsAnswering' /\ SoFar' /\ (Settled("hook") => policies = HookTables)'
  BY <1>2 DEF HookInv, HookKeepsAnswering, HookAnswers, MayExecute, SoFar, OnHook, Settled, hook
<1>4. LostInv'
  BY <1>2 DEF HookInv, LostInv, OnHook, Missing, hook
<1> QED
  BY <1>3, <1>4 DEF HookInv

\* The place and the progress of a statement of sql/0002.
LEMMA HookPlace ==
  ASSUME TypeOK, NEW s, At(s), Advance, NEW k \in 1 .. 11, running.file = "hook", running.at = k
  PROVE  /\ again' = again /\ again \in Nat /\ "hook" \in unfinished
         /\ k < 11 => /\ running'.file = "hook" /\ running'.at = k + 1
                      /\ UNCHANGED <<applied, unfinished>>
         /\ k = 11 => /\ running'.file # "hook"
                      /\ applied' = applied \cup {"hook"} /\ unfinished' = unfinished \ {"hook"}
<1>1. running # Nothing /\ ProgressOK /\ Len(Script[running.file]) = 11 /\ "hook" \in unfinished
  BY HookScript, Places DEF At, TypeOK
<1>2. again \in Nat
  BY <1>1 DEF ProgressOK
<1>3. CASE k < 11
  BY <1>1, <1>2, <1>3, Advances
<1>4. CASE k = 11
  BY <1>1, <1>2, <1>4, Advances, NothingFacts, InstallationAssumption DEF Files
<1> QED
  BY <1>3, <1>4

\* The function and its rights come before the policies.
LEMMA RightsHook ==
  ASSUME TypeOK, HookInv,
         CreateFunction \/ GrantRight("usage") \/ GrantRight("execute") \/ RevokeExecute
           \/ GrantRight("select")
  PROVE  HookInv'
<1>1. PICK s \in {"function", "usage", "execute", "revoke", "select"} :
        /\ At(s) /\ Advance /\ UNCHANGED policies
        /\ s = "function" => /\ function' = TRUE
                             /\ rights' = IF function THEN rights ELSE rights \cup {"public"}
        /\ s # "function" => function' = function
        /\ s \in {"usage", "execute", "select"} => rights' = rights \cup {s}
        /\ s = "revoke" => rights' = rights \ {"public"}
  BY DEF CreateFunction, GrantRight, RevokeExecute
<1>2. running.file = "hook" /\ running.at \in {1, 2, 3, 4, 5} /\ PlaceOf(s, running.file, running.at)
  BY <1>1, Places DEF PlaceOf, TypeOK
<1>3. /\ running'.file = "hook" /\ running'.at = running.at + 1 /\ again' = again
      /\ UNCHANGED <<applied, unfinished>> /\ "hook" \in unfinished
  <2>1. running.at \in 1 .. 11 /\ running.at < 11
    BY <1>2
  <2> QED
    BY <1>1, <1>2, <2>1, HookPlace
<1>4. HookKeepsAnswering'
  <2>1. s = "revoke" => "execute" \in rights
    BY <1>2 DEF PlaceOf, HookInv, SoFar, OnHook
  <2>2. "hook" \in applied => function
    BY DEF HookInv, HookKeepsAnswering, HookAnswers
  <2> QED
    BY <1>1, <1>3, <2>1, <2>2 DEF HookInv, HookKeepsAnswering, HookAnswers, MayExecute
<1>5. SoFar'
  <2>1. /\ s = "function" => running'.at = 2
        /\ s = "usage" => running'.at = 3
        /\ s = "execute" => running'.at = 4
        /\ s = "revoke" => running'.at = 5
        /\ s = "select" => running'.at = 6
    <3>1. /\ s = "function" => running.at = 1
          /\ s = "usage" => running.at = 2
          /\ s = "execute" => running.at = 3
          /\ s = "revoke" => running.at = 4
          /\ s = "select" => running.at = 5
      BY <1>2 DEF PlaceOf
    <3> QED
      BY <1>3, <3>1
  <2>2. /\ s = "usage" => function
        /\ s = "execute" => function /\ "usage" \in rights
        /\ s = "revoke" => function /\ "usage" \in rights /\ "execute" \in rights
        /\ s = "select" => function /\ "usage" \in rights /\ "execute" \in rights
    <3>1. /\ s = "usage" => running.at = 2
          /\ s = "execute" => running.at = 3
          /\ s = "revoke" => running.at = 4
          /\ s = "select" => running.at = 5
      BY <1>2 DEF PlaceOf
    <3> QED
      BY <1>2, <3>1 DEF HookInv, SoFar, OnHook
  <2>3. CASE s = "function"
    BY <2>1, <2>3, <1>1 DEF SoFar
  <2>4. CASE s = "usage"
    BY <2>1, <2>2, <2>4, <1>1 DEF SoFar
  <2>5. CASE s = "execute"
    BY <2>1, <2>2, <2>5, <1>1 DEF SoFar
  <2>6. CASE s = "revoke"
    BY <2>1, <2>2, <2>6, <1>1 DEF SoFar
  <2>7. CASE s = "select"
    BY <2>1, <2>2, <2>7, <1>1 DEF SoFar
  <2> QED
    BY <1>1, <2>3, <2>4, <2>5, <2>6, <2>7
<1>6. (Settled("hook") => policies = HookTables)'
  BY <1>3 DEF Settled
<1>7. LostInv'
  <2>1. Open = {} /\ Open' = {} /\ Missing' = Missing
    BY <1>1, <1>2, <1>3 DEF Open, Missing
  <2> QED
    BY <1>2, <1>3, <2>1 DEF HookInv, LostInv, OnHook
<1> QED
  BY <1>4, <1>5, <1>6, <1>7 DEF HookInv

\* A policy that is dropped is missing until the next statement.
LEMMA DropHook ==
  ASSUME TypeOK, HookInv, NEW table \in HookTables, NEW s, DropPolicy(table, s),
         NEW k \in {6, 8, 10}, running.file = "hook", running.at = k,
         \/ k = 6 /\ table = "usuario_papeis"
         \/ k = 8 /\ table = "papeis"
         \/ k = 10 /\ table = "aplicacoes"
  PROVE  HookInv'
<1>1. At(s) /\ Advance /\ policies' = policies \ {table} /\ UNCHANGED <<function, rights>>
  BY DEF DropPolicy
<1>2. /\ running'.file = "hook" /\ running'.at = k + 1 /\ again' = again /\ again \in Nat
      /\ UNCHANGED <<applied, unfinished>> /\ "hook" \in unfinished
  BY <1>1, HookPlace
<1>3. HookKeepsAnswering'
  BY <1>1, <1>2 DEF HookInv, HookKeepsAnswering, HookAnswers, MayExecute
<1>4. SoFar'
  BY <1>1, <1>2 DEF HookInv, SoFar, OnHook
<1>5. (Settled("hook") => policies = HookTables)'
  BY <1>2 DEF Settled
<1>6. LostInv'
  <2>1. Open = {} /\ Open' = {table}
    BY <1>2 DEF Open
  <2>2. Missing' = Missing \cup {table} /\ Missing' \ {table} = Missing \ {table}
    BY <1>1 DEF Missing
  <2>3. IsFiniteSet(Missing) /\ IsFiniteSet(Missing')
    <3>1. IsFiniteSet(Missing)
      BY MissingFinite
    <3> QED
      BY <2>2, <3>1, FS_AddElement
  <2>4. "hook" \in applied => Cardinality(Missing) < again
    <3>1. Missing \ {} = Missing
      OBVIOUS
    <3> QED
      BY <2>1, <3>1 DEF HookInv, LostInv, OnHook
  <2> DEFINE m == Cardinality(Missing)
             n == Cardinality(Missing')
             r == Cardinality(Missing \ {table})
  <2>5. m \in Nat /\ n \in Nat /\ r \in Nat /\ r <= m /\ n <= r + 1
    BY <2>2, <2>3, CountOne
  <2>6. "hook" \in applied => n <= again /\ r < again
    <3> HIDE DEF m, n, r
    <3> QED
      BY <1>2, <2>4, <2>5 DEF m
  <2> QED
    BY <1>2, <2>1, <2>2, <2>6 DEF LostInv
<1> QED
  BY <1>3, <1>4, <1>5, <1>6 DEF HookInv

\* The one that is created closes what the pass had open.
LEMMA CreateHook ==
  ASSUME TypeOK, HookInv, NEW table \in HookTables, NEW s, CreatePolicy(table, s),
         NEW k \in {7, 9, 11}, running.file = "hook", running.at = k,
         \/ k = 7 /\ table = "usuario_papeis"
         \/ k = 9 /\ table = "papeis"
         \/ k = 11 /\ table = "aplicacoes"
  PROVE  HookInv'
<1>1. At(s) /\ Advance /\ policies' = policies \cup {table} /\ UNCHANGED <<function, rights>>
  BY DEF CreatePolicy
<1>2. /\ again' = again /\ again \in Nat /\ "hook" \in unfinished
      /\ k < 11 => /\ running'.file = "hook" /\ running'.at = k + 1
                   /\ UNCHANGED <<applied, unfinished>>
      /\ k = 11 => /\ running'.file # "hook"
                   /\ applied' = applied \cup {"hook"} /\ unfinished' = unfinished \ {"hook"}
  BY <1>1, HookPlace
<1>3. HookAnswers /\ HookKeepsAnswering'
  <2>1. HookAnswers
    BY DEF HookInv, SoFar, OnHook, HookAnswers, MayExecute
  <2> QED
    BY <1>1, <2>1 DEF HookKeepsAnswering, HookAnswers, MayExecute
<1>4. SoFar'
  BY <1>1, <1>2 DEF HookInv, SoFar, OnHook
<1>5. k = 11 => policies' = HookTables
  <2>1. k = 11 => {"usuario_papeis", "papeis"} \subseteq policies /\ table = "aplicacoes"
    BY DEF HookInv, SoFar, OnHook
  <2>2. policies \subseteq HookTables
    BY DEF TypeOK, HookOK
  <2> QED
    BY <1>1, <2>1, <2>2 DEF HookTables
<1>6. (Settled("hook") => policies = HookTables)'
  BY <1>2, <1>5 DEF Settled
<1>7. LostInv'
  <2>1. Open = {table}
    BY DEF Open
  <2>2. Missing' = Missing \ {table}
    BY <1>1 DEF Missing
  <2>3. IsFiniteSet(Missing)
    BY MissingFinite
  <2> DEFINE n == Cardinality(Missing')
  <2>4. n \in Nat
    BY <2>2, <2>3, CountOne
  <2>5. "hook" \in applied => n < again
    BY <2>1, <2>2 DEF HookInv, LostInv, OnHook
  <2>6. CASE k < 11
    <3>1. Open' = {} /\ Missing' \ {} = Missing'
      BY <1>2, <2>6 DEF Open
    <3>2. "hook" \in applied => n <= again
      <4> HIDE DEF n
      <4> QED
        BY <1>2, <2>4, <2>5
    <3> QED
      BY <1>2, <2>5, <2>6, <3>1, <3>2 DEF LostInv
  <2>7. CASE k = 11
    <3>1. Missing' = {}
      BY <1>5, <2>7 DEF Missing
    <3>2. n = 0
      BY <3>1, FS_EmptySet
    <3> HIDE DEF n
    <3>3. n <= again
      BY <1>2, <3>2
    <3> USE DEF n
    <3> QED
      BY <1>2, <2>7, <3>3 DEF LostInv, OnHook
  <2> QED
    BY <2>6, <2>7
<1> QED
  BY <1>3, <1>4, <1>6, <1>7 DEF HookInv

LEMMA HookStep == TypeOK /\ HookInv /\ [Next]_vars => HookInv'
<1> SUFFICES ASSUME TypeOK, HookInv, [Next]_vars PROVE HookInv'
  OBVIOUS
<1>1. ASSUME NEW f \in Files, NEW alone \in BOOLEAN, Start(f, alone) PROVE HookInv'
  <2>1. /\ running'.file = f /\ running'.at = 1 /\ applied' = applied
        /\ unfinished' = unfinished \cup {f} /\ UNCHANGED <<function, rights, policies>>
        /\ again' = IF f \in Started THEN again + 1 ELSE again
    BY <1>1, StartRecord DEF Start, hook
  <2>2. HookKeepsAnswering' /\ SoFar' /\ (Settled("hook") => policies = HookTables)'
    BY <2>1 DEF HookInv, HookKeepsAnswering, HookAnswers, MayExecute, SoFar, Settled
  <2>3. Missing' = Missing /\ Open' = {} /\ Missing \ {} = Missing
    BY <2>1 DEF Missing, Open
  <2> DEFINE m == Cardinality(Missing)
  <2>4. m \in Nat /\ again \in Nat
    BY MissingFinite, FS_CardinalityType DEF TypeOK, ProgressOK
  <2>5. "hook" \in applied => m <= again
    BY DEF HookInv, LostInv
  <2>6. "hook" \in applied => m <= again' /\ (f = "hook" => m < again')
    <3>1. f = "hook" /\ "hook" \in applied => again' = again + 1
      BY <2>1 DEF Started
    <3>2. again' = again \/ again' = again + 1
      BY <2>1
    <3> HIDE DEF m
    <3> QED
      BY <2>4, <2>5, <3>1, <3>2
  <2>7. LostInv'
    BY <2>1, <2>3, <2>6 DEF LostInv, OnHook
  <2> QED
    BY <2>2, <2>7 DEF HookInv
<1>2. CASE Interrupt
  <2>1. /\ running'.file # "hook"
        /\ UNCHANGED <<function, rights, policies, applied, unfinished, again>>
    BY <1>2, NothingFacts, InstallationAssumption DEF Interrupt, hook, Files
  <2>2. HookKeepsAnswering' /\ SoFar' /\ (Settled("hook") => policies = HookTables)'
    BY <2>1 DEF HookInv, HookKeepsAnswering, HookAnswers, MayExecute, SoFar, OnHook, Settled
  <2>3. LostInv'
    BY <2>1 DEF HookInv, LostInv, OnHook, Missing
  <2> QED
    BY <2>2, <2>3 DEF HookInv
<1>3. CASE HookStatement
  <2>1. CASE DropPolicy("usuario_papeis", "drop usuario_papeis")
    <3>1. running.file = "hook" /\ running.at = 6
      BY <2>1, Places DEF DropPolicy, PlaceOf, TypeOK
    <3>2. "usuario_papeis" \in HookTables
      BY DEF HookTables
    <3> QED
      BY <2>1, <3>1, <3>2, DropHook
  <2>2. CASE CreatePolicy("usuario_papeis", "create usuario_papeis")
    <3>1. running.file = "hook" /\ running.at = 7
      BY <2>2, Places DEF CreatePolicy, PlaceOf, TypeOK
    <3>2. "usuario_papeis" \in HookTables
      BY DEF HookTables
    <3> QED
      BY <2>2, <3>1, <3>2, CreateHook
  <2>3. CASE DropPolicy("papeis", "drop papeis")
    <3>1. running.file = "hook" /\ running.at = 8
      BY <2>3, Places DEF DropPolicy, PlaceOf, TypeOK
    <3>2. "papeis" \in HookTables
      BY DEF HookTables
    <3> QED
      BY <2>3, <3>1, <3>2, DropHook
  <2>4. CASE CreatePolicy("papeis", "create papeis")
    <3>1. running.file = "hook" /\ running.at = 9
      BY <2>4, Places DEF CreatePolicy, PlaceOf, TypeOK
    <3>2. "papeis" \in HookTables
      BY DEF HookTables
    <3> QED
      BY <2>4, <3>1, <3>2, CreateHook
  <2>5. CASE DropPolicy("aplicacoes", "drop aplicacoes")
    <3>1. running.file = "hook" /\ running.at = 10
      BY <2>5, Places DEF DropPolicy, PlaceOf, TypeOK
    <3>2. "aplicacoes" \in HookTables
      BY DEF HookTables
    <3> QED
      BY <2>5, <3>1, <3>2, DropHook
  <2>6. CASE CreatePolicy("aplicacoes", "create aplicacoes")
    <3>1. running.file = "hook" /\ running.at = 11
      BY <2>6, Places DEF CreatePolicy, PlaceOf, TypeOK
    <3>2. "aplicacoes" \in HookTables
      BY DEF HookTables
    <3> QED
      BY <2>6, <3>1, <3>2, CreateHook
  <2> QED
    BY <1>3, <2>1, <2>2, <2>3, <2>4, <2>5, <2>6, RightsHook DEF HookStatement
<1>4. CASE Create \/ InsertAplicacoes \/ InsertPapeis \/ InsertGrants \/ InsertClients
           \/ DropTrigger \/ CreateTrigger \/ BackfillInsert
  <2>1. PICK s \in {"create", "aplicacoes", "papeis", "grants", "clients", "drop trigger",
                    "create trigger", "insert"} : At(s) /\ Advance /\ UNCHANGED hook
    BY <1>4 DEF Create, InsertAplicacoes, InsertPapeis, InsertGrants, InsertClients,
                DropTrigger, CreateTrigger, BackfillInsert
  <2>2. running.file # "hook"
    BY <2>1, Places DEF PlaceOf, TypeOK
  <2> QED
    BY <2>1, <2>2, HookElsewhere
<1>5. CASE BackfillRead
  <2>1. /\ running'.file # "hook"
        /\ UNCHANGED <<function, rights, policies, applied, unfinished, again>>
    BY <1>5, ReadRecord DEF BackfillRead, hook
  <2>2. HookKeepsAnswering' /\ SoFar' /\ (Settled("hook") => policies = HookTables)'
    BY <2>1 DEF HookInv, HookKeepsAnswering, HookAnswers, MayExecute, SoFar, OnHook, Settled
  <2>3. LostInv'
    BY <2>1 DEF HookInv, LostInv, OnHook, Missing
  <2> QED
    BY <2>2, <2>3 DEF HookInv
<1>6. CASE Operating \/ UsingGoTrue \/ Administering \/ UNCHANGED vars
  <2>1. UNCHANGED <<function, rights, policies, applied, unfinished, running, again>>
    BY <1>6 DEF Operating, EnableHook, Bootstrap, UsingGoTrue, CriarUsuario, Renomear, SyncProfile,
                Administering, Administer, Ativar, Desativar, GerarSegredo, CriarPapel,
                ExcluirPapel, Conceder, Revogar, vars, progress, hook
  <2>2. HookKeepsAnswering' /\ SoFar' /\ (Settled("hook") => policies = HookTables)'
    BY <2>1 DEF HookInv, HookKeepsAnswering, HookAnswers, MayExecute, SoFar, OnHook, Settled
  <2>3. LostInv'
    BY <2>1 DEF HookInv, LostInv, OnHook, Missing, Open
  <2> QED
    BY <2>2, <2>3 DEF HookInv
<1> QED
  BY <1>1, <1>2, <1>3, <1>4, <1>5, <1>6 DEF Next, Applying

LEMMA HookInvariant == Spec => []HookInv
<1>1. Init => HookInv
  <2> SUFFICES ASSUME Init PROVE HookInv
    OBVIOUS
  <2>1. running.file # "hook" /\ applied = {} /\ ~function
    BY NothingFacts, InstallationAssumption DEF Init, Files
  <2> QED
    BY <2>1 DEF HookInv, HookKeepsAnswering, SoFar, OnHook, Settled, LostInv
<1> QED
  BY <1>1, HookStep, InstallationTypeCorrect, PTL DEF Spec

\* Once sql/0002 has run to its end, whatever is applied, interrupted or left
\* half-way after it, the hook's calls do not fail.
THEOREM HookAnswersForGood == Spec => []HookKeepsAnswering
<1>1. HookInv => HookKeepsAnswering
  BY DEF HookInv
<1> QED
  BY <1>1, HookInvariant, PTL

\* Policies are missing only within an application of sql/0002 under way or given
\* up, one for each at most, however many there are.
THEOREM PoliciesComeBack == Spec => []PoliciesLostOneByOne
<1>1. HookInv => PoliciesLostOneByOne
  BY DEF HookInv, Settled, LostInv, Missing, PoliciesLostOneByOne
<1> QED
  BY <1>1, HookInvariant, PTL

----------------------------------------------------------------------------
(* Profiles mirror users *)

LEMMA MirrorInit == Init => MirrorInv
<1> SUFFICES ASSUME Init PROVE MirrorInv
  OBVIOUS
<1>1. running.file = NoFile /\ NoFile # "profiles" /\ ~trigger /\ ~piecemeal /\ missed = {}
      /\ applied = {} /\ unfinished = {} /\ \A u \in Users : profiles[u] = NoProfile
  BY NothingFacts, InstallationAssumption DEF Init, Files
<1> QED
  BY <1>1 DEF MirrorInv, TriggerInv, BackfillInv, TransactionInv, NoRenamingMissed, Settled,
              AtFrom, NobodyMirrored, Started

\* A statement that touches neither users nor profiles nor the trigger, in
\* another file or at the beginning of sql/0006.
LEMMA MirrorElsewhere ==
  ASSUME TypeOK, MirrorInv, NEW s, At(s), Advance,
         running.file # "profiles" \/ running.at = 1, UNCHANGED mirror
  PROVE  MirrorInv'
<1>1. /\ running # Nothing /\ ProgressOK /\ running.file \in unfinished
      /\ UNCHANGED <<nome, profiles, trigger, missed>>
  BY DEF At, TypeOK, ProgressOK, mirror
<1>2. NoFile # "profiles"
  BY InstallationAssumption DEF Files
<1>3. piecemeal' = piecemeal
  BY <1>1, Advances
<1>4. CASE running.file # "profiles"
  <2>1. /\ running'.file # "profiles"
        /\ "profiles" \in applied' <=> "profiles" \in applied
        /\ "profiles" \in unfinished' <=> "profiles" \in unfinished
    BY <1>1, <1>2, <1>4, Advances, NothingFacts
  <2> QED
    BY <1>1, <1>3, <1>4, <2>1
    DEF MirrorInv, TriggerInv, BackfillInv, TransactionInv, NoRenamingMissed, Settled, AtFrom,
        NobodyMirrored, Started, NotAlone
<1>5. CASE running.file = "profiles" /\ running.at = 1
  <2>1. running.at # Len(Script[running.file])
    <3>1. Len(Script[running.file]) = 5
      BY <1>5, Scripts
    <3> QED
      BY <1>5, <3>1
  <2>2. running'.file = "profiles" /\ running'.alone = running.alone /\ running'.at = 2
        /\ UNCHANGED <<applied, unfinished>>
    BY <1>1, <1>5, <2>1, Advances
  <2> QED
    BY <1>1, <1>3, <1>5, <2>2
    DEF MirrorInv, TriggerInv, BackfillInv, TransactionInv, NoRenamingMissed, Settled, AtFrom,
        NobodyMirrored, Started, NotAlone
<1> QED
  BY <1>4, <1>5

LEMMA StartMirror ==
  ASSUME TypeOK, MirrorInv, NEW f \in Files, NEW alone \in BOOLEAN, Start(f, alone)
  PROVE  MirrorInv'
<1>1. /\ running = Nothing /\ running'.file = f /\ running'.at = 1 /\ running'.alone = alone
      /\ applied' = applied /\ unfinished' = unfinished \cup {f}
      /\ UNCHANGED <<nome, profiles, trigger, missed>>
      /\ piecemeal' = (piecemeal \/ (f = "profiles" /\ f \in Started /\ ~alone))
  BY StartRecord DEF Start, mirror
<1>2. running.file # "profiles" /\ ~running.alone
  BY <1>1, NothingFacts, InstallationAssumption DEF Files
<1>3. TriggerInv' /\ BackfillInv'
  BY <1>1, <1>2 DEF MirrorInv, TriggerInv, BackfillInv, Settled, AtFrom
<1>4. CASE f = "profiles" /\ f \notin Started
  <2>1. ~piecemeal /\ NobodyMirrored
    BY <1>4 DEF MirrorInv, TransactionInv
  <2> QED
    BY <1>1, <1>3, <1>4, <2>1 DEF MirrorInv, TransactionInv, NoRenamingMissed, NobodyMirrored
<1>5. CASE f = "profiles" /\ f \in Started
  <2>1. "profiles" \in Started'
    BY <1>1, <1>5 DEF Started
  <2>2. CASE ~alone
    BY <1>1, <1>3, <1>5, <2>1, <2>2 DEF MirrorInv, TransactionInv, NoRenamingMissed
  <2>3. CASE alone
    BY <1>1, <1>2, <1>3, <1>5, <2>1, <2>3
    DEF MirrorInv, TransactionInv, NoRenamingMissed, NobodyMirrored, NotAlone
  <2> QED
    BY <2>2, <2>3
<1>6. CASE f # "profiles"
  <2>1. "profiles" \in Started' <=> "profiles" \in Started
    BY <1>1, <1>6 DEF Started
  <2> QED
    BY <1>1, <1>2, <1>3, <1>6, <2>1
    DEF MirrorInv, TransactionInv, NoRenamingMissed, NobodyMirrored, NotAlone
<1> QED
  BY <1>4, <1>5, <1>6

\* An interrupted run was not in a transaction, so it leaves no profile behind
\* without the trigger, except after a second application by statements.
LEMMA InterruptMirror ==
  ASSUME TypeOK, MirrorInv, Interrupt
  PROVE  MirrorInv'
<1>1. running' = Nothing /\ NotAlone /\ UNCHANGED <<nome, profiles, trigger, missed, piecemeal,
                                                      applied, unfinished>>
  BY DEF Interrupt, mirror
<1>2. running'.file # "profiles" /\ ~running'.alone
  BY <1>1, NothingFacts, InstallationAssumption DEF Files
<1> QED
  BY <1>1, <1>2
  DEF MirrorInv, TriggerInv, BackfillInv, TransactionInv, NoRenamingMissed, Settled, AtFrom,
      NobodyMirrored, Started, NotAlone

LEMMA DropMirror ==
  ASSUME TypeOK, MirrorInv, DropTrigger
  PROVE  MirrorInv'
<1>1. /\ running # Nothing /\ running.file = "profiles" /\ running.at = 2
      /\ "profiles" \in unfinished
  <2>1. At("drop trigger")
    BY DEF DropTrigger
  <2> QED
    BY <2>1, Places DEF PlaceOf, TypeOK, At
<1>2. /\ running'.file = "profiles" /\ running'.at = 3
      /\ running'.alone = running.alone /\ UNCHANGED <<applied, unfinished, piecemeal>>
  <2>1. Advance
    BY DEF DropTrigger
  <2>2. Len(Script["profiles"]) = 5
    BY Scripts
  <2>3. running \in Run
    BY <1>1 DEF TypeOK, ProgressOK
  <2>4. /\ running' = [running EXCEPT !.at = 3]
        /\ UNCHANGED <<applied, unfinished, piecemeal>>
    BY <1>1, <2>1, <2>2 DEF Advance
  <2> QED
    BY <1>1, <2>3, <2>4 DEF Run
<1>3. ~trigger' /\ UNCHANGED <<nome, profiles, missed>>
  BY DEF DropTrigger
<1>4. ~Settled("profiles")' /\ "profiles" \in Started' /\ ~AtFrom(4)' /\ ~AtFrom(5)'
  BY <1>1, <1>2 DEF Settled, Started, AtFrom
<1>5. ~piecemeal /\ ~running.alone => NobodyMirrored
  BY <1>1 DEF MirrorInv, TransactionInv, NotAlone
<1>6. ~piecemeal' /\ ~running'.alone => NobodyMirrored'
  BY <1>2, <1>3, <1>5 DEF NobodyMirrored
<1> QED
  BY <1>2, <1>3, <1>4, <1>6
  DEF MirrorInv, TriggerInv, BackfillInv, TransactionInv, NoRenamingMissed, NotAlone

LEMMA CreateMirror ==
  ASSUME TypeOK, MirrorInv, CreateTrigger
  PROVE  MirrorInv'
<1>1. /\ running # Nothing /\ running.file = "profiles" /\ running.at = 3
      /\ "profiles" \in unfinished
  <2>1. At("create trigger")
    BY DEF CreateTrigger
  <2> QED
    BY <2>1, Places DEF PlaceOf, TypeOK, At
<1>2. /\ running'.file = "profiles" /\ running'.at = 4
      /\ running'.alone = running.alone /\ UNCHANGED <<applied, unfinished, piecemeal>>
  <2>1. Advance
    BY DEF CreateTrigger
  <2>2. Len(Script["profiles"]) = 5
    BY Scripts
  <2>3. running \in Run
    BY <1>1 DEF TypeOK, ProgressOK
  <2>4. /\ running' = [running EXCEPT !.at = 4]
        /\ UNCHANGED <<applied, unfinished, piecemeal>>
    BY <1>1, <2>1, <2>2 DEF Advance
  <2> QED
    BY <1>1, <2>3, <2>4 DEF Run
<1>3. trigger' /\ UNCHANGED <<nome, profiles, missed>>
  BY DEF CreateTrigger
<1>4. /\ ~Settled("profiles")' /\ "profiles" \in Started' /\ ~AtFrom(5)'
      /\ ~(running'.at <= 3)
  BY <1>1, <1>2 DEF Settled, Started, AtFrom
<1> QED
  BY <1>2, <1>3, <1>4
  DEF MirrorInv, TriggerInv, BackfillInv, TransactionInv, NoRenamingMissed, NotAlone

LEMMA ReadMirror ==
  ASSUME TypeOK, MirrorInv, BackfillRead
  PROVE  MirrorInv'
<1>1. /\ running.file = "profiles" /\ running.at = 4 /\ "profiles" \in unfinished
      /\ running'.file = "profiles" /\ running'.at = 5
      /\ running'.alone = running.alone /\ running'.lidos = nome
  BY ReadRecord
<1>2. UNCHANGED <<nome, profiles, trigger, missed, piecemeal, applied, unfinished>>
  BY DEF BackfillRead, mirror
<1>3. trigger
  BY <1>1 DEF MirrorInv, TriggerInv, AtFrom
<1> QED
  BY <1>1, <1>2, <1>3
  DEF MirrorInv, TriggerInv, BackfillInv, TransactionInv, NoRenamingMissed, Settled, AtFrom,
      NobodyMirrored, Started, NotAlone

LEMMA InsertMirror ==
  ASSUME TypeOK, MirrorInv, BackfillInsert
  PROVE  MirrorInv'
<1>1. At("insert") /\ Advance /\ UNCHANGED <<nome, trigger, missed>>
  BY DEF BackfillInsert
<1>2. running.file = "profiles" /\ running.at = 5 /\ running # Nothing /\ AtFrom(5) /\ AtFrom(4)
  <2>1. running.file = "profiles" /\ running.at = 5 /\ running # Nothing
    BY <1>1, Places DEF PlaceOf, TypeOK, At
  <2> QED
    BY <2>1 DEF AtFrom
<1>3. running.at = Len(Script[running.file])
  <2>1. Len(Script[running.file]) = 5
    BY <1>2, Scripts
  <2> QED
    BY <1>2, <2>1
<1>4. /\ running' = Nothing /\ piecemeal' = piecemeal
      /\ applied' = applied \cup {"profiles"} /\ unfinished' = unfinished \ {"profiles"}
  BY <1>1, <1>2, <1>3, Advances DEF TypeOK
<1>5. running'.file # "profiles" /\ ~running'.alone
  BY <1>4, NothingFacts, InstallationAssumption DEF Files
<1>6. trigger /\ trigger'
  BY <1>1, <1>2 DEF MirrorInv, TriggerInv
<1>7. ASSUME NEW u \in Users
      PROVE  /\ profiles'[u] = IF nome[u] # NoUser /\ profiles[u] = NoProfile
                               THEN nome[u] ELSE profiles[u]
             /\ nome[u] # NoProfile \/ nome[u] = NoUser
  <2>1. profiles'[u] = IF running.lidos[u] # NoUser /\ profiles[u] = NoProfile
                       THEN running.lidos[u] ELSE profiles[u]
    BY DEF BackfillInsert
  <2>2. profiles[u] = NoProfile => running.lidos[u] = nome[u]
    BY <1>2 DEF MirrorInv, BackfillInv
  <2>3. nome[u] # NoProfile \/ nome[u] = NoUser
    BY InstallationAssumption DEF TypeOK, MirrorOK
  <2> QED
    BY <2>1, <2>2, <2>3
<1>8. TriggerInv'
  BY <1>1, <1>5, <1>6, <1>7 DEF MirrorInv, TriggerInv, AtFrom
<1>9. BackfillInv'
  BY <1>1, <1>5, <1>7 DEF BackfillInv, AtFrom
<1> QED
  BY <1>1, <1>4, <1>5, <1>6, <1>8, <1>9
  DEF MirrorInv, TransactionInv, NoRenamingMissed, NotAlone, Started

\* GoTrue writes a user; the trigger, if there is one, writes the profile.
LEMMA SyncMirror ==
  ASSUME TypeOK, MirrorInv, NEW u \in Users, NEW n \in Nomes \cup {NoNome}, SyncProfile(u, n)
  PROVE  MirrorInv'
<1>1. /\ NotAlone /\ UNCHANGED <<trigger, applied, unfinished, running, piecemeal>>
      /\ nome' = [nome EXCEPT ![u] = n]
      /\ profiles' = IF trigger THEN [profiles EXCEPT ![u] = n] ELSE profiles
      /\ missed' = IF trigger THEN missed \ {u}
                   ELSE IF profiles[u] # NoProfile THEN missed \cup {u} ELSE missed
  BY DEF SyncProfile, progress
<1>2. n # NoProfile /\ n # NoUser
  BY InstallationAssumption
<1>3. /\ \A v \in Users : v # u => nome'[v] = nome[v]
      /\ nome'[u] = n /\ profiles \in [Users -> Nomes \cup {NoNome, NoProfile}]
  BY <1>1 DEF TypeOK, MirrorOK
<1>4. CASE trigger
  <2>1. profiles' = [profiles EXCEPT ![u] = n] /\ missed' = missed \ {u}
    BY <1>1, <1>4
  <2>2. profiles'[u] = n /\ \A v \in Users : v # u => profiles'[v] = profiles[v]
    BY <1>3, <2>1
  <2>3. TriggerInv'
    BY <1>1, <1>2, <1>3, <1>4, <2>1, <2>2 DEF MirrorInv, TriggerInv, Settled, AtFrom
  <2>4. BackfillInv'
    BY <1>1, <1>2, <1>3, <2>2 DEF MirrorInv, BackfillInv, Settled, AtFrom
  <2>5. TransactionInv' /\ NoRenamingMissed'
    BY <1>1, <1>4, <2>1 DEF MirrorInv, TransactionInv, NobodyMirrored, NotAlone, Started, NoRenamingMissed
  <2> QED
    BY <2>3, <2>4, <2>5 DEF MirrorInv
<1>5. CASE ~trigger
  <2>1. profiles' = profiles /\ ~AtFrom(4) /\ ~AtFrom(5) /\ ~Settled("profiles")
    <3>1. AtFrom(5) => AtFrom(4)
      <4>1. CASE running = Nothing
        BY <4>1, NothingFacts, InstallationAssumption DEF AtFrom, Files
      <4>2. CASE running \in Run
        <5>1. running.at \in 1 .. 11
          BY <4>2 DEF Run
        <5> QED
          BY <5>1 DEF AtFrom
      <4> QED
        BY <4>1, <4>2 DEF TypeOK, ProgressOK
    <3> QED
      BY <1>1, <1>5, <3>1 DEF MirrorInv, TriggerInv
  <2>2. ~AtFrom(4)' /\ ~AtFrom(5)' /\ ~Settled("profiles")'
    BY <1>1, <2>1 DEF AtFrom, Settled
  <2>3. TriggerInv'
    BY <1>1, <1>2, <1>3, <1>5, <2>1, <2>2 DEF MirrorInv, TriggerInv
  <2>4. BackfillInv'
    BY <2>2 DEF BackfillInv
  <2>5. ~piecemeal => NobodyMirrored
    BY <1>1, <1>5 DEF MirrorInv, TransactionInv, NotAlone
  <2>6. NoRenamingMissed'
    BY <1>1, <1>5, <2>5 DEF MirrorInv, NoRenamingMissed, NobodyMirrored
  <2>7. TransactionInv'
    BY <1>1, <1>5, <2>1 DEF MirrorInv, TransactionInv, NobodyMirrored, NotAlone, Started
  <2> QED
    BY <2>3, <2>4, <2>6, <2>7 DEF MirrorInv
<1> QED
  BY <1>4, <1>5

LEMMA MirrorStep == TypeOK /\ MirrorInv /\ [Next]_vars => MirrorInv'
<1> SUFFICES ASSUME TypeOK, MirrorInv, [Next]_vars PROVE MirrorInv'
  OBVIOUS
<1>1. CASE Create \/ HookStatement
           \/ InsertAplicacoes \/ InsertPapeis \/ InsertGrants \/ InsertClients
  <2>1. PICK s \in {"create", "function", "usage", "execute", "revoke", "select",
                    "drop usuario_papeis", "create usuario_papeis", "drop papeis",
                    "create papeis", "drop aplicacoes", "create aplicacoes", "aplicacoes",
                    "papeis", "grants", "clients"} : At(s) /\ Advance /\ UNCHANGED mirror
    BY <1>1 DEF Create, HookStatement, CreateFunction, GrantRight, RevokeExecute, DropPolicy,
                CreatePolicy, InsertAplicacoes, InsertPapeis, InsertGrants, InsertClients
  <2>2. running.file # "profiles" \/ running.at = 1
    BY <2>1, Places DEF PlaceOf, TypeOK
  <2> QED
    BY <2>1, <2>2, MirrorElsewhere
<1>2. CASE UsingGoTrue
  BY <1>2, SyncMirror DEF UsingGoTrue, CriarUsuario, Renomear
<1>3. CASE Operating \/ Administering \/ UNCHANGED vars
  <2>1. UNCHANGED <<nome, profiles, trigger, missed, piecemeal, applied, unfinished, running>>
    BY <1>3 DEF Operating, EnableHook, Bootstrap, Administering, Administer, Ativar, Desativar,
                GerarSegredo, CriarPapel, ExcluirPapel, Conceder, Revogar, vars, progress, mirror
  <2> QED
    BY <2>1 DEF MirrorInv, TriggerInv, BackfillInv, TransactionInv, NoRenamingMissed, Settled,
                AtFrom, NobodyMirrored, Started, NotAlone
<1> QED
  BY <1>1, <1>2, <1>3, StartMirror, InterruptMirror, DropMirror, CreateMirror, ReadMirror, InsertMirror
  DEF Next, Applying

\* The inductive invariant of sql/0006, for any users, names and re-applications.
THEOREM MirrorInvariant == Spec => []MirrorInv
BY MirrorInit, MirrorStep, InstallationTypeCorrect, PTL DEF Spec

\* Once sql/0006 has run, every user's profile shows the user's present nome,
\* unless a renaming fell into a later application by statements.
THEOREM ProfilesMirror == Spec => []ProfilesMirrorUsers
<1>1. MirrorInv => ProfilesMirrorUsers
  BY DEF MirrorInv, TriggerInv, BackfillInv, ProfilesMirrorUsers
<1> QED
  BY <1>1, MirrorInvariant, PTL

\* Without a second application by statements no renaming is ever lost.
THEOREM RenamingsKept == Spec => []NoRenamingMissed
<1>1. MirrorInv => NoRenamingMissed
  BY DEF MirrorInv
<1> QED
  BY <1>1, MirrorInvariant, PTL

----------------------------------------------------------------------------
(* What applying files leaves alone *)

\* No file makes an administrator.
THEOREM OnlyTheBootstrap == Spec => []AdminsComeFromBootstrap
<1> DEFINE Admins == \E u \in Users : <<u, Portal>> \in grants
<1>1. Init => AdminsComeFromBootstrap
  BY DEF Init, AdminsComeFromBootstrap
<1>2. TypeOK /\ AdminsComeFromBootstrap /\ [Next]_vars => AdminsComeFromBootstrap'
  <2> SUFFICES ASSUME TypeOK, AdminsComeFromBootstrap, [Next]_vars PROVE AdminsComeFromBootstrap'
    OBVIOUS
  <2>1. CASE InsertGrants
    <3>1. grants' = grants \cup GrantsOfJoao /\ bootstrapped' = bootstrapped
      BY <2>1 DEF InsertGrants
    <3>2. running.file = "seed_dev"
      BY <2>1, Places DEF InsertGrants, PlaceOf, TypeOK
    <3>3. \A u \in Users : <<u, Portal>> \notin GrantsOfJoao
      BY <3>2, InstallationAssumption DEF GrantsOfJoao, Seeds
    <3> QED
      BY <3>1, <3>3 DEF AdminsComeFromBootstrap
  <2>2. CASE Bootstrap
    BY <2>2 DEF Bootstrap, AdminsComeFromBootstrap
  <2>3. CASE Administering
    <3>1. Administer
      BY <2>3 DEF Administering, Ativar, Desativar, GerarSegredo, CriarPapel, ExcluirPapel,
                  Conceder, Revogar
    <3> QED
      BY <3>1 DEF Administer, AdminsComeFromBootstrap
  <2>4. CASE UNCHANGED <<grants, bootstrapped>>
    BY <2>4 DEF AdminsComeFromBootstrap
  <2> QED
    BY <2>1, <2>2, <2>3, <2>4
    DEF Next, Start, Interrupt, Applying, Create, HookStatement, CreateFunction, GrantRight,
        RevokeExecute, DropPolicy, CreatePolicy,
        InsertAplicacoes, InsertPapeis, InsertClients, DropTrigger, CreateTrigger, BackfillRead,
        BackfillInsert, Operating, EnableHook, UsingGoTrue, CriarUsuario, Renomear, SyncProfile,
        vars, tables
<1> QED
  BY <1>1, <1>2, InstallationTypeCorrect, PTL DEF Spec

\* However often files are applied, rows that are there stay as the administrators
\* left them, and only the seeds of the file itself come back.
THEOREM FilesAddOnlySeeds == Spec => ReapplyingAddsOnlySeeds
<1> DEFINE Kept == running # Nothing /\ running' # running =>
       /\ \A app \in Apps :
            /\ aplicacoes[app] # "ausente" => aplicacoes'[app] = aplicacoes[app]
            /\ clients[app] # "ausente" => clients'[app] = clients[app]
       /\ papeis \subseteq papeis' /\ papeis' \ papeis \subseteq SeededBy[running.file]
       /\ grants \subseteq grants'
       /\ grants' # grants => running.file = "seed_dev"
       /\ grants' \ grants \subseteq {Joao} \X SeededBy["seed_dev"]
<1>1. TypeOK /\ [Next]_vars => Kept
  <2> SUFFICES ASSUME TypeOK, Next, running # Nothing, running' # running PROVE Kept
    BY DEF vars, progress
  <2>1. CASE UNCHANGED tables
    BY <2>1 DEF tables
  <2>2. CASE InsertAplicacoes
    BY <2>2 DEF InsertAplicacoes
  <2>3. CASE InsertPapeis
    BY <2>3 DEF InsertPapeis, Seeds
  <2>4. CASE InsertGrants
    <3>1. grants' = grants \cup GrantsOfJoao /\ UNCHANGED <<aplicacoes, papeis, clients>>
      BY <2>4 DEF InsertGrants
    <3>2. running.file = "seed_dev"
      BY <2>4, Places DEF InsertGrants, PlaceOf, TypeOK
    <3>3. GrantsOfJoao \subseteq {Joao} \X SeededBy["seed_dev"]
      BY <3>2 DEF GrantsOfJoao, Seeds
    <3> QED
      BY <3>1, <3>2, <3>3
  <2>5. CASE InsertClients
    BY <2>5 DEF InsertClients
  <2>6. CASE Bootstrap \/ Administering
    BY <2>6 DEF Bootstrap, Administering, Administer, Ativar, Desativar, GerarSegredo, CriarPapel,
                ExcluirPapel, Conceder, Revogar, progress
  <2> QED
    BY <2>1, <2>2, <2>3, <2>4, <2>5, <2>6
    DEF Next, Start, Interrupt, Applying, Create, HookStatement, CreateFunction, GrantRight,
        RevokeExecute, DropPolicy, CreatePolicy, DropTrigger, CreateTrigger, BackfillRead,
        BackfillInsert, Operating, EnableHook, UsingGoTrue, CriarUsuario, Renomear, SyncProfile
<1> QED
  BY <1>1, InstallationTypeCorrect, PTL DEF Spec, ReapplyingAddsOnlySeeds
=============================================================================
