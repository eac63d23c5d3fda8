---------------------------- MODULE Installation ----------------------------
(***************************************************************************)
(* sql/0001 to sql/0007, applied to a live Supabase "independente deste    *)
(* app estar rodando" (portal/README.md), each at least once, in any order *)
(* that respects what one needs of another, while GoTrue creates and       *)
(* renames users and administrators work.  psql runs a file statement by   *)
(* statement and may stop half-way; Studio and apply_migration run it in   *)
(* one transaction.  The files are written to be applied again.            *)
(***************************************************************************)
EXTENDS Naturals, Sequences, FiniteSets

CONSTANTS
  Migrations, \* the files a run applies
  Users,      \* e-mail addresses
  Nomes,      \* display names
  Apps,       \* ids an aplicacao can have
  SeededBy,   \* the applications each file inserts, each with one papel
  WithClient, \* those of them for which it also inserts an app_clients row
  Portal,     \* ADMIN_APP_ID; its papel is 'admin'
  Joao,       \* joao@lab.internal, the user sql/0004 grants a papel to
  FirstAdmin, \* SEU_EMAIL_AQUI of the bootstrap
  Generated,  \* bound: the applications whose secret the administrators generate
  MaxAgain,   \* bound: how often a run starts a file again,
  Repeated,   \* bound: and which it may be each time
  NoFile, NoUser, NoNome, NoProfile

Files == {"apps_roles", "hook", "clients_codes", "seed_dev", "admin_role",
          "profiles", "seed_skp"}

\* What custom_access_token_hook joins; each has its policy for GoTrue's role.
HookTables == {"usuario_papeis", "papeis", "aplicacoes"}

ASSUME InstallationAssumption ==
  /\ Migrations \subseteq Files
  /\ SeededBy \in [Files -> SUBSET Apps] /\ WithClient \subseteq Apps
  /\ Portal \in Apps /\ Portal \notin SeededBy["seed_dev"]
  /\ Joao \in Users /\ FirstAdmin \in Users
  /\ MaxAgain \in Nat /\ Repeated \in [1 .. MaxAgain -> SUBSET Files]
  /\ NoFile \notin Files
  /\ {NoUser, NoNome, NoProfile} \cap Nomes = {}
  /\ NoUser # NoNome /\ NoProfile # NoNome

VARIABLES
  nome,        \* auth.users: raw_user_meta_data ->> 'nome', or NoUser
  profiles,    \* public.profiles: the nome of each row, or NoProfile
  trigger,     \* on_auth_user_created_or_updated exists
  function,    \* custom_access_token_hook exists
  rights,      \* what GoTrue's role, or public, has been granted for it
  policies,    \* the tables whose "auth admin le ..." policy exists
  hookAtivo,   \* GOTRUE_HOOK_CUSTOM_ACCESS_TOKEN_ENABLED
  aplicacoes,  \* "ausente", "ativo" or "inativo"
  papeis,      \* the applications that have the papel the seeds give them
  grants,      \* who holds that papel
  clients,     \* app_clients: "ausente", "placeholder" or "gerado"
  bootstrapped,\* the manual bootstrap has found its user and its papel
  applied,     \* the files that have run to their end
  unfinished,  \* the files started since they last did
  running,     \* the file being applied
  again,       \* how often a file was started again
  missed,      \* history: users renamed while they had a profile and no trigger
  piecemeal    \* history: sql/0006 was started again statement by statement

tables == <<aplicacoes, papeis, grants, clients>>
hook == <<function, rights, policies, hookAtivo>>
mirror == <<nome, profiles, trigger, missed>>
progress == <<applied, unfinished, running, again, piecemeal>>
vars == <<mirror, hook, tables, bootstrapped, progress>>

\* What each file does, statement by statement.  "create" stands for what no
\* property speaks of: tables, indexes, policies and functions for others.
ScriptAppsRoles == <<"create">>

\* Variant: execute is taken from public before it is granted to GoTrue.
ScriptHookRevokesFirst ==
  <<"function", "usage", "revoke", "execute", "select",
    "drop usuario_papeis", "create usuario_papeis", "drop papeis", "create papeis",
    "drop aplicacoes", "create aplicacoes">>

\* Variant: all policies are dropped, then all are created.
ScriptHookDropsFirst ==
  <<"function", "usage", "execute", "revoke", "select",
    "drop usuario_papeis", "drop papeis", "drop aplicacoes",
    "create usuario_papeis", "create papeis", "create aplicacoes">>

ScriptHook ==
  <<"function", "usage", "execute", "revoke", "select",
    "drop usuario_papeis", "create usuario_papeis", "drop papeis", "create papeis",
    "drop aplicacoes", "create aplicacoes">>

ScriptClientsCodes == <<"create">>

ScriptSeedDev == <<"aplicacoes", "papeis", "grants", "clients">>

ScriptAdminRole == <<"aplicacoes", "papeis">>

\* Variant: the backfill runs before its trigger exists.
ScriptBackfillFirst == <<"create", "drop trigger", "read", "insert", "create trigger">>

ScriptProfiles == <<"create", "drop trigger", "create trigger", "read", "insert">>

ScriptSeedSkp == <<"aplicacoes", "papeis", "clients">>

Script ==
  [apps_roles |-> ScriptAppsRoles, hook |-> ScriptHook,
   clients_codes |-> ScriptClientsCodes, seed_dev |-> ScriptSeedDev,
   admin_role |-> ScriptAdminRole, profiles |-> ScriptProfiles, seed_skp |-> ScriptSeedSkp]

\* A file needs the tables of others.
Needs(f) ==
  CASE f \in {"hook", "clients_codes", "admin_role"} -> {"apps_roles"}
    [] f \in {"seed_dev", "seed_skp"} -> {"apps_roles", "clients_codes"}
    [] OTHER -> {}

Nothing == [file |-> NoFile, at |-> 0, alone |-> FALSE, lidos |-> [u \in Users |-> NoUser]]

Init ==
  /\ nome = [u \in Users |-> NoUser]
  /\ profiles = [u \in Users |-> NoProfile]
  /\ trigger = FALSE
  /\ function = FALSE /\ rights = {} /\ policies = {} /\ hookAtivo = FALSE
  /\ aplicacoes = [app \in Apps |-> "ausente"]
  /\ papeis = {} /\ grants = {}
  /\ clients = [app \in Apps |-> "ausente"]
  /\ bootstrapped = FALSE
  /\ applied = {} /\ unfinished = {} /\ running = Nothing /\ again = 0
  /\ missed = {} /\ piecemeal = FALSE

\* A transaction's locks and uncommitted rows keep everyone else out of what it
\* touches until it commits; one that rolls back might never have started.
NotAlone == ~running.alone

----------------------------------------------------------------------------
(* Running a file *)

Started == applied \cup unfinished

Start(f, alone) ==
  /\ f \in Migrations
  /\ running = Nothing
  /\ Needs(f) \subseteq applied
  /\ f \in Started => again < MaxAgain /\ f \in Repeated[again + 1]
  /\ again' = IF f \in Started THEN again + 1 ELSE again
  /\ running' = [Nothing EXCEPT !.file = f, !.at = 1, !.alone = alone]
  /\ unfinished' = unfinished \cup {f}
  /\ piecemeal' = (piecemeal \/ (f = "profiles" /\ f \in Started /\ ~alone))
  /\ UNCHANGED <<mirror, hook, tables, bootstrapped, applied>>

\* The connection drops, or psql is stopped: what was done stays.
Interrupt ==
  /\ running # Nothing /\ NotAlone
  /\ running' = Nothing
  /\ UNCHANGED <<mirror, hook, tables, bootstrapped, applied, unfinished, again, piecemeal>>

At(statement) ==
  /\ running # Nothing
  /\ Script[running.file][running.at] = statement

\* The statement is done: on to the next, or to the end of the file.
Advance ==
  /\ UNCHANGED <<again, piecemeal>>
  /\ IF running.at < Len(Script[running.file])
     THEN /\ running' = [running EXCEPT !.at = running.at + 1]
          /\ UNCHANGED <<applied, unfinished>>
     ELSE /\ running' = Nothing
          /\ applied' = applied \cup {running.file}
          /\ unfinished' = unfinished \ {running.file}

Create ==
  /\ At("create")
  /\ Advance
  /\ UNCHANGED <<mirror, hook, tables, bootstrapped>>

----------------------------------------------------------------------------
(* sql/0002 *)

\* create or replace: a new function is public's to execute, a replaced one
\* keeps the rights it has.
CreateFunction ==
  /\ At("function")
  /\ Advance
  /\ function' = TRUE
  /\ rights' = IF function THEN rights ELSE rights \cup {"public"}
  /\ UNCHANGED <<mirror, tables, bootstrapped, policies, hookAtivo>>

\* grant usage on the schema, execute on the function, select on the tables.
GrantRight(right) ==
  /\ At(right)
  /\ Advance
  /\ rights' = rights \cup {right}
  /\ UNCHANGED <<mirror, tables, bootstrapped, function, policies, hookAtivo>>

\* revoke execute ... from authenticated, anon, public
RevokeExecute ==
  /\ At("revoke")
  /\ Advance
  /\ rights' = rights \ {"public"}
  /\ UNCHANGED <<mirror, tables, bootstrapped, function, policies, hookAtivo>>

\* drop policy if exists
DropPolicy(table, statement) ==
  /\ At(statement)
  /\ Advance
  /\ policies' = policies \ {table}
  /\ UNCHANGED <<mirror, tables, bootstrapped, function, rights, hookAtivo>>

CreatePolicy(table, statement) ==
  /\ At(statement)
  /\ Advance
  /\ policies' = policies \cup {table}
  /\ UNCHANGED <<mirror, tables, bootstrapped, function, rights, hookAtivo>>

HookStatement ==
  \/ CreateFunction
  \/ GrantRight("usage") \/ GrantRight("execute") \/ RevokeExecute \/ GrantRight("select")
  \/ DropPolicy("usuario_papeis", "drop usuario_papeis")
  \/ CreatePolicy("usuario_papeis", "create usuario_papeis")
  \/ DropPolicy("papeis", "drop papeis")
  \/ CreatePolicy("papeis", "create papeis")
  \/ DropPolicy("aplicacoes", "drop aplicacoes")
  \/ CreatePolicy("aplicacoes", "create aplicacoes")

\* The operator edits GoTrue's .env: "DEPOIS desta migration ter sido aplicada",
\* but nothing keeps them from it before.
EnableHook ==
  /\ ~hookAtivo
  /\ hookAtivo' = TRUE
  /\ UNCHANGED <<mirror, tables, bootstrapped, progress, function, rights, policies>>

----------------------------------------------------------------------------
(* sql/0004, 0005 and 0007: inserts, all "on conflict do nothing" *)

Seeds == SeededBy[running.file]

\* Variant: on conflict do update, which switches a system on again.
UpsertAplicacoes ==
  /\ At("aplicacoes")
  /\ Advance
  /\ aplicacoes' = [app \in Apps |-> IF app \in Seeds THEN "ativo" ELSE aplicacoes[app]]
  /\ UNCHANGED <<mirror, hook, bootstrapped, papeis, grants, clients>>

InsertAplicacoes ==
  /\ At("aplicacoes")
  /\ Advance
  /\ aplicacoes' = [app \in Apps |->
       IF app \in Seeds /\ aplicacoes[app] = "ausente" THEN "ativo" ELSE aplicacoes[app]]
  /\ UNCHANGED <<mirror, hook, bootstrapped, papeis, grants, clients>>

InsertPapeis ==
  /\ At("papeis")
  /\ Advance
  /\ papeis' = papeis \cup Seeds
  /\ UNCHANGED <<mirror, hook, bootstrapped, aplicacoes, grants, clients>>

\* Variant: every papel there is, not those of the seeded applications.
GrantEveryPapel == {g \in {Joao} \X papeis : nome[Joao] # NoUser}

\* The join with auth.users and papeis: nothing, if either is missing.
GrantsOfJoao == {g \in {Joao} \X (papeis \cap Seeds) : nome[Joao] # NoUser}

InsertGrants ==
  /\ At("grants")
  /\ Advance
  /\ grants' = grants \cup GrantsOfJoao
  /\ UNCHANGED <<mirror, hook, bootstrapped, aplicacoes, papeis, clients>>

InsertClients ==
  /\ At("clients")
  /\ Advance
  /\ clients' = [app \in Apps |->
       IF app \in Seeds \cap WithClient /\ clients[app] = "ausente" THEN "placeholder"
       ELSE clients[app]]
  /\ UNCHANGED <<mirror, hook, bootstrapped, aplicacoes, papeis, grants>>

\* The statement in sql/0005's comment, run by hand: without its user or its
\* papel it inserts nothing and says nothing.
Bootstrap ==
  LET takes == nome[FirstAdmin] # NoUser /\ Portal \in papeis IN
  /\ NotAlone
  /\ "admin_role" \in applied
  /\ grants' = IF takes THEN grants \cup {<<FirstAdmin, Portal>>} ELSE grants
  /\ bootstrapped' = (bootstrapped \/ takes)
  /\ UNCHANGED <<mirror, hook, progress, aplicacoes, papeis, clients>>

----------------------------------------------------------------------------
(* sql/0006: trigger and backfill *)

DropTrigger ==
  /\ At("drop trigger")
  /\ Advance
  /\ trigger' = FALSE
  /\ UNCHANGED <<hook, tables, bootstrapped, nome, profiles, missed>>

CreateTrigger ==
  /\ At("create trigger")
  /\ Advance
  /\ trigger' = TRUE
  /\ UNCHANGED <<hook, tables, bootstrapped, nome, profiles, missed>>

\* The backfill sees auth.users as it is when the statement starts ...
BackfillRead ==
  /\ At("read")
  /\ running' = [running EXCEPT !.lidos = nome, !.at = running.at + 1]
  /\ UNCHANGED <<mirror, hook, tables, bootstrapped, applied, unfinished, again, piecemeal>>

\* Variant: on conflict do update.
BackfillUpsert ==
  /\ At("insert")
  /\ Advance
  /\ profiles' = [u \in Users |->
       IF running.lidos[u] # NoUser THEN running.lidos[u] ELSE profiles[u]]
  /\ UNCHANGED <<hook, tables, bootstrapped, nome, trigger, missed>>

\* Variant: a profile for each address, whether or not it is a user's.
BackfillEveryone ==
  /\ At("insert")
  /\ Advance
  /\ profiles' = [u \in Users |->
       IF profiles[u] = NoProfile THEN running.lidos[u] ELSE profiles[u]]
  /\ UNCHANGED <<hook, tables, bootstrapped, nome, trigger, missed>>

\* ... and inserts those users, on conflict do nothing.
BackfillInsert ==
  /\ At("insert")
  /\ Advance
  /\ profiles' = [u \in Users |->
       IF running.lidos[u] # NoUser /\ profiles[u] = NoProfile
       THEN running.lidos[u] ELSE profiles[u]]
  /\ UNCHANGED <<hook, tables, bootstrapped, nome, trigger, missed>>

----------------------------------------------------------------------------
(* GoTrue, and what the trigger adds to its inserts and updates *)

\* sync_profile_from_auth_user, inside the transaction of the write.
SyncProfile(u, n) ==
  /\ NotAlone
  /\ nome' = [nome EXCEPT ![u] = n]
  /\ profiles' = IF trigger THEN [profiles EXCEPT ![u] = n] ELSE profiles
  /\ missed' = IF trigger THEN missed \ {u}
               ELSE IF profiles[u] # NoProfile THEN missed \cup {u} ELSE missed
  /\ UNCHANGED <<hook, tables, bootstrapped, progress, trigger>>

\* SupabaseAdminClient.create_user, with or without a nome.
CriarUsuario(u, n) ==
  /\ nome[u] = NoUser
  /\ SyncProfile(u, n)

\* Whoever changes user_metadata through GoTrue.
Renomear(u, n) ==
  /\ nome[u] \notin {NoUser, n}
  /\ SyncProfile(u, n)

----------------------------------------------------------------------------
(* /admin: AdminRoles says who may still enter, ClientRegistry the rest *)

Administer ==
  /\ NotAlone
  /\ hookAtivo /\ bootstrapped
  /\ UNCHANGED <<mirror, hook, bootstrapped, progress>>

Desativar(app) ==
  /\ aplicacoes[app] = "ativo"
  /\ aplicacoes' = [aplicacoes EXCEPT ![app] = "inativo"]
  /\ Administer
  /\ UNCHANGED <<papeis, grants, clients>>

Ativar(app) ==
  /\ aplicacoes[app] = "inativo"
  /\ aplicacoes' = [aplicacoes EXCEPT ![app] = "ativo"]
  /\ Administer
  /\ UNCHANGED <<papeis, grants, clients>>

\* The papel under its old codigo, with no grants.
CriarPapel(app) ==
  /\ aplicacoes[app] # "ausente"
  /\ papeis' = papeis \cup {app}
  /\ Administer
  /\ UNCHANGED <<aplicacoes, grants, clients>>

ExcluirPapel(app) ==
  /\ app \in papeis
  /\ papeis' = papeis \ {app}
  /\ grants' = {g \in grants : g[2] # app}
  /\ Administer
  /\ UNCHANGED <<aplicacoes, clients>>

Conceder(u, app) ==
  /\ app \in papeis /\ nome[u] # NoUser
  /\ grants' = grants \cup {<<u, app>>}
  /\ Administer
  /\ UNCHANGED <<aplicacoes, papeis, clients>>

Revogar(u, app) ==
  /\ <<u, app>> \in grants
  /\ grants' = grants \ {<<u, app>>}
  /\ Administer
  /\ UNCHANGED <<aplicacoes, papeis, clients>>

\* configurar and regenerar: set_app_client.
GerarSegredo(app) ==
  /\ app \in Generated /\ "clients_codes" \in applied
  /\ aplicacoes[app] # "ausente"
  /\ clients' = [clients EXCEPT ![app] = "gerado"]
  /\ Administer
  /\ UNCHANGED <<aplicacoes, papeis, grants>>

Applying ==
  \/ Create
  \/ HookStatement
  \/ InsertAplicacoes \/ InsertPapeis \/ InsertGrants \/ InsertClients
  \/ DropTrigger \/ CreateTrigger \/ BackfillRead \/ BackfillInsert

Operating == EnableHook \/ Bootstrap

UsingGoTrue ==
  \E u \in Users, n \in Nomes \cup {NoNome} : CriarUsuario(u, n) \/ Renomear(u, n)

Administering ==
  \/ \E app \in Apps :
       \/ Ativar(app) \/ Desativar(app) \/ GerarSegredo(app)
       \/ CriarPapel(app) \/ ExcluirPapel(app)
  \/ \E u \in Users, app \in Apps : Conceder(u, app) \/ Revogar(u, app)

Next ==
  \/ \E f \in Files, alone \in BOOLEAN : Start(f, alone)
  \/ Interrupt
  \/ Applying
  \/ Operating
  \/ UsingGoTrue
  \/ Administering

Spec == Init /\ [][Next]_vars

----------------------------------------------------------------------------
(* Properties *)

Run == [file : Files, at : 1 .. 11, alone : BOOLEAN,
        lidos : [Users -> Nomes \cup {NoNome, NoUser}]]

MirrorOK ==
  /\ nome \in [Users -> Nomes \cup {NoNome, NoUser}]
  /\ profiles \in [Users -> Nomes \cup {NoNome, NoProfile}]
  /\ trigger \in BOOLEAN /\ missed \subseteq Users /\ piecemeal \in BOOLEAN

HookOK ==
  /\ function \in BOOLEAN /\ hookAtivo \in BOOLEAN
  /\ rights \subseteq {"usage", "execute", "public", "select"}
  /\ policies \subseteq HookTables

SeedsOK ==
  /\ aplicacoes \in [Apps -> {"ausente", "ativo", "inativo"}]
  /\ papeis \subseteq Apps /\ grants \subseteq Users \X Apps
  /\ clients \in [Apps -> {"ausente", "placeholder", "gerado"}]
  /\ bootstrapped \in BOOLEAN

ProgressOK ==
  /\ applied \subseteq Files /\ unfinished \subseteq Files /\ again \in Nat
  /\ running \in Run \cup {Nothing}
  /\ running # Nothing =>
       running.file \in unfinished /\ running.at \in 1 .. Len(Script[running.file])

\* Tables, database objects and the file being applied are what they can be; a
\* file under way counts as unfinished and stands at one of its statements.
TypeOK == MirrorOK /\ HookOK /\ SeedsOK /\ ProgressOK

Settled(f) == f \in applied \ unfinished

\* GoTrue calls the function at every login, and a call that fails fails the login.
MayExecute == rights \cap {"execute", "public"} # {}

HookAnswers == function /\ MayExecute /\ {"usage", "select"} \subseteq rights

\* Once sql/0002 has run to its end, no file, applied again, interrupted or left
\* half-way, ever makes the hook's calls fail; and from the moment the function
\* exists GoTrue may execute it, even while the file takes execute from public.
\* Whoever switches the hook on before that has no login at all, as the file says.
HookKeepsAnswering ==
  /\ "hook" \in applied => HookAnswers
  /\ function => MayExecute

\* One missing policy empties the acessos of every login, without an error (the
\* "sintoma e silencioso" of sql/0002).  Once the file has run to its end, they
\* are missing only while a later application of it is under way or was given up
\* half-way, and each of those costs one table's policy at most: the next that
\* runs to its end has them all back.
PoliciesLostOneByOne ==
  "hook" \in applied =>
    /\ policies # HookTables => "hook" \in unfinished
    /\ Cardinality(HookTables \ policies) <= again

\* Each user's profile carries the user's present nome, those included who were
\* created or renamed while sql/0006 ran; only a renaming while a second
\* application has the trigger dropped escapes, until the next renaming.
ProfilesMirrorUsers ==
  Settled("profiles") =>
    \A u \in Users : nome[u] # NoUser /\ u \notin missed => profiles[u] = nome[u]

\* sql/0006 loses no renaming at all, as "sempre que raw_user_meta_data mudar"
\* has it, the first time it runs and whenever it is run again in one transaction.
NoRenamingMissed == ~piecemeal => missed = {}

\* Files applied again touch no row that is there: a deactivated system stays
\* so, a generated secret never turns back into the repository's placeholder.
\* What administrators deleted may come back, and this much of it: a papel, with
\* the file that seeds it and no holder but joao; joao's grants, with sql/0004.
ReapplyingAddsOnlySeeds ==
  [][running # Nothing /\ running' # running =>
       /\ \A app \in Apps :
            /\ aplicacoes[app] # "ausente" => aplicacoes'[app] = aplicacoes[app]
            /\ clients[app] # "ausente" => clients'[app] = clients[app]
       /\ papeis \subseteq papeis' /\ papeis' \ papeis \subseteq SeededBy[running.file]
       /\ grants \subseteq grants'
       /\ grants' # grants => running.file = "seed_dev"
       /\ grants' \ grants \subseteq {Joao} \X SeededBy["seed_dev"]]_vars

\* "nao existe nenhum admin ainda" (sql/0005): no file makes an administrator,
\* in whatever order and however often they are applied.
AdminsComeFromBootstrap ==
  ~bootstrapped => \A u \in Users : <<u, Portal>> \notin grants

----------------------------------------------------------------------------
(* Why ProfilesMirrorUsers and NoRenamingMissed hold. *)

AtFrom(first) ==
  /\ running.file = "profiles"
  /\ running.at >= first

\* The trigger is there from its creation to the next time it is dropped, and
\* a profile agrees with its user unless a renaming was missed.
TriggerInv ==
  /\ Settled("profiles") => trigger
  /\ AtFrom(4) => trigger
  /\ \A u \in Users : profiles[u] # NoProfile =>
       nome[u] # NoUser /\ (u \in missed \/ profiles[u] = nome[u])

\* Whoever is still without a profile when the backfill inserts was read by it
\* as things still stand; once it has inserted, nobody is.
BackfillInv ==
  \A u \in Users : profiles[u] = NoProfile =>
    /\ Settled("profiles") => nome[u] = NoUser
    /\ AtFrom(5) => running.lidos[u] = nome[u]

NobodyMirrored == ~trigger /\ \A u \in Users : profiles[u] = NoProfile

\* Before a second application by statements, whoever finds the trigger missing
\* finds no profile either: none to be missed.
TransactionInv ==
  /\ "profiles" \notin Started => ~piecemeal /\ NobodyMirrored
  /\ ~piecemeal /\ ~trigger /\ ~(running.alone /\ running.file = "profiles") =>
       NobodyMirrored
  /\ ~piecemeal /\ NotAlone /\ running.file = "profiles" /\ running.at <= 3 =>
       NobodyMirrored

\* The inductive invariant of sql/0006.
MirrorInv == TriggerInv /\ BackfillInv /\ TransactionInv /\ NoRenamingMissed
=============================================================================
