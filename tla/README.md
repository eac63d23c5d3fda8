# portal-sso in TLA+

A TLA+ model of the SSO portal (`portal/`), of the database it shares with
GoTrue (`sql/`), of how that database is set up, and of the sample application that logs its users in through it
(`qualidade/`), with TLC runs on small instances and TLAPS proofs for all of
them. Paths below are relative to the repository root; line numbers are in
`PROJECT.json`, which maps each definition to the code it stands for.

## 1. Inventory

| Component | State | Operations | Correct when |
|---|---|---|---|
| Authorization-code flow: `routers/oauth.py`, `db.py`, `0003` | `auth_codes`, `app_clients`, row locks, the connection pool | `GET /authorize` (check, read client, insert), `POST /token` (acquire, select for update, checks, read client, update, commit) | a code is redeemed at most once, by its own client, in time, with a current secret; a refused request burns nothing; everyone is answered |
| Systems, roles, grants: `routers/admin/{sistemas,perfis,usuarios,sistema_usuarios}.py`, `db_admin.py`, `deps.py`, `0001`, `0002`, `0005` | `aplicacoes.ativo`, `papeis`, `usuario_papeis`, the `acessos` in session cookies | create, (de)activate, edit, delete, grant, revoke; `require_admin`; login and the access token hook | tables consistent under concurrency; a cookie's role keeps its meaning; an administrator is always left |
| OAuth clients and one-time reveal: `routers/admin/clientes.py`, `usuarios.py` (create, reset), `_flash.py`, `sessions.py` | `app_clients`, passwords at GoTrue, one flash cookie per browser | configure, edit, regenerate, create user, reset password, reveal | every new credential is shown exactly once, to whom it was made for; an edit never rotates, a rotation never edits |
| Sessions and propagation: `routers/auth.py`, `home.py`, `sessions.py`, hook `0002`, `qualidade/app` | token, portal cookie, code, application cookie, each with its own age | login, logout, home, authorize, callback | a revocation takes effect within a known time; tiles lead somewhere |
| Administrative pages: the GET handlers of `routers/admin/`, `models.py`, `supabase_admin_client.py` | a page in each tab, as old as its last statement | open a page; send what its button says; create a user and grant the papel inicial | what a page names still has that name; a papel is lost only to a request that named it; creating a user touches no other account; switches do what their page showed |
| Migrations, seeds, profiles: `sql/0001` to `0007` | tables, trigger, hook function and policies, which files have run | apply a file, by statements or in one transaction; interrupt; apply again; bootstrap; switch the hook on | the hook goes on answering; profiles mirror users; re-applying touches no row that is there and brings back only its own seeds; no file makes an administrator |
| Sample application's pages: `qualidade/app/routers/home.py` | none but the cookie | home, area-gerente, logout | the area follows the papeis of the cookie, within its lag |
| Listings, search, wiring | none of their own | | not modelled, see section 7 |

How they interact. The components share one Postgres database; nothing else is
shared between requests, as each `uvicorn` worker keeps only the pool, the
signing keys and the verifier. A FastAPI handler runs until its next `await`, so
between two statements of a handler any other handler may run. Statements outside
`consume_auth_code` commit by themselves. GoTrue calls the hook when it mints a
token, so what administrators write reaches a session only at the next login.
Everything a browser or application knows travels in signed cookies and in the
token: copies that grow old.

What is hard: interleavings of statements (exchange against exchange and against
rotation, revocation against revocation, edit against regeneration, backfill against
trigger); pages that are older than the tables they speak of; files that stop half-way
and are applied again; the pool and the row lock held together; lost answers and workers that die half-way; several
tabs over one flash cookie; three lifetimes counted from three moments. The
`hazards` list in `PROJECT.json` names each with its line and the properties
aimed at it.

## 2. Modules

| Module | Models | Checked by | Proved in |
|---|---|---|---|
| `OneShotCode` | what the flow promises: issue once, spend once | `exchange_safety` | |
| `RotatingSecrets` | what `app_clients` promises: one secret in force, replaced by one never drawn before | `registry_safety` | `RotatingSecrets_proofs` |
| `AuthCode` | `/authorize` and `/token`, one action per await | `exchange_*` | `AuthCode_proofs` |
| `AdminRoles` | administration, hook and stale cookies | `roles_*` | `AdminRoles_proofs` |
| `AdminPages` | pages in tabs and what their buttons send | `pages_*` | `AdminPages_proofs` |
| `OneTimeReveal` | what the flash cookie promises: made for one browser, offered there, not after it was displayed | `registry_safety` | |
| `ClientRegistry` | clients, passwords, flash cookie, tabs | `registry_*` | `ClientRegistry_proofs` |
| `SsoSession` | one user's way through the system, in time | `session_safety` | `SsoSession_proofs` |
| `Installation` | the files of `sql/` on a live database | `install_safety` | `Installation_proofs` |

Each `MC` module gives the instance of its model for TLC. Definitions introduced by a comment "Variant" are
plausible slips in the code, which the specifications do not use; each
property is shown to fail when one of them replaces its original (`mutants`).
Variables described as history are not in the program and no guard reads them.

### AuthCode

A request is a record whose `pc` names the await it is at. `TokenSelectForUpdate`
blocks on the row lock, as `select ... for update` does, and reads the row as
last committed. `TokenCommit` is the update and the commit together: until the
commit no one else sees the update, and the lock is held throughout.
`TokenFail` may strike at every await, rolls the transaction back, and after the
commit loses only the answer. `PoolSize` connections are held by the transactions;
a single-statement call takes a free one within its step. `TokenBegin` takes any
code and any secret, guessed ones included. `SetAppClient` is all of the
administrators' side that `/token` can tell; `ClientRegistry` has the detail.
What a code's row stores beside its state (tokens, redirect_uri) is represented
by the session it was issued to.

`ImplementsOneShotCode` maps the row of a code to `issuedFor` and the committed
exchanges to `spentBy`; all other steps stutter. That `SetAppClient` only ever writes
a value never minted before is an assumption here; `ClientRegistry` shows it of the
routes that generate secrets (`ImplementsRotatingSecrets`).

`TokenWaits` and `AuthorizeWaits` say who waits for the row or for a connection, which is
when no step of that request is possible but its failure.

### AdminRoles

`require_admin` decides from the cookie when a request arrives (`Admit`), before the handler's
first await; its statements come later, each a step that commits by itself, when cookie and
tables may have changed. A request by a route keeps what it was called with. Most routes have one
statement that writes; the lookups before it (404) are left out, because systems are never deleted
and a write to a deleted papel does nothing, or is refused by the foreign key (`Conceder`).
`revogar_papel` decides between two statements and has three steps. `Fail` may
strike at any await. A login has two steps as well: `PasswordLogin` is GoTrue's minting, when the
hook reads the tables into `minted`; `LoginReply` sets the cookie from it.

A cookie entry keeps the id of the papel it came from (not in the program) so that its meaning
can be compared later. `Routes` restricts what the administrators of a run do, `NovosPapeis`
the papeis they create, `MaxLogins` the cookies and logins there are at once. `session[u] = {}` stands
for no cookie and for one that lists nothing: no check tells them apart here.

`LockedOut` is more than that nobody can enter now: no login minted earlier is still to be answered
with the papel, and no grant of it, nor an activation of `portal`, was admitted earlier and
is still to run. Each of these does bring the area back. What is left to do so then is nothing
(`LockoutIsPermanent`), whatever other requests are under way.

### AdminPages

`tab[t]` is the page in a tab: what it was read with (`tem`, `lista`, `ligado`,
and for a confirmation the name, `app` and `codigo`, of its papel), and in `pc` the await of the
request it is waiting for. A page read in
two statements is two steps (`ExcluirForm` and `ExcluirCount`, `DetalheUsuario` and
`DetalheDisponiveis`); then it stands still while other tabs work. The tab keeps its page
after a request, which is the back button; the redirect to a fresh page is `Leave`
and an opening. Papeis have ids that are never used again, so the papel created under
an old codigo is another: `PagesInv` says that a confirmation page never comes to mean it, and
`LossesWereNamed` that nobody loses it to a request that was about the old one. Systems other
than `portal` are modelled, so
`revogar_papel` goes straight from its fetch to its delete; `AdminRoles` has the
guard, and also who may open a page at all. `CriarSemResposta` is the account that
GoTrue created and whose answer was lost. The pages of a client and its secret are `ClientRegistry`'s.

`criando` is history: the account that the request under way in a tab has created. A retry
of that form, in this tab or another, after whatever was lost, is another request, and
`ExistingAccountsUntouched` says that it grants nothing to the account of the first.

`excluir` does not count again what its confirmation page counted. `DeletionTakesWhatItSaid`, which
takes the page by its word, is refuted by a run of its own.

### ClientRegistry

A credential travels: stored, in the answer (`reply`), in the jar (`cookie`), in
the GET (`reveal`), on the page (`revealed`). `RevealResponse` deletes whatever
flash cookie the jar holds when it arrives. `lose` and `expire` in `Operations`
switch lost answers and the five-minute limit on. `redirect_uris` is always a
list of one, so it is that one. Secrets are never drawn twice. Access checks
are left out: they do not touch this state.

`ImplementsOneTimeReveal` maps the tab a secret was drawn for to the browser that
owns it, the jars to what is offered, and the pages to what was displayed. It holds
for overlapping tabs too: what `registry_reveal` refutes is that no page shows the secret
of another system, never that a browser sees what was drawn in another.

`ImplementsRotatingSecrets` maps the same tables to `RotatingSecrets`: `configurar` and
`regenerar` rotate, a password is a value drawn for something else, `editar` stutters. That is
why one `SetAppClient` can stand for the whole registry in `AuthCode`.

`Configurar` replaces the secret of a client that is there already, as the POST of an old
form does: only the form looks (`configurar_form`), and no warning precedes it. Neither a
doc nor a test says otherwise, so no property forbids it; whoever sends the form is shown the
new secret (`RotationsAreAnswered`).

### SsoSession

Time is counted in units that make each lifetime a small number. The boundary
comparisons are the libraries': `jwt.decode` refuses `exp <= now`, itsdangerous
`age > max_age`, `consume_auth_code` `expira_em <= now`. `PasswordLogin` and
`LoginReply` are separate because the cookie counts its age from the second.
One user and one application are modelled, with several papeis, each granted and
revoked by itself: `area_gerente` (`AreaOpen`) asks for one of them, and a cookie renewed
because of another must not carry it on. `lastEntitled` is history: when
the user last held each papel in an active system.

### Installation

`Script` is the sequence of statements of each file, as far as a property can tell
them apart; `running.at` is the statement that comes next. With `alone` the file
runs in one transaction, which Studio and `apply_migration` open, and whose locks keep
everyone else out (`NotAlone`); without, GoTrue and the administrators work between any
two statements, and `Interrupt` may end the file there. The backfill of `0006` is two steps,
since an insert from a select works on what it saw when it began. `0002` has a step for each
grant and revocation of `rights` and, table by table, for each policy dropped and created: `policies` is
the set of tables that have theirs. The operator may switch the hook on at any time (`EnableHook`),
also before its function is there, which the file warns of.
`profiles` changes with `nome` in one step because the trigger runs inside the
transaction of the write. An administrator's work is one action per table it changes;
that it needs the hook and the bootstrap is `require_admin`.

`missed` and `piecemeal` are history. A renaming is missed if it happens while
the trigger is dropped and the user has a profile already, which the backfill will then
not touch; `NoRenamingMissed` says that takes a second application outside a transaction.

What the properties do not promise, since the files do not: before `0002` has run once to its end
logins may fail; while a later application of it is under way, or given up half-way,
policies may be missing and every `acessos` empty (`PoliciesLostOneByOne` bounds how many, and the
next complete application restores them); a bootstrap without its user or its papel
does nothing and says nothing; and `0004` applied again recreates the papeis
administrators deleted and grants joao again what they revoked (`ReapplyingAddsOnlySeeds`
says that nothing else comes back, and that no row that is there is touched).

## 3. Runs

| Run | Instance | Shows |
|---|---|---|
| `exchange_safety` | 2 authorizations, 2 exchanges, 2 codes that can be drawn twice, 2 secrets, pool of 2, clock | type and inductive invariant; one winner; burnt exactly if committed; own client, current secret, in time, own audience; implements `OneShotCode` |
| `exchange_liveness` | 3 exchanges of one code, pool of 2 | whoever waits, for the row or for a connection, somebody can go on; every request ends |
| `roles_safety` | 2 users, 2 systems, 2 codes, 2 papel ids, 2 requests under way, 2 logins, every route | tables, cookies, the ways to lose the last administrator, lockout |
| `roles_race` (violation) | the guarded route alone | both administrators removed |
| `roles_portal_off` (violation) | deactivation alone | `/admin` out of reach |
| `pages_safety` | 2 tabs, 2 users of whom 1 has an account, 2 systems, 2 codes, 2 papel ids | stale pages: what they name, losses, creation of users, switches |
| `pages_count` (violation) | 2 users with accounts, 1 papel | more lose a papel than its confirmation page said |
| `registry_safety` | 3 tabs in 2 browsers, 3 secrets | reveal and rotation, with losses and expiry; implements `OneTimeReveal` and `RotatingSecrets` |
| `registry_reveal` (violation) | 2 systems, `configurar` only, no losses, no expiry | the page of one system shows the secret of the other |
| `registry_redirects` (violation) | configure, edit and regenerate, 2 secrets | the edit is undone |
| `session_safety` | 2 papeis, token 2, cookies 1, code 1, clock to 3 | staleness bounds per papel, tiles |
| `install_safety` | 6 files, `portal` and one seeded system, joao, 2 restarts | rights and policies of the hook, mirror of names, seeds, bootstrap |

Bounds and why they are enough. Two exchanges are what a race needs; three over
two connections let one wait for the row lock inside its transaction and another for a connection,
while the owner of the lock goes on, which is where a circle through lock and pool would close (the mutants of the
run leave a lock behind, or take a second connection inside the transaction). Two secrets, one of them the second of its client or of the other client, let a rotation
fall before, between and after issue,
comparison and commit; two codes and two authorizations let a value be drawn twice. Two administrators with one or two revocations are
what the guard distinguishes; a second papel id lets a role be deleted and
recreated with the same codigo. Two requests let one overtake another between admission,
count and delete, two logins an administrator's cookie grow old beside a token on its way. Two tabs of one browser and one of another
separate what is per tab from what is per jar; two systems, in `registry_reveal`, whose secret it is. In `AdminPages` one tab's page grows old while
the other acts, and a second papel id, or one of the other system, is what a deletion by codigo would hit. In `SsoSession`
the clock reaches the sum of a token's and a cookie's life, the longest bound stated, at which
a session that could outlive it is found (the mutant of `TokenValid` is). In `Installation`
each user's row is changed and mirrored by itself, so one is enough; two restarts let a file be
interrupted and run again, or run again after its end, and two files be out of step. `Repeated` says
which: `0002`, at any time, and after it `0002` once more, so that two tables' policies can be missing, or another
file that does more than create; `Generated` is the seeded system, whose placeholder a generated secret replaces. The second seed is like the first without grants and is left to the proofs. Bounds are the constants
`MaxTime`, `Secrets`, `MaxLogins`, `NovosPapeis`, `MaxAgain`, `Repeated`, `Generated`, `PapelIds`, `Codes` and the
sets of requests, tabs and flows.

Deadlock is checked except in the `registry` runs, where every secret may be drawn and
every tab idle. `AuthCode` has an explicit `Quiescent` step for the state in which
all requests are answered. Symmetry is used in
all but the liveness, `roles_race`, `roles_portal_off`, `pages_count` and `install_safety` runs, over values that no
definition tells apart: requests, codes, secrets, users, the papeis created in a run, redirect_uris,
the two tabs of one browser, the tabs of `AdminPages`, the papeis of `SsoSession`.

Fairness (`FairSpec` of `AuthCode` only): weak fairness of each started request's next
step. The event loop resumes a coroutine whose await is ready and Postgres
serves a statement whose lock is free; neither promises an order among those who
wait, yet as no request can retry, each lock or connection a request waits for is
in the end left alone. Arrivals, failures, the clock and administrators are not fair.

## 4. What disagrees with the documentation

- The guard against removing the last administrator (`portal/README.md:83`) is, in
  `revogar_papel`, a count and a delete in separate statements. It is missing from
  `sistema_usuarios.revogar` altogether (`RevogarNoSistema`, one request of which is
  enough), and deleting the papel itself cascades the same way.
- Nothing stops `/admin/sistemas/portal/desativar`, although `0005` explains
  why `portal` must stay active. `LockoutIsPermanent` shows that both end in a
  state the program cannot leave.
- The flash cookie is one per browser: with two tabs a secret is displayed
  under another system's address and its own page says there is nothing to show.
- `regenerar` writes back redirect_uris it read before; an edit in between is undone.
- The confirmation of a deletion says how many users lose the papel
  (`perfil_confirmar_exclusao.html:15`); those it is granted to afterwards lose it too.

Section 5 has, for each of the first four, a theorem that names what is enough for the promise to
hold after all, and so what exactly stands against it.

Not a disagreement, but a bound to know: an application's session lasts its own
`max_age` from the callback on, so a revocation can take the token's life and that of
the cookie together, longer than the `JWT_EXPIRY` of which `README.md:337` speaks
(`QualidadeLagIsBounded`). `0006` applied again statement by statement can lose a
renaming, which the next renaming repairs (`missed`), although line 14 of the file says "sempre que
raw_user_meta_data mudar"; `0002` stopped half-way in a re-application leaves every `acessos` empty until
it is applied again; `0004` applied again gives back what administrators took from joao.

## 5. Proofs

All for arbitrary constants, under the modules' named assumptions: null values
lie outside the sets they complete, numbers are natural, `Acessos`,
`BrowserOf`, `SeededBy` and `Repeated` are functions, the seeded role exists, `sql/0004` does not seed
the portal.

- `AuthCode_proofs`: `TypeOK /\ ExchangeInv` is inductive. None of the safety
  properties is so by itself: that a committed exchange was the first needs
  `CheckedRowHolds` (from select to commit the lock keeps the row as it was
  read), which needs `LocksAreOwned`; entitlement is carried by `SecretWasProven`,
  which survives later rotations because `SecretsAreFresh`. From it follow
  `OneWinnerPerCode`, `WinnersAreEntitled`, `AudienceIsKept`, and step by step
  `FlowImplementsOneShotCode`. `SpentForGood` carries what that implies of single steps back
  to the table: a spent code stays spent, by the same exchange.
- Waiting. `NobodyDeadlocks`: a full pool is held by open transactions, and a request
  that waits for a row waits for one past its select (`LocksAreOwned`), which needs
  neither lock nor connection any more; so somebody can always go on, for any pool and any
  number of requests. `RequestsOnlyAdvance` and `AuthorizationsOnlyAdvance`: no step sets a request back and
  each step of its own brings it closer to its end. What is left of `EveryRequestEnds` is that a fair
  step is in the end taken.
- `RotatingSecrets_proofs`: in every behaviour of the abstract module no two clients share a
  secret, and a replaced one never comes back. The registry implements the
  module (`RegistryImplementsRotatingSecrets`), so both theorems
  hold of it (`SecretsOfTheRegistry`), from an instance of the proofs.
- `AdminRoles_proofs`: types, `TablesConsistent` and `CookieInv` (an entry's papel is
  as it was or deleted) together are inductive. `LockoutStays` has three parts: what is admitted
  needs a cookie nobody has any more; what was admitted before can neither grant the papel, nor create
  it again with a holder, nor activate `portal` (`NoAdminBack`); and what was minted before carries no
  entry for it (`NoEntryBack`). `ThreeWaysToLoseTheLastAdmin` adds `GuardInv`: past the guard a request for
  the papel `admin` counted two holders, and a papel never becomes another. `AdminsLost` says which
  actions can take an administrator away at all, `GuardOvertaken` that a guarded one takes
  the last only if somebody it counted had gone before.
- `ClientRegistry_proofs`: types first (`RegistryTypeCorrect`). `JarInv` then follows a
  secret: it is in the answer of the one tab it was drawn for, then in the jar of
  that tab's browser, and when it has been displayed in neither; hence
  `DisplayedForgotten` and `PagesStayHome`. `LoneInv` says that a tab with a jar of its
  own finds its secret there until it is displayed or has expired (`LoneTabSees`).
  `RegistryImplementsOneTimeReveal` needs no more than these: each step of a tab is a
  step of its browser or a stutter. `RotatingCases` sorts the actions into rotations, draws for a
  password and steps that leave every secret alone.
- `SsoSession_proofs`: `LagInv` follows each copy of a token: it tells of a time
  when the user was entitled, and a cookie is younger than its token's expiry.
  The bounds are then arithmetic (`CookieLag`), for all lifetimes and papeis. `TilesLead` has
  an invariant of its own.
- `AdminPages_proofs`: types with foreign keys and `PagesInv` are inductive together (`Invariance`). That a
  confirmation page still names its papel rests on `NamesKept`: a papel keeps its application and codigo until
  it is deleted, and is then deleted for good. The three action properties follow action by action:
  only three actions take grants away, two give them (`WhoWrites`), and `TypeOK` and `PagesInv` say to whom.
- `Installation_proofs`: `MirrorInv` is what the order of `0006` buys. From the creation of the trigger
  every change is mirrored (`TriggerInv`); so a user without a profile, when the backfill
  inserts, is still as the backfill read it (`BackfillInv`); and outside a second piecemeal
  application whoever finds no trigger finds no profile (`TransactionInv`). None of the three is
  inductive without the others. `HookInv` follows `0002` through its statements: what it has granted so
  far (`SoFar`), and how many policies earlier attempts can have left missing, one less while the next is under
  way (`LostInv`); hence `HookAnswersForGood` and `PoliciesComeBack`. `OnlyTheBootstrap` needs that
  administrators only work after the bootstrap.

Four promises of section 4 are refuted by runs, and proved under conditions that exclude
what refutes them:

| Promise | holds when | Theorem |
|---|---|---|
| `LastAdminKept` | one guarded revocation of the papel `admin` past its count at a time; the unguarded route and the deletion not used on it (`AdminsTakeTurns`) | `LastAdminKeptInTurns` |
| `AdminAreaReachable` | besides, nobody deactivates `portal` (`PortalIsLeftAlone`) | `AdminAreaKeptInTurns` |
| `NoRevealOfAnotherSystem`, and that every page shows its own secret | one tab per browser, nobody slower than five minutes; answers may be lost | `EveryRevealOfLoneTabs` |
| `RegenerarKeepsRedirects` | nothing writes a client's redirect_uris between the two statements of its regeneration (`NoEditMeanwhile`); any number of tabs, edits and regenerations | `RedirectsKeptOutsideTheWindow` |

The first rests on `CountIsFresh` (what was counted is so when the delete runs), the last on
`ReadIsFresh` (what was read is so when it is written back): the invariants that one transaction,
holding a lock on what it read, would restore. Three of the hypotheses are temporal formulas about the requests of a behaviour,
which say what administrators who know of the gap would refrain from and leave everything else
to happen; the third promise's are constants. Each refuting run violates the hypothesis of its promise.

Supporting invariants (`LagInv`, `MirrorInv`, `HookInv`, and those defined in the proof
modules) are proved to be inductive, with what they need, and are not properties of a run of their own.

Only model-checked: liveness (`EveryRequestEnds`), whose step from fairness needs `ENABLED`, which the
prover does not know. What the violation runs show are
counterexamples, which need no proof.

## 6. Plan

Done, in this order: the code flow with its proofs, because its races are the
heart of the portal; administration; registry; sessions; the abstract specification of a
reveal; the administrative pages; the migrations; the abstract specification of `app_clients`
that the registry implements, waiting, requests admitted before their statements run, and the conditions under which the refuted
promises hold. Left:

1. Several applications per user in `SsoSession`, with `portal` itself configured as a
   client, which `0005` rules out and `configurar` does not: no property covers that tile.
2. Time inside the waits of `/token` against the ten-second limit of
   `exchange_code`.

## 7. Not modelled

- Search, dashboard and plain lists: read once, and nothing is sent from what they
  show. The totals on a system's page likewise.
- `main.py` and `config.py` of both applications: they build the application objects; their
  time limits and the size of the pool are constants of the models.
- Display columns, templates and wording, apart from the numbers and buttons of `AdminPages`.
- Signatures of cookies and tokens: a cookie is what its server wrote.
- GoTrue and Postgres themselves: modelled as the code relies on them (hook at
  minting, row locks, unique and foreign keys, commits, statement snapshots), marked
  external where there is no line for it.
- Deadlocks inside Postgres, as between a file run in one transaction and a request: Postgres
  ends one of the two, which the models have as a failed request or an interrupted file.
