------------------------------ MODULE AuthCode ------------------------------
(***************************************************************************)
(* The portal's authorization-code flow: GET /authorize issues a code, POST *)
(* /token redeems it (portal/app/routers/oauth.py, portal/app/db.py), while *)
(* administrators rotate client secrets (db_admin.set_app_client).         *)
(*                                                                         *)
(* Every request is a process that stops at each await: between two of its *)
(* database statements any other request may run.  A statement of          *)
(* /authorize commits by itself; those of /token share one transaction on  *)
(* one pooled connection, opened by consume_auth_code.                     *)
(***************************************************************************)
EXTENDS Naturals, FiniteSets

CONSTANTS
  Apps,            \* rows of aplicacoes
  Secrets,         \* values a client_secret can take
  Sessions,        \* portal sessions, each a decoded cookie
  Acessos,         \* the applications each session's cookie lists
  Codes,           \* values secrets.token_urlsafe can return
  AuthorizeReqs,   \* GET /authorize requests
  TokenReqs,       \* POST /token requests
  PoolSize,        \* connections of the asyncpg pool
  Ttl,             \* portal_auth_code_ttl_seconds
  MaxTime,         \* bound: the clock stops here
  NoApp, NoSecret, NoSession, NoCode, NoRow, Free

ASSUME AcessosAssumption == Acessos \in [Sessions -> SUBSET Apps]
ASSUME NumbersAssumption ==
  PoolSize \in Nat \ {0} /\ Ttl \in Nat \ {0} /\ MaxTime \in Nat
ASSUME NullsAssumption ==
  /\ NoApp \notin Apps /\ NoSecret \notin Secrets /\ NoSession \notin Sessions
  /\ NoCode \notin Codes /\ Free \notin TokenReqs
  /\ NoRow \notin [session : Sessions, app : Apps, expira : Nat, usado : BOOLEAN]

VARIABLES
  clock,        \* datetime.now(UTC), in units of Ttl's
  clientSecret, \* app_clients: the secret of each application, or NoSecret
  mintedFor,    \* history: the application each secret was generated for
  authCodes,    \* auth_codes: the row of each code, or NoRow
  rowLock,      \* the transaction holding the row lock of each code
  authz,        \* the /authorize requests
  tok           \* the /token requests

vars == <<clock, clientSecret, mintedFor, authCodes, rowLock, authz, tok>>

Row == [session : Sessions, app : Apps, expira : Nat, usado : BOOLEAN]

AuthorizePcs == {"idle", "client", "insert", "redirected", "refused", "error"}

\* "acquire" waits for a connection; "select" to "rollback" own one and its
\* transaction; in "reply" the transaction is committed, the answer not sent.
TokenPcs == {"idle", "acquire", "select", "client", "mark", "rollback",
             "reply", "done"}
Results == {"none", "tokens", "lost", "error", "invalid_client",
            "invalid_grant", "already_used", "expired"}

\* Secrets handed to one application and since replaced by another.
Retired(s) == mintedFor[s] # NoApp /\ clientSecret[mintedFor[s]] # s

InTransaction(t) == tok[t].pc \in {"select", "client", "mark", "rollback"}

\* pool.fetchrow, pool.execute and pool.acquire wait for a connection.
FreeConnection == Cardinality({t \in TokenReqs : InTransaction(t)}) < PoolSize

Init ==
  /\ clock = 0
  /\ clientSecret = [app \in Apps |-> NoSecret]
  /\ mintedFor = [s \in Secrets |-> NoApp]
  /\ authCodes = [c \in Codes |-> NoRow]
  /\ rowLock = [c \in Codes |-> Free]
  /\ authz = [a \in AuthorizeReqs |->
       [pc |-> "idle", session |-> NoSession, app |-> NoApp, code |-> NoCode,
        expira |-> 0]]
  /\ tok = [t \in TokenReqs |->
       [pc |-> "idle", code |-> NoCode, secret |-> NoSecret, result |-> "none",
        arrived |-> 0, retired |-> FALSE]]

Tick ==
  /\ clock < MaxTime
  /\ clock' = clock + 1
  /\ UNCHANGED <<clientSecret, mintedFor, authCodes, rowLock, authz, tok>>

----------------------------------------------------------------------------
(* The administrators' side, as far as /token can tell: configurar and     *)
(* regenerar both end in one upsert of a freshly generated secret.         *)

SetAppClient(app, s) ==
  /\ mintedFor[s] = NoApp
  /\ FreeConnection
  /\ mintedFor' = [mintedFor EXCEPT ![s] = app]
  /\ clientSecret' = [clientSecret EXCEPT ![app] = s]
  /\ UNCHANGED <<clock, authCodes, rowLock, authz, tok>>

----------------------------------------------------------------------------
(* GET /authorize *)

\* Request a leaves one await for the next, or ends.
AuthorizeGoes(a, from, to) ==
  /\ authz[a].pc = from
  /\ authz' = [authz EXCEPT ![a].pc = to]

\* Variant: the access check is missing.
AnySession(session, app) == TRUE

\* The access check trusts the cookie's acessos, not the tables.
HasAcesso(session, app) == app \in Acessos[session]

AuthorizeBegin(a, session, app) ==
  /\ authz[a].pc = "idle"
  /\ authz' = IF HasAcesso(session, app)
       THEN [authz EXCEPT ![a] = [@ EXCEPT !.pc = "client", !.session = session, !.app = app]]
       ELSE [authz EXCEPT ![a].pc = "refused"]
  /\ UNCHANGED <<clock, clientSecret, mintedFor, authCodes, rowLock, tok>>

\* fetch_app_client; then, with no await between, the code and its expiry.
AuthorizeFetchClient(a, c) ==
  /\ authz[a].pc = "client"
  /\ FreeConnection
  /\ authz' = IF clientSecret[authz[a].app] = NoSecret
       THEN [authz EXCEPT ![a].pc = "refused"]
       ELSE [authz EXCEPT ![a] =
               [@ EXCEPT !.pc = "insert", !.code = c, !.expira = clock + Ttl]]
  /\ UNCHANGED <<clock, clientSecret, mintedFor, authCodes, rowLock, tok>>

NewRow(a) == [session |-> authz[a].session, app |-> authz[a].app,
              expira |-> authz[a].expira, usado |-> FALSE]

\* Variant: an upsert in place of the insert.
AuthorizeUpsert(a) ==
  /\ AuthorizeGoes(a, "insert", "redirected")
  /\ authCodes' = [authCodes EXCEPT ![authz[a].code] = NewRow(a)]
  /\ UNCHANGED <<clock, clientSecret, mintedFor, rowLock, tok>>

\* auth_codes.code is the primary key: a value drawn twice fails the insert.
AuthorizeInsert(a) ==
  LET c == authz[a].code IN
  /\ AuthorizeGoes(a, "insert", IF authCodes[c] = NoRow THEN "redirected" ELSE "error")
  /\ FreeConnection
  /\ authCodes' = IF authCodes[c] = NoRow THEN [authCodes EXCEPT ![c] = NewRow(a)]
                  ELSE authCodes
  /\ UNCHANGED <<clock, clientSecret, mintedFor, rowLock, tok>>

----------------------------------------------------------------------------
\* A statement fails or the worker dies before the row is inserted.
AuthorizeFail(a) ==
  /\ authz[a].pc \in {"client", "insert"}
  /\ AuthorizeGoes(a, authz[a].pc, "error")
  /\ UNCHANGED <<clock, clientSecret, mintedFor, authCodes, rowLock, tok>>

----------------------------------------------------------------------------
(* POST /token *)

TokenGoes(t, from, to, result) ==
  /\ tok[t].pc = from
  /\ tok' = [tok EXCEPT ![t] = [@ EXCEPT !.pc = to, !.result = result]]

\* Variant: a form without client_secret passes the parser.
TokenBeginUnparsed(t, c, s) ==
  /\ tok[t].pc = "idle"
  /\ tok' = [tok EXCEPT ![t].pc = "acquire", ![t].code = c]
  /\ UNCHANGED <<clock, clientSecret, mintedFor, authCodes, rowLock, authz>>

\* arrived and retired are history: when the request came, and whether the
\* secret it carries had been replaced by then.
TokenBegin(t, c, s) ==
  /\ tok[t].pc = "idle"
  /\ tok' = [tok EXCEPT ![t] =
       [pc |-> "acquire", code |-> c, secret |-> s, result |-> "none",
        arrived |-> clock, retired |-> Retired(s)]]
  /\ UNCHANGED <<clock, clientSecret, mintedFor, authCodes, rowLock, authz>>

TokenAcquire(t) ==
  /\ FreeConnection
  /\ TokenGoes(t, "acquire", "select", "none")
  /\ UNCHANGED <<clock, clientSecret, mintedFor, authCodes, rowLock, authz>>

\* Variant: a plain select, without for update.
RowLockIgnored(c) == TRUE
RowLockFree(c) == rowLock[c] = Free

\* Variant: the last instant of a code's life counted in.
ExpiredStrictly(c) == authCodes[c].expira < clock
Expired(c) == authCodes[c].expira <= clock

\* The verdict of the three checks on the selected row, in the code's order.
Verdict(c) ==
  CASE authCodes[c] = NoRow -> "invalid_grant"
    [] authCodes[c] # NoRow /\ authCodes[c].usado -> "already_used"
    [] authCodes[c] # NoRow /\ ~authCodes[c].usado /\ Expired(c) -> "expired"
    [] OTHER -> "none"

\* select ... for update blocks until the row lock is free, then reads the
\* row as last committed; a code that has no row locks nothing.
TokenSelectForUpdate(t) ==
  LET c == tok[t].code IN
  /\ TokenGoes(t, "select", IF Verdict(c) = "none" THEN "client" ELSE "rollback",
               Verdict(c))
  /\ RowLockFree(c)
  /\ rowLock' = IF authCodes[c] = NoRow THEN rowLock
                ELSE [rowLock EXCEPT ![c] = t]
  /\ UNCHANGED <<clock, clientSecret, mintedFor, authCodes, authz>>

\* Variants: the secret of any client is accepted; so is a replaced secret.
SecretOfAnyClient(t) == \E app \in Apps : clientSecret[app] = tok[t].secret
SecretEverMinted(t) == mintedFor[tok[t].secret] = authCodes[tok[t].code].app
SecretMatches(t) == clientSecret[authCodes[tok[t].code].app] = tok[t].secret

\* Variant: the client is read through the pool, on a second connection.
TokenCheckOnPool(t) ==
  /\ FreeConnection
  /\ TokenGoes(t, "client", IF SecretMatches(t) THEN "mark" ELSE "rollback",
                            IF SecretMatches(t) THEN "none" ELSE "invalid_client")
  /\ UNCHANGED <<clock, clientSecret, mintedFor, authCodes, rowLock, authz>>

\* fetch_app_client(conn, ...) runs on the transaction's own connection and
\* sees the last committed client row, which nothing locks.
TokenCheckClient(t) ==
  /\ TokenGoes(t, "client", IF SecretMatches(t) THEN "mark" ELSE "rollback",
                            IF SecretMatches(t) THEN "none" ELSE "invalid_client")
  /\ UNCHANGED <<clock, clientSecret, mintedFor, authCodes, rowLock, authz>>

Unlocked(t) == [c \in Codes |-> IF rowLock[c] = t THEN Free ELSE rowLock[c]]

\* update ... set usado_em, then the commit that publishes it and frees the
\* lock and the connection; no one can tell the two apart.
TokenCommit(t) ==
  /\ TokenGoes(t, "mark", "reply", "none")
  /\ authCodes' = [authCodes EXCEPT ![tok[t].code].usado = TRUE]
  /\ rowLock' = Unlocked(t)
  /\ UNCHANGED <<clock, clientSecret, mintedFor, authz>>

\* Variant: usado_em is written before the secret is compared, and a wrong secret
\* is returned as a value: no exception leaves the block, so it commits.
TokenRefuseAndCommit(t) ==
  /\ TokenGoes(t, "rollback", "done", tok[t].result)
  /\ authCodes' = IF tok[t].result = "invalid_client"
       THEN [authCodes EXCEPT ![tok[t].code].usado = TRUE] ELSE authCodes
  /\ rowLock' = Unlocked(t)
  /\ UNCHANGED <<clock, clientSecret, mintedFor, authz>>

TokenRollback(t) ==
  /\ TokenGoes(t, "rollback", "done", tok[t].result)
  /\ rowLock' = Unlocked(t)
  /\ UNCHANGED <<clock, clientSecret, mintedFor, authCodes, authz>>

TokenReply(t) ==
  /\ TokenGoes(t, "reply", "done", "tokens")
  /\ UNCHANGED <<clock, clientSecret, mintedFor, authCodes, rowLock, authz>>

\* Variant: the exception leaves the transaction open, with its lock.
TokenFailKeepsLock(t) ==
  /\ tok[t].pc \notin {"idle", "done"}
  /\ TokenGoes(t, tok[t].pc, "done", IF tok[t].pc = "reply" THEN "lost" ELSE "error")
  /\ UNCHANGED <<clock, clientSecret, mintedFor, authCodes, rowLock, authz>>

\* The connection drops or the worker dies: an open transaction rolls back,
\* a committed one stays and only its answer is lost.
TokenFail(t) ==
  /\ tok[t].pc \notin {"idle", "done"}
  /\ TokenGoes(t, tok[t].pc, "done", IF tok[t].pc = "reply" THEN "lost" ELSE "error")
  /\ rowLock' = Unlocked(t)
  /\ UNCHANGED <<clock, clientSecret, mintedFor, authCodes, authz>>

----------------------------------------------------------------------------
AuthorizeStep(a) ==
  \/ \E c \in Codes : AuthorizeFetchClient(a, c)
  \/ AuthorizeInsert(a)

TokenStep(t) ==
  \/ TokenAcquire(t) \/ TokenSelectForUpdate(t) \/ TokenCheckClient(t)
  \/ TokenCommit(t) \/ TokenRollback(t) \/ TokenReply(t)

\* Every request has been answered: the only state in which nothing is due.
Quiescent ==
  /\ \A a \in AuthorizeReqs : authz[a].pc \in {"redirected", "refused", "error"}
  /\ \A t \in TokenReqs : tok[t].pc = "done"
  /\ UNCHANGED vars

Next ==
  \/ Tick
  \/ \E app \in Apps, s \in Secrets : SetAppClient(app, s)
  \/ \E a \in AuthorizeReqs, session \in Sessions, app \in Apps :
       AuthorizeBegin(a, session, app)
  \/ \E a \in AuthorizeReqs : AuthorizeStep(a)
  \/ \E a \in AuthorizeReqs : AuthorizeFail(a)
  \/ \E t \in TokenReqs, c \in Codes, s \in Secrets : TokenBegin(t, c, s)
  \/ \E t \in TokenReqs : TokenStep(t)
  \/ \E t \in TokenReqs : TokenFail(t)
  \/ Quiescent

Spec == Init /\ [][Next]_vars

\* Every await of an admitted request eventually returns when what it waits
\* for stays available: the event loop and Postgres schedule each of them.
Fairness ==
  /\ \A a \in AuthorizeReqs : WF_vars(AuthorizeStep(a))
  /\ \A t \in TokenReqs : WF_vars(TokenStep(t))

FairSpec == Spec /\ Fairness

----------------------------------------------------------------------------
(* Properties *)

AuthorizeReq == [pc : AuthorizePcs, session : Sessions \cup {NoSession},
                 app : Apps \cup {NoApp}, code : Codes \cup {NoCode}, expira : Nat]

TokenReq == [pc : TokenPcs, code : Codes \cup {NoCode},
             secret : Secrets \cup {NoSecret}, result : Results,
             arrived : Nat, retired : BOOLEAN]

TablesOK ==
  /\ clock \in 0 .. MaxTime
  /\ clientSecret \in [Apps -> Secrets \cup {NoSecret}]
  /\ mintedFor \in [Secrets -> Apps \cup {NoApp}]
  /\ authCodes \in [Codes -> Row \cup {NoRow}]
  /\ rowLock \in [Codes -> TokenReqs \cup {Free}]

AuthorizeReqsOK ==
  /\ authz \in [AuthorizeReqs -> AuthorizeReq]
  /\ \A a \in AuthorizeReqs :
       /\ authz[a].pc \in {"client", "insert"} =>
            authz[a].session \in Sessions /\ authz[a].app \in Apps
       /\ authz[a].pc = "insert" => authz[a].code \in Codes

TokenReqsOK ==
  /\ tok \in [TokenReqs -> TokenReq]
  /\ \A t \in TokenReqs : tok[t].pc # "idle" =>
       tok[t].code \in Codes /\ tok[t].secret \in Secrets

\* Each variable holds what its table, cookie or request can hold; a request
\* that parse_token_request admitted carries both of its fields.
TypeOK == TablesOK /\ AuthorizeReqsOK /\ TokenReqsOK

\* The exchange is in the database, whatever its requester hears of it.
Committed(t) ==
  \/ tok[t].pc = "reply"
  \/ tok[t].pc = "done" /\ tok[t].result \in {"tokens", "lost"}

\* Two exchanges of one code never both win, however their statements
\* interleave: what consume_auth_code promises of its row lock.
AtMostOneExchange ==
  \A t, u \in TokenReqs :
    Committed(t) /\ Committed(u) /\ tok[t].code = tok[u].code => t = u

\* A code is burnt exactly when one exchange of it committed: a request that is
\* refused, fails or dies before its commit never costs the user a code.
BurntIffCommitted ==
  \A c \in Codes :
    (authCodes[c] # NoRow /\ authCodes[c].usado) <=>
      (\E t \in TokenReqs : tok[t].code = c /\ Committed(t))

\* Only the client a code was issued for can redeem it: whoever won presented
\* a secret that was generated for the application of the code.
RedeemedByItsClient ==
  \A t \in TokenReqs : Committed(t) =>
    mintedFor[tok[t].secret] = authCodes[tok[t].code].app

\* A secret that had been replaced when a request arrived redeems nothing, even
\* if the code was issued while that secret was in force.
RetiredSecretNeverRedeems ==
  \A t \in TokenReqs : Committed(t) => ~tok[t].retired

\* A request that arrives at or after the code's expiry never wins, however
\* long it or others wait for the row lock.
LateRequestNeverRedeems ==
  \A t \in TokenReqs : Committed(t) => tok[t].arrived < authCodes[tok[t].code].expira

\* The tokens a client obtains belong to a session whose cookie listed that
\* client's application: no client ends up with another audience's user.
TokensStayInsideAcessos ==
  \A t \in TokenReqs : Committed(t) =>
    mintedFor[tok[t].secret] \in Acessos[authCodes[tok[t].code].session]

\* What a statement can wait for: a connection of the pool, or the row lock.
TokenWaits(t) ==
  \/ tok[t].pc = "acquire" /\ ~FreeConnection
  \/ tok[t].pc = "select" /\ ~RowLockFree(tok[t].code)
AuthorizeWaits(a) == authz[a].pc \in {"client", "insert"} /\ ~FreeConnection

\* Nobody waits in a circle, through pool or lock: whenever a request waits, some
\* open transaction waits for nothing, and whenever one waits for a row, the
\* transaction that owns the row does.
NobodyWaitsInACircle ==
  /\ (\E t \in TokenReqs : TokenWaits(t)) \/ (\E a \in AuthorizeReqs : AuthorizeWaits(a)) =>
       \E u \in TokenReqs : InTransaction(u) /\ ~TokenWaits(u)
  /\ \A t \in TokenReqs : tok[t].pc = "select" /\ TokenWaits(t) =>
       LET owner == rowLock[tok[t].code] IN InTransaction(owner) /\ ~TokenWaits(owner)

\* Every request that starts is answered or fails: neither the row lock nor an
\* exhausted pool leaves requests waiting on one another for ever.
EveryRequestEnds ==
  /\ \A t \in TokenReqs : tok[t].pc # "idle" ~> tok[t].pc = "done"
  /\ \A a \in AuthorizeReqs :
       authz[a].pc # "idle" ~> authz[a].pc \in {"redirected", "refused", "error"}

----------------------------------------------------------------------------
(* Why those hold: the inductive invariant behind them. *)

\* A held row lock belongs to an open transaction on that very row.
LocksAreOwned ==
  \A c \in Codes : rowLock[c] # Free =>
    /\ authCodes[c] # NoRow
    /\ tok[rowLock[c]].code = c
    /\ tok[rowLock[c]].pc \in {"client", "mark", "rollback"}

\* Between the select and the commit the lock keeps what was read true: the
\* code is still unspent, and the request came in time.
CheckedRowHolds ==
  \A t \in TokenReqs : tok[t].pc \in {"client", "mark"} =>
    LET c == tok[t].code IN
    /\ rowLock[c] = t
    /\ authCodes[c] # NoRow
    /\ ~authCodes[c].usado
    /\ tok[t].arrived < authCodes[c].expira

\* What a request has shown once its secret matched, and for ever after.
Proven(t) ==
  LET c == tok[t].code IN
  /\ authCodes[c] # NoRow
  /\ mintedFor[tok[t].secret] = authCodes[c].app
  /\ ~tok[t].retired
  /\ tok[t].arrived < authCodes[c].expira

SecretWasProven ==
  \A t \in TokenReqs : tok[t].pc = "mark" \/ Committed(t) => Proven(t)

\* A secret belongs to the application that uses it, and is replaced for good.
SecretsAreFresh ==
  /\ \A app \in Apps : clientSecret[app] # NoSecret => mintedFor[clientSecret[app]] = app
  /\ \A t \in TokenReqs : tok[t].retired => Retired(tok[t].secret)

CodesFollowAcessos ==
  /\ \A a \in AuthorizeReqs : authz[a].pc \in {"client", "insert"} =>
       authz[a].app \in Acessos[authz[a].session]
  /\ \A c \in Codes : authCodes[c] # NoRow =>
       authCodes[c].app \in Acessos[authCodes[c].session]

RequestsInOrder ==
  \A t \in TokenReqs :
    /\ tok[t].arrived <= clock
    /\ tok[t].pc = "rollback" => tok[t].result \notin {"tokens", "lost"}
    /\ tok[t].retired => tok[t].pc # "idle"

\* The inductive invariant of the flow: the row lock carries what the select
\* saw across the awaits up to the commit.
ExchangeInv ==
  /\ LocksAreOwned
  /\ CheckedRowHolds
  /\ SecretWasProven
  /\ SecretsAreFresh
  /\ CodesFollowAcessos
  /\ RequestsInOrder
  /\ AtMostOneExchange
  /\ BurntIffCommitted

----------------------------------------------------------------------------
\* Seen from outside, issuing and redeeming are the single steps of OneShotCode.
OneShot == INSTANCE OneShotCode WITH
  Exchanges <- TokenReqs,
  Unissued <- NoApp,
  issuedFor <- [c \in Codes |-> IF authCodes[c] = NoRow THEN NoApp ELSE authCodes[c].app],
  spentBy <- [c \in Codes |-> {t \in TokenReqs : tok[t].code = c /\ Committed(t)}]

ImplementsOneShotCode == OneShot!OneShotSpec
=============================================================================
