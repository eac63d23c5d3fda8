-------------------------- MODULE AuthCode_proofs --------------------------
(* Proofs about AuthCode for every number of requests, codes, clients and   *)
(* connections, every time-to-live and every length of the run.             *)
EXTENDS AuthCode, FiniteSetTheorems, TLAPS

----------------------------------------------------------------------------
(* Type correctness *)

\* A request that moves on, whatever it is answered, stays a request.
LEMMA TokenGoesOK ==
  ASSUME TokenReqsOK, NEW t \in TokenReqs, NEW from, NEW to \in TokenPcs,
         NEW result \in Results, from # "idle", TokenGoes(t, from, to, result)
  PROVE  TokenReqsOK'
<1>1. tok \in [TokenReqs -> TokenReq]
  BY DEF TokenReqsOK
<1>2. [tok[t] EXCEPT !.pc = to, !.result = result] \in TokenReq
  BY <1>1 DEF TokenReq
<1>3. tok' \in [TokenReqs -> TokenReq]
  BY <1>1, <1>2 DEF TokenGoes
<1>4. ASSUME NEW u \in TokenReqs PROVE tok'[u].code = tok[u].code /\ tok'[u].secret = tok[u].secret
  BY <1>1 DEF TokenGoes, TokenReq
<1>5. ASSUME NEW u \in TokenReqs, tok'[u].pc # "idle" PROVE tok[u].pc # "idle"
  BY <1>1, <1>5 DEF TokenGoes, TokenReq
<1> QED
  BY <1>3, <1>4, <1>5 DEF TokenReqsOK

\* So does a request of /authorize that leaves "client" or "insert".
LEMMA AuthorizeGoesOK ==
  ASSUME AuthorizeReqsOK, NEW a \in AuthorizeReqs, NEW from,
         NEW to \in {"redirected", "refused", "error"}, AuthorizeGoes(a, from, to)
  PROVE  AuthorizeReqsOK'
<1>1. authz \in [AuthorizeReqs -> AuthorizeReq]
  BY DEF AuthorizeReqsOK
<1>2. [authz[a] EXCEPT !.pc = to] \in AuthorizeReq
  BY <1>1 DEF AuthorizeReq, AuthorizePcs
<1>3. authz' = [authz EXCEPT ![a] = [authz[a] EXCEPT !.pc = to]]
  BY DEF AuthorizeGoes
<1>4. authz' \in [AuthorizeReqs -> AuthorizeReq]
  BY <1>1, <1>2, <1>3
<1>5. \A b \in AuthorizeReqs : b # a => authz'[b] = authz[b]
  BY <1>1, <1>3
<1>6. authz'[a].pc = to
  BY <1>1, <1>3 DEF AuthorizeReq
<1> QED
  BY <1>4, <1>5, <1>6 DEF AuthorizeReqsOK

\* Every action leaves tables and requests well typed, and an admitted request
\* keeps both fields parse_token_request demanded.  The commit updates a row
\* that exists only because the lock was held since the select.
LEMMA TypeStep == TypeOK /\ CheckedRowHolds /\ [Next]_vars => TypeOK'
<1> SUFFICES ASSUME TypeOK, CheckedRowHolds, [Next]_vars PROVE TypeOK'
  OBVIOUS
<1> USE AcessosAssumption, NumbersAssumption, NullsAssumption DEF TypeOK
<1>1. CASE Tick
  BY <1>1 DEF Tick, TablesOK, AuthorizeReqsOK, TokenReqsOK
<1>2. ASSUME NEW app \in Apps, NEW s \in Secrets, SetAppClient(app, s)
      PROVE  TypeOK'
  BY <1>2 DEF SetAppClient, TablesOK, AuthorizeReqsOK, TokenReqsOK
<1>3. ASSUME NEW a \in AuthorizeReqs, NEW session \in Sessions, NEW app \in Apps,
             AuthorizeBegin(a, session, app)
      PROVE  TypeOK'
  <2>1. authz \in [AuthorizeReqs -> AuthorizeReq]
    BY DEF AuthorizeReqsOK
  <2> DEFINE admitted == [authz[a] EXCEPT !.pc = "client", !.session = session, !.app = app]
             refused == [authz[a] EXCEPT !.pc = "refused"]
  <2>2. /\ admitted \in AuthorizeReq /\ admitted.session = session
        /\ admitted.app = app /\ admitted.pc = "client"
        /\ refused \in AuthorizeReq /\ refused.pc = "refused"
    BY <2>1 DEF AuthorizeReq, AuthorizePcs
  <2>3. authz' = [authz EXCEPT ![a] = admitted] \/ authz' = [authz EXCEPT ![a] = refused]
    BY <1>3 DEF AuthorizeBegin
  <2> HIDE DEF admitted, refused
  <2>4. AuthorizeReqsOK'
    BY <2>1, <2>2, <2>3 DEF AuthorizeReqsOK
  <2> QED
    BY <1>3, <2>4 DEF AuthorizeBegin, TablesOK, TokenReqsOK
<1>4. ASSUME NEW a \in AuthorizeReqs, NEW c \in Codes, AuthorizeFetchClient(a, c)
      PROVE  TypeOK'
  <2>1. AuthorizeReqsOK'
    <3>1. CASE clientSecret[authz[a].app] = NoSecret
      BY <1>4, <3>1, AuthorizeGoesOK DEF AuthorizeFetchClient, AuthorizeGoes
    <3>2. CASE clientSecret[authz[a].app] # NoSecret
      <4> DEFINE new == [authz[a] EXCEPT !.pc = "insert", !.code = c, !.expira = clock + Ttl]
      <4>1. authz \in [AuthorizeReqs -> AuthorizeReq] /\ clock + Ttl \in Nat
        BY DEF AuthorizeReqsOK, TablesOK
      <4>2. new \in AuthorizeReq /\ new.session = authz[a].session
            /\ new.app = authz[a].app /\ new.code = c
        BY <4>1 DEF AuthorizeReq, AuthorizePcs
      <4>3. authz' = [authz EXCEPT ![a] = new] /\ authz[a].pc = "client"
        BY <1>4, <3>2 DEF AuthorizeFetchClient
      <4> HIDE DEF new
      <4> QED
        BY <4>1, <4>2, <4>3 DEF AuthorizeReqsOK
    <3> QED
      BY <3>1, <3>2
  <2> QED
    BY <1>4, <2>1 DEF AuthorizeFetchClient, TablesOK, TokenReqsOK
<1>5. ASSUME NEW a \in AuthorizeReqs, AuthorizeInsert(a)
      PROVE  TypeOK'
  <2>1. authz \in [AuthorizeReqs -> AuthorizeReq] /\ authz[a].pc = "insert"
    BY <1>5 DEF AuthorizeInsert, AuthorizeReqsOK, AuthorizeGoes
  <2>2. authz[a].session \in Sessions /\ authz[a].app \in Apps /\ authz[a].code \in Codes
        /\ authz[a].expira \in Nat
    BY <2>1 DEF AuthorizeReqsOK, AuthorizeReq
  <2>3. NewRow(a) \in Row
    BY <2>2 DEF NewRow, Row
  <2>4. TablesOK'
    BY <1>5, <2>2, <2>3 DEF AuthorizeInsert, TablesOK
  <2>5. AuthorizeReqsOK'
    BY <1>5, AuthorizeGoesOK DEF AuthorizeInsert
  <2> QED
    BY <1>5, <2>4, <2>5 DEF AuthorizeInsert, TokenReqsOK
<1>6. ASSUME NEW a \in AuthorizeReqs, AuthorizeFail(a)
      PROVE  TypeOK'
  <2>1. AuthorizeReqsOK'
    BY <1>6, AuthorizeGoesOK DEF AuthorizeFail
  <2> QED
    BY <1>6, <2>1 DEF AuthorizeFail, TablesOK, TokenReqsOK
<1>7. ASSUME NEW t \in TokenReqs, NEW c \in Codes, NEW s \in Secrets, TokenBegin(t, c, s)
      PROVE  TypeOK'
  <2>1. clock \in Nat
    BY DEF TablesOK
  <2>2. TokenReqsOK'
    BY <1>7, <2>1 DEF TokenBegin, Retired, TokenReqsOK, TokenReq, TokenPcs, Results
  <2> QED
    BY <1>7, <2>2 DEF TokenBegin, TablesOK, AuthorizeReqsOK
<1>8. ASSUME NEW t \in TokenReqs, TokenStep(t) \/ TokenFail(t)
      PROVE  TypeOK'
  <2> USE DEF TokenPcs, Results
  <2>1. tok[t] \in TokenReq
    BY DEF TokenReqsOK
  <2>2. Verdict(tok[t].code) \in Results
    BY DEF Verdict
  <2>3. TokenReqsOK'
    <3>1. CASE TokenAcquire(t)
      BY <3>1, TokenGoesOK DEF TokenAcquire
    <3>2. CASE TokenSelectForUpdate(t)
      BY <3>2, <2>2, TokenGoesOK DEF TokenSelectForUpdate
    <3>3. CASE TokenCheckClient(t)
      BY <3>3, TokenGoesOK DEF TokenCheckClient
    <3>4. CASE TokenCommit(t)
      BY <3>4, TokenGoesOK DEF TokenCommit
    <3>5. CASE TokenRollback(t)
      BY <3>5, <2>1, TokenGoesOK DEF TokenRollback, TokenReq
    <3>6. CASE TokenReply(t)
      BY <3>6, TokenGoesOK DEF TokenReply
    <3>7. CASE TokenFail(t)
      BY <3>7, TokenGoesOK DEF TokenFail
    <3> QED
      BY <1>8, <3>1, <3>2, <3>3, <3>4, <3>5, <3>6, <3>7 DEF TokenStep
  <2>4. rowLock \in [Codes -> TokenReqs \cup {Free}] =>
          Unlocked(t) \in [Codes -> TokenReqs \cup {Free}]
    BY DEF Unlocked
  <2>5. UNCHANGED <<clock, clientSecret, mintedFor, authz>>
    BY <1>8 DEF TokenStep, TokenAcquire, TokenSelectForUpdate,
       TokenCheckClient, TokenCommit, TokenRollback, TokenReply, TokenFail
  <2>6. rowLock' \in [Codes -> TokenReqs \cup {Free}]
    BY <1>8, <2>4 DEF TablesOK, TokenStep, TokenAcquire, TokenSelectForUpdate,
       TokenCheckClient, TokenCommit, TokenRollback, TokenReply, TokenFail
  <2>7. authCodes' \in [Codes -> Row \cup {NoRow}]
    <3>1. CASE TokenCommit(t)
      <4>1. tok[t].pc = "mark" /\ tok[t].code \in Codes
        BY <3>1 DEF TokenCommit, TokenGoes, TokenReqsOK
      <4>2. authCodes[tok[t].code] \in Row
        BY <4>1 DEF CheckedRowHolds, TablesOK
      <4>3. [authCodes[tok[t].code] EXCEPT !.usado = TRUE] \in Row
        BY <4>2 DEF Row
      <4> QED
        BY <3>1, <4>3 DEF TokenCommit, TablesOK
    <3>2. CASE ~TokenCommit(t)
      BY <1>8, <3>2 DEF TablesOK, TokenStep, TokenAcquire, TokenSelectForUpdate,
         TokenCheckClient, TokenRollback, TokenReply, TokenFail
    <3> QED
      BY <3>1, <3>2
  <2>8. TablesOK'
    BY <2>5, <2>6, <2>7 DEF TablesOK
  <2> QED
    BY <2>3, <2>5, <2>8 DEF AuthorizeReqsOK
<1>9. CASE UNCHANGED vars
  BY <1>9 DEF vars, TablesOK, AuthorizeReqsOK, TokenReqsOK
<1> QED
  BY <1>1, <1>2, <1>3, <1>4, <1>5, <1>6, <1>7, <1>8, <1>9
  DEF Next, AuthorizeStep, Quiescent

----------------------------------------------------------------------------
(* The exchange *)

\* What a move changes of the requests, field by field.
LEMMA TokenGoesFacts ==
  ASSUME TokenReqsOK, NEW t \in TokenReqs, NEW from, NEW to, NEW result,
         TokenGoes(t, from, to, result)
  PROVE  /\ tok[t].pc = from
         /\ tok'[t].pc = to
         /\ tok'[t].result = result
         /\ \A u \in TokenReqs :
              /\ u # t => tok'[u] = tok[u]
              /\ tok'[u].code = tok[u].code
              /\ tok'[u].secret = tok[u].secret
              /\ tok'[u].arrived = tok[u].arrived
              /\ tok'[u].retired = tok[u].retired
BY DEF TokenGoes, TokenReqsOK, TokenReq

\* Releasing its locks takes from a request nothing but what it held.
LEMMA UnlockedFacts ==
  ASSUME TablesOK, NEW t \in TokenReqs, rowLock' = Unlocked(t), NEW c \in Codes
  PROVE  /\ rowLock'[c] # Free => rowLock'[c] = rowLock[c] /\ rowLock[c] # t
         /\ rowLock[c] # t => rowLock'[c] = rowLock[c]
BY DEF Unlocked, TablesOK

\* Actions that touch neither a row, nor a lock, nor a /token request can only
\* disturb what is said of the clock, the secrets and the /authorize requests.
LEMMA QuietStep ==
  ASSUME TypeOK, ExchangeInv, UNCHANGED <<authCodes, rowLock, tok>>,
         clock' \in Nat, clock <= clock',
         \A s \in Secrets : mintedFor[s] # NoApp => mintedFor'[s] = mintedFor[s],
         SecretsAreFresh', CodesFollowAcessos'
  PROVE  ExchangeInv'
<1> USE DEF TypeOK
<1>1. LocksAreOwned' /\ CheckedRowHolds' /\ AtMostOneExchange' /\ BurntIffCommitted'
  BY DEF ExchangeInv, LocksAreOwned, CheckedRowHolds, AtMostOneExchange,
         BurntIffCommitted, Committed
<1>2. SecretWasProven'
  <2> SUFFICES ASSUME NEW t \in TokenReqs, (tok[t].pc = "mark" \/ Committed(t))'
               PROVE  Proven(t)'
    BY DEF SecretWasProven
  <2>1. Proven(t) /\ tok[t].pc # "idle"
    BY DEF ExchangeInv, SecretWasProven, Committed
  <2>2. tok[t].code \in Codes /\ tok[t].secret \in Secrets
    BY <2>1 DEF TokenReqsOK
  <2>3. authCodes[tok[t].code].app \in Apps
    BY <2>1, <2>2 DEF Proven, TablesOK, Row
  <2> QED
    BY <2>1, <2>2, <2>3, NullsAssumption DEF Proven
<1>3. RequestsInOrder'
  BY DEF ExchangeInv, RequestsInOrder, TablesOK, TokenReqsOK, TokenReq
<1> QED
  BY <1>1, <1>2, <1>3 DEF ExchangeInv

\* Minting a secret and moving to it retires the previous one for good.
LEMMA SetAppClientStep ==
  ASSUME TypeOK, ExchangeInv, NEW app \in Apps, NEW s \in Secrets, SetAppClient(app, s)
  PROVE  ExchangeInv'
<1>1. \A q \in Secrets : mintedFor[q] # NoApp => q # s /\ mintedFor'[q] = mintedFor[q]
  BY DEF SetAppClient, TypeOK, TablesOK
<1>2. /\ clientSecret'[app] = s /\ mintedFor'[s] = app
      /\ \A other \in Apps : other # app => clientSecret'[other] = clientSecret[other]
  BY DEF SetAppClient, TypeOK, TablesOK
<1>3. \A other \in Apps : clientSecret[other] \in Secrets \cup {NoSecret}
  BY DEF TypeOK, TablesOK
<1>4. ASSUME NEW other \in Apps, clientSecret'[other] # NoSecret
      PROVE  mintedFor'[clientSecret'[other]] = other
  BY <1>1, <1>2, <1>3, <1>4, NullsAssumption DEF ExchangeInv, SecretsAreFresh
<1>5. ASSUME NEW t \in TokenReqs, tok[t].retired PROVE Retired(tok[t].secret)'
  <2>1. Retired(tok[t].secret)
    BY <1>5 DEF ExchangeInv, SecretsAreFresh
  <2>2. tok[t].secret \in Secrets
    <3>1. tok[t].secret \in Secrets \cup {NoSecret}
      BY DEF TypeOK, TokenReqsOK, TokenReq
    <3>2. tok[t].pc # "idle"
      BY <1>5 DEF ExchangeInv, RequestsInOrder
    <3> QED
      BY <3>2 DEF TypeOK, TokenReqsOK
  <2>3. mintedFor[tok[t].secret] \in Apps
    BY <2>1, <2>2 DEF Retired, TypeOK, TablesOK
  <2> QED
    BY <1>1, <1>2, <2>1, <2>2, <2>3 DEF Retired, SetAppClient
<1>6. SecretsAreFresh'
  BY <1>4, <1>5 DEF SecretsAreFresh, SetAppClient
<1>7. CodesFollowAcessos'
  BY DEF ExchangeInv, CodesFollowAcessos, SetAppClient
<1>8. clock' = clock /\ clock \in Nat
  BY DEF SetAppClient, TypeOK, TablesOK
<1> QED
  BY <1>1, <1>6, <1>7, <1>8, QuietStep DEF SetAppClient

\* /authorize checks the access before anything else and carries it to the row.
LEMMA AuthorizeQuietStep ==
  ASSUME TypeOK, ExchangeInv, NEW a \in AuthorizeReqs,
         \/ \E session \in Sessions, app \in Apps : AuthorizeBegin(a, session, app)
         \/ \E c \in Codes : AuthorizeFetchClient(a, c)
         \/ AuthorizeFail(a)
  PROVE  ExchangeInv'
<1>1. authz \in [AuthorizeReqs -> AuthorizeReq]
  BY DEF TypeOK, AuthorizeReqsOK
<1>2. /\ UNCHANGED <<clock, clientSecret, mintedFor, authCodes, rowLock, tok>>
      /\ \A b \in AuthorizeReqs : b # a => authz'[b] = authz[b]
  BY <1>1 DEF AuthorizeBegin, AuthorizeFetchClient, AuthorizeFail, AuthorizeGoes
<1>3. authz'[a].pc \in {"client", "insert"} => authz'[a].app \in Acessos[authz'[a].session]
  <2>1. ASSUME NEW session \in Sessions, NEW app \in Apps, AuthorizeBegin(a, session, app)
        PROVE  authz'[a].pc \in {"client", "insert"} => authz'[a].app \in Acessos[authz'[a].session]
    BY <1>1, <2>1 DEF AuthorizeBegin, AuthorizeReq, HasAcesso
  <2>2. ASSUME NEW c \in Codes, AuthorizeFetchClient(a, c)
        PROVE  authz'[a].pc \in {"client", "insert"} => authz'[a].app \in Acessos[authz'[a].session]
    <3>1. authz[a].pc = "client" /\ authz[a].app \in Acessos[authz[a].session]
      BY <2>2 DEF AuthorizeFetchClient, ExchangeInv, CodesFollowAcessos
    <3>2. authz'[a].app = authz[a].app /\ authz'[a].session = authz[a].session
      BY <1>1, <2>2 DEF AuthorizeFetchClient, AuthorizeReq
    <3> QED
      BY <3>1, <3>2
  <2>3. CASE AuthorizeFail(a)
    BY <1>1, <2>3 DEF AuthorizeFail, AuthorizeGoes, AuthorizeReq
  <2> QED
    BY <2>1, <2>2, <2>3
<1>4. CodesFollowAcessos'
  BY <1>2, <1>3 DEF ExchangeInv, CodesFollowAcessos
<1>5. SecretsAreFresh' /\ clock \in Nat
  BY <1>2 DEF ExchangeInv, SecretsAreFresh, Retired, TypeOK, TablesOK
<1> QED
  BY <1>2, <1>4, <1>5, QuietStep

\* A new row is live, belongs to a session with access, and no exchange of its
\* code has begun to win: the primary key keeps older rows as they are.
LEMMA AuthorizeInsertStep ==
  ASSUME TypeOK, ExchangeInv, NEW a \in AuthorizeReqs, AuthorizeInsert(a)
  PROVE  ExchangeInv'
<1> DEFINE c == authz[a].code
<1>1. /\ authz \in [AuthorizeReqs -> AuthorizeReq]
      /\ authz[a].pc = "insert"
      /\ c \in Codes
      /\ authz[a].app \in Acessos[authz[a].session]
  BY DEF TypeOK, AuthorizeReqsOK, AuthorizeInsert, AuthorizeGoes, ExchangeInv, CodesFollowAcessos
<1>2. /\ UNCHANGED <<clock, clientSecret, mintedFor, rowLock, tok>>
      /\ \A b \in AuthorizeReqs : b # a => authz'[b] = authz[b]
      /\ authz'[a].pc \notin {"client", "insert"}
  BY <1>1 DEF AuthorizeInsert, AuthorizeGoes, AuthorizeReq
<1>3. /\ \A d \in Codes : authCodes[d] # NoRow => authCodes'[d] = authCodes[d]
      /\ \A d \in Codes : authCodes'[d] # authCodes[d] => d = c /\ authCodes'[c] = NewRow(a)
  BY <1>1 DEF AuthorizeInsert, TypeOK, TablesOK
<1>4. ~NewRow(a).usado /\ NewRow(a).app \in Acessos[NewRow(a).session]
  BY <1>1 DEF NewRow
<1> HIDE DEF c
<1>5. \A t \in TokenReqs : tok[t].pc \in {"client", "mark"} \/ Committed(t) =>
        tok[t].code \in Codes /\ authCodes[tok[t].code] # NoRow
  BY DEF ExchangeInv, CheckedRowHolds, SecretWasProven, Proven, Committed, TypeOK, TokenReqsOK
<1>6. LocksAreOwned'
  BY <1>2, <1>3 DEF ExchangeInv, LocksAreOwned
<1>7. CheckedRowHolds'
  BY <1>2, <1>3, <1>5 DEF ExchangeInv, CheckedRowHolds
<1>8. SecretWasProven'
  BY <1>2, <1>3, <1>5 DEF ExchangeInv, SecretWasProven, Proven, Committed
<1>9. CodesFollowAcessos'
  BY <1>2, <1>3, <1>4 DEF ExchangeInv, CodesFollowAcessos
<1>10. BurntIffCommitted'
  BY <1>2, <1>3, <1>4, <1>5 DEF ExchangeInv, BurntIffCommitted, Committed
<1>11. SecretsAreFresh' /\ RequestsInOrder' /\ AtMostOneExchange'
  BY <1>2 DEF ExchangeInv, SecretsAreFresh, Retired, RequestsInOrder, AtMostOneExchange, Committed
<1> QED
  BY <1>6, <1>7, <1>8, <1>9, <1>10, <1>11 DEF ExchangeInv

\* A request arrives with nothing proven and nothing held.
LEMMA TokenBeginStep ==
  ASSUME TypeOK, ExchangeInv, NEW t \in TokenReqs, NEW c \in Codes, NEW s \in Secrets,
         TokenBegin(t, c, s)
  PROVE  ExchangeInv'
<1>1. /\ UNCHANGED <<clock, clientSecret, mintedFor, authCodes, rowLock, authz>>
      /\ \A u \in TokenReqs : u # t => tok'[u] = tok[u]
      /\ tok[t].pc = "idle" /\ tok'[t].pc = "acquire"
      /\ tok'[t].secret = s /\ tok'[t].arrived = clock /\ tok'[t].retired = Retired(s)
  BY DEF TokenBegin, TypeOK, TokenReqsOK
<1>2. \A u \in TokenReqs :
        Committed(u)' => Committed(u) /\ u # t
  BY <1>1 DEF Committed
<1>3. \A u \in TokenReqs : Committed(u) => u # t /\ Committed(u)'
  BY <1>1 DEF Committed
<1>4. \A d \in Codes : rowLock[d] # t
  BY <1>1, NullsAssumption DEF ExchangeInv, LocksAreOwned
<1>5. \A d \in Codes : rowLock[d] # Free => rowLock[d] \in TokenReqs
  BY DEF TypeOK, TablesOK
<1>6. LocksAreOwned' /\ CheckedRowHolds' /\ CodesFollowAcessos'
  BY <1>1, <1>4, <1>5 DEF ExchangeInv, LocksAreOwned, CheckedRowHolds, CodesFollowAcessos
<1>7. SecretWasProven'
  BY <1>1, <1>2 DEF ExchangeInv, SecretWasProven, Proven
<1>8. SecretsAreFresh'
  BY <1>1 DEF ExchangeInv, SecretsAreFresh, Retired
<1>9. RequestsInOrder'
  BY <1>1 DEF ExchangeInv, RequestsInOrder, TypeOK, TablesOK
<1>10. AtMostOneExchange' /\ BurntIffCommitted'
  BY <1>1, <1>2, <1>3 DEF ExchangeInv, AtMostOneExchange, BurntIffCommitted
<1> QED
  BY <1>6, <1>7, <1>8, <1>9, <1>10 DEF ExchangeInv

\* The facts every later step of a request shares.
LEMMA TokenSteps ==
  ASSUME TypeOK, ExchangeInv, NEW t \in TokenReqs, NEW from, NEW to, NEW result,
         TokenGoes(t, from, to, result), from # "idle", to # "idle",
         to = "rollback" => result \notin {"tokens", "lost"},
         UNCHANGED <<clock, clientSecret, mintedFor, authz>>
  PROVE  SecretsAreFresh' /\ RequestsInOrder'
<1> USE TokenGoesFacts DEF TypeOK
<1>1. SecretsAreFresh'
  BY DEF ExchangeInv, SecretsAreFresh, Retired
<1> QED
  BY <1>1 DEF ExchangeInv, RequestsInOrder

\* Steps before the commit that do not touch any row.
LEMMA UncommittedStep ==
  ASSUME TypeOK, ExchangeInv, NEW t \in TokenReqs, NEW from, NEW to, NEW result,
         TokenGoes(t, from, to, result), from \notin {"idle", "reply", "done"},
         to \notin {"idle", "reply"},
         to \in {"rollback", "done"} => result \notin {"tokens", "lost"},
         UNCHANGED <<clock, clientSecret, mintedFor, authz, authCodes>>,
         LocksAreOwned', CheckedRowHolds',
         to = "mark" => Proven(t)
  PROVE  ExchangeInv'
<1> USE TokenGoesFacts DEF TypeOK
<1>1. \A u \in TokenReqs : Committed(u)' <=> Committed(u)
  BY DEF Committed
<1>2. SecretsAreFresh' /\ RequestsInOrder'
  BY TokenSteps
<1>3. SecretWasProven'
  BY <1>1 DEF ExchangeInv, SecretWasProven, Proven
<1>4. CodesFollowAcessos' /\ AtMostOneExchange' /\ BurntIffCommitted'
  BY <1>1 DEF ExchangeInv, CodesFollowAcessos, AtMostOneExchange, BurntIffCommitted
<1> QED
  BY <1>2, <1>3, <1>4 DEF ExchangeInv

\* The select either waits, or takes the lock on a row that is live and in time.
LEMMA SelectStep ==
  ASSUME TypeOK, ExchangeInv, NEW t \in TokenReqs, TokenSelectForUpdate(t)
  PROVE  ExchangeInv'
<1> USE DEF TypeOK
<1> DEFINE c == tok[t].code
           to == IF Verdict(c) = "none" THEN "client" ELSE "rollback"
<1>1. TokenGoes(t, "select", to, Verdict(c)) /\ rowLock[c] = Free
      /\ UNCHANGED <<clock, clientSecret, mintedFor, authCodes, authz>>
  BY DEF TokenSelectForUpdate, RowLockFree
<1>2. c \in Codes
  BY <1>1 DEF TokenGoes, TokenReqsOK
<1>3. rowLock' = IF authCodes[c] = NoRow THEN rowLock ELSE [rowLock EXCEPT ![c] = t]
  BY DEF TokenSelectForUpdate
<1>4. Verdict(c) \notin {"tokens", "lost"}
  BY DEF Verdict
<1>5. Verdict(c) = "none" =>
        authCodes[c] # NoRow /\ ~authCodes[c].usado /\ tok[t].arrived < authCodes[c].expira
  <2>1. tok[t].arrived <= clock /\ tok[t].arrived \in Nat /\ clock \in Nat
    BY DEF ExchangeInv, RequestsInOrder, TokenReqsOK, TokenReq, TablesOK
  <2>2. authCodes[c] # NoRow => authCodes[c].expira \in Nat
    BY <1>2 DEF TablesOK, Row
  <2> QED
    BY <2>1, <2>2 DEF Verdict, Expired
<1>6. /\ \A d \in Codes : d # c => rowLock'[d] = rowLock[d]
      /\ rowLock'[c] = IF authCodes[c] = NoRow THEN Free ELSE t
  BY <1>1, <1>2, <1>3 DEF TablesOK
<1>7. /\ tok[t].pc = "select" /\ tok'[t].pc = to /\ tok'[t].code = c
      /\ \A u \in TokenReqs : u # t => tok'[u] = tok[u]
      /\ tok'[t].arrived = tok[t].arrived
  BY <1>1, TokenGoesFacts
<1>8. \A d \in Codes : rowLock[d] # Free => rowLock[d] \in TokenReqs /\ rowLock[d] # t
  BY <1>7 DEF TablesOK, ExchangeInv, LocksAreOwned
<1> HIDE DEF c
<1>9. LocksAreOwned'
  BY <1>1, <1>6, <1>7, <1>8, <1>2 DEF ExchangeInv, LocksAreOwned
<1>10. CheckedRowHolds'
  <2> SUFFICES ASSUME NEW u \in TokenReqs, tok'[u].pc \in {"client", "mark"}
               PROVE  LET d == tok'[u].code IN
                        /\ rowLock'[d] = u
                        /\ authCodes[d] # NoRow
                        /\ ~authCodes[d].usado
                        /\ tok'[u].arrived < authCodes[d].expira
    BY <1>1 DEF CheckedRowHolds
  <2>1. CASE u = t
    BY <1>5, <1>6, <1>7, <2>1
  <2>2. CASE u # t
    <3>1. tok'[u] = tok[u] /\ tok[u].code \in Codes
      BY <1>7, <2>2 DEF TokenReqsOK
    <3>2. rowLock[tok[u].code] = u /\ tok[u].code # c
      BY <1>1, <3>1, NullsAssumption DEF ExchangeInv, CheckedRowHolds
    <3> QED
      BY <1>6, <3>1, <3>2 DEF ExchangeInv, CheckedRowHolds
  <2> QED
    BY <2>1, <2>2
<1> QED
  BY <1>1, <1>4, <1>9, <1>10, UncommittedStep

\* Waiting for the pool holds nothing.
LEMMA AcquireStep ==
  ASSUME TypeOK, ExchangeInv, NEW t \in TokenReqs, TokenAcquire(t)
  PROVE  ExchangeInv'
<1> USE DEF TypeOK
<1>1. TokenGoes(t, "acquire", "select", "none")
      /\ UNCHANGED <<clock, clientSecret, mintedFor, authCodes, rowLock, authz>>
  BY DEF TokenAcquire
<1>2. /\ tok[t].pc = "acquire" /\ tok'[t].pc = "select"
      /\ \A u \in TokenReqs : u # t => tok'[u] = tok[u]
  BY <1>1, TokenGoesFacts
<1>3. LocksAreOwned' /\ CheckedRowHolds'
  BY <1>1, <1>2 DEF ExchangeInv, LocksAreOwned, CheckedRowHolds, TablesOK
<1> QED
  BY <1>1, <1>3, UncommittedStep

\* A secret that matches now is the application's current one: not retired, and
\* never another application's.
LEMMA CheckClientStep ==
  ASSUME TypeOK, ExchangeInv, NEW t \in TokenReqs, TokenCheckClient(t)
  PROVE  ExchangeInv'
<1> USE DEF TypeOK
<1> DEFINE c == tok[t].code
           to == IF SecretMatches(t) THEN "mark" ELSE "rollback"
           result == IF SecretMatches(t) THEN "none" ELSE "invalid_client"
<1>1. TokenGoes(t, "client", to, result)
      /\ UNCHANGED <<clock, clientSecret, mintedFor, authCodes, rowLock, authz>>
  BY DEF TokenCheckClient
<1>2. /\ tok[t].pc = "client" /\ tok'[t].pc = to
      /\ \A u \in TokenReqs : /\ u # t => tok'[u] = tok[u]
                              /\ tok'[u].code = tok[u].code
                              /\ tok'[u].arrived = tok[u].arrived
  BY <1>1, TokenGoesFacts
<1>3. LocksAreOwned' /\ CheckedRowHolds'
  BY <1>1, <1>2 DEF ExchangeInv, LocksAreOwned, CheckedRowHolds, TablesOK
<1>4. ASSUME SecretMatches(t) PROVE Proven(t)
  <2>1. c \in Codes /\ tok[t].secret \in Secrets
    BY <1>2 DEF TokenReqsOK
  <2>2. authCodes[c] # NoRow /\ tok[t].arrived < authCodes[c].expira
    BY <1>2 DEF ExchangeInv, CheckedRowHolds
  <2>3. authCodes[c].app \in Apps
    BY <2>1, <2>2 DEF TablesOK, Row
  <2>4. mintedFor[tok[t].secret] = authCodes[c].app
    BY <1>4, <2>1, <2>3, NullsAssumption DEF ExchangeInv, SecretsAreFresh, SecretMatches
  <2>5. tok[t].retired \in BOOLEAN /\ ~tok[t].retired
    BY <1>4, <2>4 DEF ExchangeInv, SecretsAreFresh, Retired, SecretMatches, TokenReqsOK, TokenReq
  <2> QED
    BY <2>2, <2>4, <2>5 DEF Proven
<1> QED
  BY <1>1, <1>3, <1>4, UncommittedStep

\* What a request releases when it ends, the others still hold.
LEMMA ReleaseFacts ==
  ASSUME TypeOK, ExchangeInv, NEW t \in TokenReqs, NEW from, NEW to, NEW result,
         TokenGoes(t, from, to, result), to \in {"reply", "done"}, rowLock' = Unlocked(t),
         \A c \in Codes : rowLock[c] # t => authCodes'[c] = authCodes[c],
         \A c \in Codes : authCodes[c] # NoRow => authCodes'[c] # NoRow
  PROVE  LocksAreOwned' /\ CheckedRowHolds'
<1> USE TokenGoesFacts, UnlockedFacts DEF TypeOK
<1>1. LocksAreOwned'
  <2> SUFFICES ASSUME NEW c \in Codes, rowLock'[c] # Free
               PROVE  /\ authCodes'[c] # NoRow
                      /\ tok'[rowLock'[c]].code = c
                      /\ tok'[rowLock'[c]].pc \in {"client", "mark", "rollback"}
    BY DEF LocksAreOwned
  <2>1. rowLock'[c] = rowLock[c] /\ rowLock[c] # t /\ rowLock[c] \in TokenReqs
    BY DEF TablesOK
  <2> QED
    BY <2>1 DEF ExchangeInv, LocksAreOwned
<1>2. CheckedRowHolds'
  <2> SUFFICES ASSUME NEW u \in TokenReqs, tok'[u].pc \in {"client", "mark"}
               PROVE  LET d == tok'[u].code IN
                        /\ rowLock'[d] = u
                        /\ authCodes'[d] # NoRow
                        /\ ~authCodes'[d].usado
                        /\ tok'[u].arrived < authCodes'[d].expira
    BY DEF CheckedRowHolds
  <2>1. u # t /\ tok'[u] = tok[u]
    OBVIOUS
  <2>2. tok[u].code \in Codes /\ rowLock[tok[u].code] = u
    BY <2>1 DEF ExchangeInv, CheckedRowHolds, TokenReqsOK
  <2> QED
    BY <2>1, <2>2 DEF ExchangeInv, CheckedRowHolds
<1> QED
  BY <1>1, <1>2

\* A rollback, or a failure before the commit, gives back the lock and nothing else.
LEMMA ReleaseStep ==
  ASSUME TypeOK, ExchangeInv, NEW t \in TokenReqs,
         TokenRollback(t) \/ (TokenFail(t) /\ tok[t].pc # "reply")
  PROVE  ExchangeInv'
<1> USE DEF TypeOK
<1>1. PICK from, result : /\ TokenGoes(t, from, "done", result)
                          /\ from \notin {"idle", "reply", "done"}
                          /\ result \notin {"tokens", "lost"}
  <2>1. CASE TokenRollback(t)
    BY <2>1 DEF TokenRollback, TokenGoes, ExchangeInv, RequestsInOrder
  <2>2. CASE TokenFail(t) /\ tok[t].pc # "reply"
    BY <2>2 DEF TokenFail
  <2> QED
    BY <2>1, <2>2
<1>2. UNCHANGED <<clock, clientSecret, mintedFor, authCodes, authz>> /\ rowLock' = Unlocked(t)
  BY DEF TokenRollback, TokenFail
<1>3. LocksAreOwned' /\ CheckedRowHolds'
  BY <1>1, <1>2, ReleaseFacts
<1> QED
  BY <1>1, <1>2, <1>3, UncommittedStep

\* After the commit the answer, sent or lost, changes nothing in the database.
LEMMA AnswerStep ==
  ASSUME TypeOK, ExchangeInv, NEW t \in TokenReqs,
         TokenReply(t) \/ (TokenFail(t) /\ tok[t].pc = "reply")
  PROVE  ExchangeInv'
<1> USE DEF TypeOK
<1>1. PICK result \in {"tokens", "lost"} : TokenGoes(t, "reply", "done", result)
  BY DEF TokenReply, TokenFail
<1>2. UNCHANGED <<clock, clientSecret, mintedFor, authCodes, authz>>
  BY DEF TokenReply, TokenFail
<1>3. /\ tok[t].pc = "reply" /\ tok'[t].pc = "done" /\ tok'[t].result = result
      /\ \A u \in TokenReqs :
              /\ u # t => tok'[u] = tok[u]
              /\ tok'[u].code = tok[u].code
              /\ tok'[u].secret = tok[u].secret
              /\ tok'[u].arrived = tok[u].arrived
              /\ tok'[u].retired = tok[u].retired
  BY <1>1, TokenGoesFacts
<1>4. \A c \in Codes : rowLock[c] # Free => rowLock[c] \in TokenReqs /\ rowLock[c] # t
  BY <1>3 DEF ExchangeInv, LocksAreOwned, TablesOK
<1>5. rowLock' = rowLock
  <2>1. CASE TokenReply(t)
    BY <2>1 DEF TokenReply
  <2>2. CASE TokenFail(t)
    BY <2>2, <1>3, <1>4 DEF TokenFail, Unlocked, TablesOK, ExchangeInv, LocksAreOwned
  <2> QED
    BY <2>1, <2>2
<1>6. LocksAreOwned' /\ CheckedRowHolds'
  BY <1>2, <1>3, <1>4, <1>5 DEF ExchangeInv, LocksAreOwned, CheckedRowHolds
<1>7. \A u \in TokenReqs : Committed(u)' <=> Committed(u)
  BY <1>3 DEF Committed
<1>8. SecretsAreFresh' /\ RequestsInOrder'
  BY <1>1, <1>2, TokenSteps
<1>9. SecretWasProven'
  BY <1>2, <1>3, <1>7 DEF ExchangeInv, SecretWasProven, Proven
<1>10. CodesFollowAcessos' /\ AtMostOneExchange' /\ BurntIffCommitted'
  BY <1>2, <1>3, <1>7 DEF ExchangeInv, CodesFollowAcessos, AtMostOneExchange, BurntIffCommitted
<1> QED
  BY <1>6, <1>8, <1>9, <1>10 DEF ExchangeInv

\* The commit spends a code that was still unspent, so no other exchange of it
\* has committed, and none can pass the lock in between.
LEMMA CommitStep ==
  ASSUME TypeOK, ExchangeInv, NEW t \in TokenReqs, TokenCommit(t)
  PROVE  ExchangeInv'
<1> USE DEF TypeOK
<1> DEFINE c == tok[t].code
<1>1. TokenGoes(t, "mark", "reply", "none") /\ rowLock' = Unlocked(t)
      /\ UNCHANGED <<clock, clientSecret, mintedFor, authz>>
  BY DEF TokenCommit
<1>2. /\ tok[t].pc = "mark" /\ tok'[t].pc = "reply"
      /\ \A u \in TokenReqs :
              /\ u # t => tok'[u] = tok[u]
              /\ tok'[u].code = tok[u].code
              /\ tok'[u].secret = tok[u].secret
              /\ tok'[u].arrived = tok[u].arrived
              /\ tok'[u].retired = tok[u].retired
  BY <1>1, TokenGoesFacts
<1>3. /\ c \in Codes /\ rowLock[c] = t
      /\ authCodes[c] # NoRow /\ authCodes[c] \in Row /\ ~authCodes[c].usado
      /\ Proven(t)
  BY <1>2 DEF TokenReqsOK, TablesOK, ExchangeInv, CheckedRowHolds, SecretWasProven
<1>4. /\ authCodes'[c].usado
      /\ authCodes'[c] \in Row /\ authCodes'[c] # NoRow
      /\ authCodes'[c].app = authCodes[c].app
      /\ authCodes'[c].session = authCodes[c].session
      /\ authCodes'[c].expira = authCodes[c].expira
      /\ \A d \in Codes : d # c => authCodes'[d] = authCodes[d]
  <2>1. authCodes' = [authCodes EXCEPT ![c] = [authCodes[c] EXCEPT !.usado = TRUE]]
    BY DEF TokenCommit
  <2>2. LET r == [authCodes[c] EXCEPT !.usado = TRUE]
        IN  r \in Row /\ r.usado /\ r.app = authCodes[c].app
            /\ r.session = authCodes[c].session /\ r.expira = authCodes[c].expira
    BY <1>3 DEF Row
  <2>3. \A r : r \in Row => r # NoRow
    BY NullsAssumption DEF Row
  <2> QED
    BY <1>3, <2>1, <2>2, <2>3 DEF TablesOK
<1>5. \A u \in TokenReqs : Committed(u)' <=> (Committed(u) \/ u = t)
  BY <1>2 DEF Committed
<1>6. ASSUME NEW u \in TokenReqs, Committed(u) PROVE tok[u].code # c /\ tok[u].code \in Codes
  BY <1>3, <1>6 DEF ExchangeInv, BurntIffCommitted, Committed, TokenReqsOK
<1>7. LocksAreOwned' /\ CheckedRowHolds'
  BY <1>1, <1>3, <1>4, ReleaseFacts
<1>8. SecretsAreFresh' /\ RequestsInOrder'
  BY <1>1, TokenSteps
<1>9. SecretWasProven'
  <2> SUFFICES ASSUME NEW u \in TokenReqs, (tok[u].pc = "mark" \/ Committed(u))'
               PROVE  Proven(u)'
    BY DEF SecretWasProven
  <2>1. Proven(u) /\ tok[u].code \in Codes
    BY <1>2, <1>3, <1>5 DEF ExchangeInv, SecretWasProven, Committed, TokenReqsOK
  <2>2. authCodes'[tok[u].code] # NoRow
        /\ authCodes'[tok[u].code].app = authCodes[tok[u].code].app
        /\ authCodes'[tok[u].code].expira = authCodes[tok[u].code].expira
    BY <1>4, <2>1 DEF Proven
  <2> QED
    BY <1>1, <1>2, <2>1, <2>2 DEF Proven
<1>10. CodesFollowAcessos'
  BY <1>1, <1>3, <1>4 DEF ExchangeInv, CodesFollowAcessos
<1>11. AtMostOneExchange'
  BY <1>2, <1>5, <1>6 DEF ExchangeInv, AtMostOneExchange
<1>12. BurntIffCommitted'
  BY <1>2, <1>3, <1>4, <1>5, <1>6 DEF ExchangeInv, BurntIffCommitted
<1> QED
  BY <1>7, <1>8, <1>9, <1>10, <1>11, <1>12 DEF ExchangeInv

----------------------------------------------------------------------------
(* The theorems *)

LEMMA InitInv == Init => TypeOK /\ ExchangeInv
<1> SUFFICES ASSUME Init PROVE TypeOK /\ ExchangeInv
  OBVIOUS
<1>1. TypeOK
  BY NumbersAssumption, NullsAssumption
  DEF Init, TypeOK, TablesOK, AuthorizeReqsOK, TokenReqsOK, AuthorizeReq, TokenReq,
      AuthorizePcs, TokenPcs, Results
<1>2. \A t \in TokenReqs : ~Committed(t) /\ tok[t].pc = "idle" /\ ~tok[t].retired
                           /\ tok[t].arrived = 0
  BY DEF Init, Committed
<1>3. /\ \A c \in Codes : rowLock[c] = Free /\ authCodes[c] = NoRow
      /\ \A app \in Apps : clientSecret[app] = NoSecret
      /\ \A a \in AuthorizeReqs : authz[a].pc = "idle"
      /\ clock = 0
  BY DEF Init
<1>4. ExchangeInv
  BY <1>2, <1>3 DEF ExchangeInv, LocksAreOwned, CheckedRowHolds, SecretWasProven,
     SecretsAreFresh, CodesFollowAcessos, RequestsInOrder, AtMostOneExchange, BurntIffCommitted
<1> QED
  BY <1>1, <1>4

LEMMA InvStep == TypeOK /\ ExchangeInv /\ [Next]_vars => ExchangeInv'
<1> SUFFICES ASSUME TypeOK, ExchangeInv, [Next]_vars PROVE ExchangeInv'
  OBVIOUS
<1>1. CASE Tick
  <2>1. clock \in Nat /\ clock' = clock + 1
    BY <1>1 DEF Tick, TypeOK, TablesOK
  <2>2. SecretsAreFresh' /\ CodesFollowAcessos'
    BY <1>1 DEF Tick, ExchangeInv, SecretsAreFresh, Retired, CodesFollowAcessos
  <2> QED
    BY <1>1, <2>1, <2>2, QuietStep DEF Tick
<1>2. CASE UNCHANGED vars
  <2>1. SecretsAreFresh' /\ CodesFollowAcessos'
    BY <1>2 DEF vars, ExchangeInv, SecretsAreFresh, Retired, CodesFollowAcessos
  <2> QED
    BY <1>2, <2>1, QuietStep DEF vars, TypeOK, TablesOK
<1>3. ASSUME NEW t \in TokenReqs, TokenStep(t) PROVE ExchangeInv'
  <2>1. CASE TokenAcquire(t) \/ TokenSelectForUpdate(t)
    BY <2>1, AcquireStep, SelectStep
  <2>2. CASE TokenCheckClient(t) \/ TokenCommit(t)
    BY <2>2, CheckClientStep, CommitStep
  <2>3. CASE TokenRollback(t)
    BY <2>3, ReleaseStep
  <2>4. CASE TokenReply(t)
    BY <2>4, AnswerStep
  <2> QED
    BY <1>3, <2>1, <2>2, <2>3, <2>4 DEF TokenStep
<1>4. ASSUME NEW t \in TokenReqs, TokenFail(t) PROVE ExchangeInv'
  BY <1>4, ReleaseStep, AnswerStep
<1>5. ASSUME NEW a \in AuthorizeReqs, AuthorizeStep(a) \/ AuthorizeFail(a) PROVE ExchangeInv'
  BY <1>5, AuthorizeQuietStep, AuthorizeInsertStep DEF AuthorizeStep
<1> QED
  BY <1>1, <1>2, <1>3, <1>4, <1>5, SetAppClientStep, AuthorizeQuietStep, TokenBeginStep
  DEF Next, Quiescent

\* For any number of concurrent exchanges the lock carries what the select saw
\* up to the commit: the invariant behind every result below.
THEOREM ExchangeInvariant == Spec => [](TypeOK /\ ExchangeInv)
<1>1. TypeOK /\ ExchangeInv /\ [Next]_vars => (TypeOK /\ ExchangeInv)'
  BY TypeStep, InvStep DEF ExchangeInv
<1> QED
  BY <1>1, InitInv, PTL DEF Spec

\* Whatever the requests do, every table and every request stays well typed.
THEOREM TypeCorrect == Spec => []TypeOK
BY ExchangeInvariant, PTL

\* However many exchanges of a code run at once, at most one of them wins, and
\* only a winner costs the user the code.
THEOREM OneWinnerPerCode == Spec => []AtMostOneExchange /\ []BurntIffCommitted
<1>1. ExchangeInv => AtMostOneExchange /\ BurntIffCommitted
  BY DEF ExchangeInv
<1> QED
  BY <1>1, ExchangeInvariant, PTL

\* A winner presented a secret of the code's own client that was in force when
\* it arrived, and arrived before the code expired.
THEOREM WinnersAreEntitled ==
  Spec => []RedeemedByItsClient /\ []RetiredSecretNeverRedeems /\ []LateRequestNeverRedeems
<1>1. ExchangeInv => RedeemedByItsClient /\ RetiredSecretNeverRedeems /\ LateRequestNeverRedeems
  BY DEF ExchangeInv, SecretWasProven, Proven, RedeemedByItsClient,
         RetiredSecretNeverRedeems, LateRequestNeverRedeems
<1> QED
  BY <1>1, ExchangeInvariant, PTL

\* The inductive invariant that run exchange_safety checks holds of every instance.
THEOREM LockCarriesTheCheck == Spec => []ExchangeInv
BY ExchangeInvariant, PTL

\* A request that is refused, fails or dies before its commit burns no code.
THEOREM LosersBurnNothing == Spec => []BurntIffCommitted
<1>1. Spec => []AtMostOneExchange /\ []BurntIffCommitted
  BY OneWinnerPerCode
<1> QED
  BY <1>1, PTL

\* Rotation takes effect at once for every request that arrives after it.
THEOREM RetiredSecretsAreDead == Spec => []RetiredSecretNeverRedeems
BY WinnersAreEntitled, PTL

\* Waiting for the lock or for a connection never rescues a late request.
THEOREM LateRequestsLose == Spec => []LateRequestNeverRedeems
BY WinnersAreEntitled, PTL

\* A client only ever obtains the tokens of sessions that list it in acessos.
THEOREM AudienceIsKept == Spec => []TokensStayInsideAcessos
<1>1. TypeOK /\ ExchangeInv => TokensStayInsideAcessos
  <2> SUFFICES ASSUME TypeOK, ExchangeInv, NEW t \in TokenReqs, Committed(t)
               PROVE  mintedFor[tok[t].secret] \in Acessos[authCodes[tok[t].code].session]
    BY DEF TokensStayInsideAcessos
  <2>1. Proven(t) /\ tok[t].code \in Codes
    BY DEF ExchangeInv, SecretWasProven, Committed, TypeOK, TokenReqsOK
  <2> QED
    BY <2>1 DEF Proven, ExchangeInv, CodesFollowAcessos
<1> QED
  BY <1>1, ExchangeInvariant, PTL

----------------------------------------------------------------------------
(* Waiting *)

\* An exhausted pool is exhausted by open transactions.
LEMMA PoolIsHeldByTransactions ==
  ASSUME ~FreeConnection
  PROVE  \E u \in TokenReqs : InTransaction(u)
<1> SUFFICES ASSUME {t \in TokenReqs : InTransaction(t)} = {} PROVE FALSE
  OBVIOUS
<1>1. Cardinality({}) = 0
  BY FS_EmptySet
<1> QED
  BY <1>1, NumbersAssumption DEF FreeConnection

\* Whoever holds a row is past its select, and waits for nothing any more.
LEMMA OwnersDoNotWait ==
  ASSUME ExchangeInv, NEW t \in TokenReqs, tok[t].pc = "select", TokenWaits(t), TypeOK
  PROVE  LET owner == rowLock[tok[t].code] IN
         owner \in TokenReqs /\ InTransaction(owner) /\ ~TokenWaits(owner)
<1>1. tok[t].code \in Codes
  BY DEF TypeOK, TokenReqsOK
<1>2. rowLock[tok[t].code] # Free /\ rowLock[tok[t].code] \in TokenReqs
  BY <1>1 DEF TokenWaits, RowLockFree, TypeOK, TablesOK
<1>3. tok[rowLock[tok[t].code]].pc \in {"client", "mark", "rollback"}
  BY <1>1, <1>2 DEF ExchangeInv, LocksAreOwned
<1> QED
  BY <1>2, <1>3 DEF InTransaction, TokenWaits

\* For any size of the pool and any number of requests, who waits is waited for
\* by an open transaction that can go on: pool and row lock never deadlock.
THEOREM NobodyDeadlocks == Spec => []NobodyWaitsInACircle
<1>1. TypeOK /\ ExchangeInv => NobodyWaitsInACircle
  <2> SUFFICES ASSUME TypeOK, ExchangeInv PROVE NobodyWaitsInACircle
    OBVIOUS
  <2>1. ASSUME NEW t \in TokenReqs, tok[t].pc = "select", TokenWaits(t)
        PROVE  \E u \in TokenReqs : InTransaction(u) /\ ~TokenWaits(u)
    BY <2>1, OwnersDoNotWait
  <2>2. ASSUME ~FreeConnection
        PROVE  \E u \in TokenReqs : InTransaction(u) /\ ~TokenWaits(u)
    <3>1. PICK u \in TokenReqs : InTransaction(u)
      BY <2>2, PoolIsHeldByTransactions
    <3>2. CASE tok[u].pc = "select" /\ TokenWaits(u)
      BY <2>1, <3>2
    <3>3. CASE ~(tok[u].pc = "select" /\ TokenWaits(u))
      BY <3>1, <3>3 DEF InTransaction, TokenWaits
    <3> QED
      BY <3>2, <3>3
  <2>3. ASSUME NEW t \in TokenReqs, TokenWaits(t)
        PROVE  \E u \in TokenReqs : InTransaction(u) /\ ~TokenWaits(u)
    BY <2>1, <2>2, <2>3 DEF TokenWaits
  <2> QED
    BY <2>2, <2>3, OwnersDoNotWait DEF NobodyWaitsInACircle, AuthorizeWaits
<1> QED
  BY <1>1, ExchangeInvariant, PTL

\* How many steps a request has before it at most.
StepsLeft(pc) ==
  CASE pc = "idle" -> 6
    [] pc = "acquire" -> 5
    [] pc = "select" -> 4
    [] pc = "client" -> 3
    [] pc = "mark" -> 2
    [] pc \in {"rollback", "reply"} -> 1
    [] OTHER -> 0

\* No step of anyone sets a request back, and each of its own steps, failures
\* included, brings it nearer to its end: no request can retry for ever.
THEOREM RequestsOnlyAdvance ==
  Spec => [][\A t \in TokenReqs : tok'[t] # tok[t] =>
               StepsLeft(tok'[t].pc) < StepsLeft(tok[t].pc)]_vars
<1>1. ASSUME TypeOK, NEW t \in TokenReqs, NEW from, NEW to, NEW result,
             TokenGoes(t, from, to, result), StepsLeft(to) < StepsLeft(from)
      PROVE  \A u \in TokenReqs : tok'[u] # tok[u] =>
               StepsLeft(tok'[u].pc) < StepsLeft(tok[u].pc)
  <2>1. /\ tok[t].pc = from /\ tok'[t].pc = to
        /\ \A u \in TokenReqs : u # t => tok'[u] = tok[u]
    BY <1>1, TokenGoesFacts DEF TypeOK
  <2> QED
    BY <1>1, <2>1
<1>2. TypeOK /\ [Next]_vars =>
        [\A t \in TokenReqs : tok'[t] # tok[t] =>
           StepsLeft(tok'[t].pc) < StepsLeft(tok[t].pc)]_vars
  <2> SUFFICES ASSUME TypeOK, [Next]_vars
               PROVE  \A t \in TokenReqs : tok'[t] # tok[t] =>
                        StepsLeft(tok'[t].pc) < StepsLeft(tok[t].pc)
    OBVIOUS
  <2>1. CASE tok' = tok
    BY <2>1
  <2>2. ASSUME NEW u \in TokenReqs, TokenStep(u) \/ TokenFail(u)
        PROVE  \A t \in TokenReqs : tok'[t] # tok[t] =>
                 StepsLeft(tok'[t].pc) < StepsLeft(tok[t].pc)
    <3>1. PICK from, to, result :
            TokenGoes(u, from, to, result) /\ StepsLeft(to) < StepsLeft(from)
      <4>1. CASE TokenAcquire(u)
        BY <4>1 DEF TokenAcquire, StepsLeft
      <4>2. CASE TokenSelectForUpdate(u)
        BY <4>2 DEF TokenSelectForUpdate, StepsLeft
      <4>3. CASE TokenCheckClient(u)
        BY <4>3 DEF TokenCheckClient, StepsLeft
      <4>4. CASE TokenCommit(u)
        BY <4>4 DEF TokenCommit, StepsLeft
      <4>5. CASE TokenRollback(u)
        BY <4>5 DEF TokenRollback, StepsLeft
      <4>6. CASE TokenReply(u)
        BY <4>6 DEF TokenReply, StepsLeft
      <4>7. CASE TokenFail(u)
        <5>1. tok[u].pc \in TokenPcs \ {"idle", "done"}
          BY <4>7 DEF TokenFail, TypeOK, TokenReqsOK, TokenReq
        <5>2. StepsLeft("done") < StepsLeft(tok[u].pc)
          BY <5>1 DEF StepsLeft, TokenPcs
        <5> QED
          BY <4>7, <5>2 DEF TokenFail
      <4> QED
        BY <2>2, <4>1, <4>2, <4>3, <4>4, <4>5, <4>6, <4>7 DEF TokenStep
    <3> QED
      BY <1>1, <3>1
  <2>3. ASSUME NEW u \in TokenReqs, NEW c \in Codes, NEW s \in Secrets, TokenBegin(u, c, s)
        PROVE  \A t \in TokenReqs : tok'[t] # tok[t] =>
                 StepsLeft(tok'[t].pc) < StepsLeft(tok[t].pc)
    <3>1. /\ tok[u].pc = "idle" /\ tok'[u].pc = "acquire"
          /\ \A t \in TokenReqs : t # u => tok'[t] = tok[t]
      BY <2>3 DEF TokenBegin, TypeOK, TokenReqsOK
    <3> QED
      BY <3>1 DEF StepsLeft
  <2> QED
    BY <2>1, <2>2, <2>3 DEF Next, vars, Quiescent, Tick, SetAppClient, AuthorizeBegin,
       AuthorizeStep, AuthorizeFetchClient, AuthorizeInsert, AuthorizeFail
<1> QED
  BY <1>2, TypeCorrect, PTL DEF Spec

\* The same of an authorization.
AuthorizeStepsLeft(pc) ==
  CASE pc = "idle" -> 3
    [] pc = "client" -> 2
    [] pc = "insert" -> 1
    [] OTHER -> 0

\* Each step of GET /authorize, failures included, brings it nearer to its answer,
\* and no other step, of a rotation or an exchange, sets it back.
THEOREM AuthorizationsOnlyAdvance ==
  Spec => [][\A a \in AuthorizeReqs : authz'[a] # authz[a] =>
               AuthorizeStepsLeft(authz'[a].pc) < AuthorizeStepsLeft(authz[a].pc)]_vars
<1> DEFINE Advance(a) == authz'[a] # authz[a] =>
             AuthorizeStepsLeft(authz'[a].pc) < AuthorizeStepsLeft(authz[a].pc)
<1>1. ASSUME TypeOK, NEW b \in AuthorizeReqs, NEW v,
             authz' = [authz EXCEPT ![b] = v],
             AuthorizeStepsLeft(v.pc) < AuthorizeStepsLeft(authz[b].pc)
      PROVE  \A a \in AuthorizeReqs : Advance(a)
  <2>1. authz'[b] = v /\ \A a \in AuthorizeReqs \ {b} : authz'[a] = authz[a]
    BY <1>1 DEF TypeOK, AuthorizeReqsOK
  <2> QED
    BY <1>1, <2>1
<1>2. TypeOK /\ [Next]_vars => [\A a \in AuthorizeReqs : Advance(a)]_vars
  <2> SUFFICES ASSUME TypeOK, [Next]_vars PROVE \A a \in AuthorizeReqs : Advance(a)
    OBVIOUS
  <2>1. CASE authz' = authz
    BY <2>1
  <2>2. ASSUME NEW b \in AuthorizeReqs,
               \/ \E session \in Sessions, app \in Apps : AuthorizeBegin(b, session, app)
               \/ AuthorizeStep(b) \/ AuthorizeFail(b)
        PROVE  \E v : /\ authz' = [authz EXCEPT ![b] = v]
                      /\ AuthorizeStepsLeft(v.pc) < AuthorizeStepsLeft(authz[b].pc)
    <3>1. authz[b] \in AuthorizeReq
      BY DEF TypeOK, AuthorizeReqsOK
    <3>2. ASSUME NEW session \in Sessions, NEW app \in Apps, AuthorizeBegin(b, session, app)
          PROVE  \E v : /\ authz' = [authz EXCEPT ![b] = v]
                        /\ AuthorizeStepsLeft(v.pc) < AuthorizeStepsLeft(authz[b].pc)
      <4> DEFINE refused == [authz[b] EXCEPT !.pc = "refused"]
                 admitted == [authz[b] EXCEPT !.pc = "client", !.session = session, !.app = app]
      <4>1. refused.pc = "refused" /\ admitted.pc = "client"
        BY <3>1 DEF AuthorizeReq
      <4>2. /\ authz' = [authz EXCEPT ![b] = refused] \/ authz' = [authz EXCEPT ![b] = admitted]
            /\ authz[b].pc = "idle"
        BY <3>2 DEF AuthorizeBegin
      <4> HIDE DEF refused, admitted
      <4>3. /\ AuthorizeStepsLeft(refused.pc) < AuthorizeStepsLeft(authz[b].pc)
            /\ AuthorizeStepsLeft(admitted.pc) < AuthorizeStepsLeft(authz[b].pc)
        BY <4>1, <4>2 DEF AuthorizeStepsLeft
      <4> QED
        BY <4>2, <4>3
    <3>3. ASSUME NEW c \in Codes, AuthorizeFetchClient(b, c)
          PROVE  \E v : /\ authz' = [authz EXCEPT ![b] = v]
                        /\ AuthorizeStepsLeft(v.pc) < AuthorizeStepsLeft(authz[b].pc)
      <4> DEFINE refused == [authz[b] EXCEPT !.pc = "refused"]
                 issued == [authz[b] EXCEPT !.pc = "insert", !.code = c, !.expira = clock + Ttl]
      <4>1. refused.pc = "refused" /\ issued.pc = "insert"
        BY <3>1 DEF AuthorizeReq
      <4>2. /\ authz' = [authz EXCEPT ![b] = refused] \/ authz' = [authz EXCEPT ![b] = issued]
            /\ authz[b].pc = "client"
        BY <3>3 DEF AuthorizeFetchClient
      <4> HIDE DEF refused, issued
      <4>3. /\ AuthorizeStepsLeft(refused.pc) < AuthorizeStepsLeft(authz[b].pc)
            /\ AuthorizeStepsLeft(issued.pc) < AuthorizeStepsLeft(authz[b].pc)
        BY <4>1, <4>2 DEF AuthorizeStepsLeft
      <4> QED
        BY <4>2, <4>3
    <3>4. CASE AuthorizeInsert(b) \/ AuthorizeFail(b)
      <4>1. PICK to \in {"redirected", "error"} : authz' = [authz EXCEPT ![b].pc = to]
        BY <3>4 DEF AuthorizeInsert, AuthorizeFail, AuthorizeGoes
      <4>2. authz[b].pc \in {"client", "insert"}
        BY <3>4 DEF AuthorizeInsert, AuthorizeFail, AuthorizeGoes
      <4> DEFINE v == [authz[b] EXCEPT !.pc = to]
      <4>3. v.pc = to /\ authz' = [authz EXCEPT ![b] = v]
        BY <3>1, <4>1 DEF AuthorizeReq
      <4> HIDE DEF v
      <4>4. AuthorizeStepsLeft(v.pc) < AuthorizeStepsLeft(authz[b].pc)
        BY <4>2, <4>3 DEF AuthorizeStepsLeft
      <4> QED
        BY <4>3, <4>4
    <3> QED
      BY <2>2, <3>2, <3>3, <3>4 DEF AuthorizeStep
  <2>3. ASSUME NEW b \in AuthorizeReqs,
               \/ \E session \in Sessions, app \in Apps : AuthorizeBegin(b, session, app)
               \/ AuthorizeStep(b) \/ AuthorizeFail(b)
        PROVE  \A a \in AuthorizeReqs : Advance(a)
    BY <1>1, <2>2, <2>3
  <2> HIDE DEF Advance
  <2> QED
    BY <2>1, <2>3 DEF Next, vars, Quiescent, Tick, SetAppClient, TokenBegin, TokenStep,
       TokenAcquire, TokenSelectForUpdate, TokenCheckClient, TokenCommit, TokenRollback,
       TokenReply, TokenFail
<1> QED
  BY <1>2, TypeCorrect, PTL DEF Spec

----------------------------------------------------------------------------
(* The flow implements OneShotCode *)

\* The abstract state: the application of each code and who spent it.
IssuedFor == [c \in Codes |-> IF authCodes[c] = NoRow THEN NoApp ELSE authCodes[c].app]
SpentBy == [c \in Codes |-> {t \in TokenReqs : tok[t].code = c /\ Committed(t)}]

\* A step that changes no row's application and commits nothing is a stutter.
LEMMA StutterStep ==
  ASSUME \A c \in Codes : authCodes'[c] = authCodes[c],
         \A t \in TokenReqs : Committed(t)' <=> Committed(t),
         \A t \in TokenReqs : Committed(t) => tok'[t].code = tok[t].code
  PROVE  IssuedFor' = IssuedFor /\ SpentBy' = SpentBy
BY DEF IssuedFor, SpentBy

\* Inserting a row issues its code.
LEMMA IssueStep ==
  ASSUME TypeOK, ExchangeInv, NEW a \in AuthorizeReqs, AuthorizeInsert(a),
         authCodes' # authCodes
  PROVE  \E c \in Codes, app \in Apps : OneShot!Issue(c, app)
<1>1. PICK c \in Codes, app \in Apps :
        authz[a].pc = "insert" /\ authz[a].code = c /\ authz[a].app = app
  BY DEF AuthorizeInsert, AuthorizeGoes, TypeOK, AuthorizeReqsOK
<1>2. authCodes[c] = NoRow /\ authCodes' = [authCodes EXCEPT ![c] = NewRow(a)] /\ tok' = tok
  BY <1>1 DEF AuthorizeInsert
<1>3. NewRow(a) # NoRow /\ NewRow(a).app = app
  <2>1. NewRow(a) \in Row
    BY <1>1 DEF NewRow, Row, TypeOK, AuthorizeReqsOK, AuthorizeReq
  <2> QED
    BY <1>1, <2>1, NullsAssumption DEF NewRow, Row
<1>4. SpentBy' = SpentBy
  BY <1>2 DEF SpentBy, Committed
<1>5. IssuedFor[c] = NoApp /\ IssuedFor' = [IssuedFor EXCEPT ![c] = app]
  BY <1>1, <1>2, <1>3 DEF IssuedFor, TypeOK, TablesOK
<1> QED
  BY <1>1, <1>4, <1>5 DEF OneShot!Issue, IssuedFor, SpentBy

\* Committing spends the code, for the first and only time.
LEMMA SpendStep ==
  ASSUME TypeOK, ExchangeInv, NEW t \in TokenReqs, TokenCommit(t)
  PROVE  \E c \in Codes : OneShot!Spend(c, t)
<1>0. PICK c \in Codes : tok[t].code = c
  BY DEF TokenCommit, TokenGoes, TypeOK, TokenReqsOK
<1>1. /\ tok[t].pc = "mark" /\ tok'[t].pc = "reply"
      /\ \A u \in TokenReqs : /\ u # t => tok'[u] = tok[u]
                              /\ tok'[u].code = tok[u].code
  BY TokenGoesFacts DEF TokenCommit, TypeOK
<1>2. authCodes[c] # NoRow /\ authCodes[c] \in Row /\ ~authCodes[c].usado
  BY <1>0, <1>1 DEF TypeOK, TokenReqsOK, TablesOK, ExchangeInv, CheckedRowHolds
<1>3. \A u \in TokenReqs : Committed(u)' <=> (Committed(u) \/ u = t)
  BY <1>1 DEF Committed
<1>4. ~Committed(t) /\ \A u \in TokenReqs : Committed(u) => tok[u].code # c
  BY <1>1, <1>2 DEF Committed, ExchangeInv, BurntIffCommitted
<1>5. IssuedFor' = IssuedFor
  <2>1. authCodes' = [authCodes EXCEPT ![c] = [authCodes[c] EXCEPT !.usado = TRUE]]
    BY <1>0 DEF TokenCommit
  <2>2. [authCodes[c] EXCEPT !.usado = TRUE] \in Row
        /\ [authCodes[c] EXCEPT !.usado = TRUE].app = authCodes[c].app
    BY <1>2 DEF Row
  <2>3. \A r : r \in Row => r # NoRow
    BY NullsAssumption DEF Row
  <2> QED
    BY <1>2, <2>1, <2>2, <2>3 DEF IssuedFor, TypeOK, TablesOK
<1>6. IssuedFor[c] # NoApp
  BY <1>2, NullsAssumption DEF IssuedFor, Row
<1>7. SpentBy[c] = {} /\ \A d \in Codes : t \notin SpentBy[d]
  BY <1>2, <1>4 DEF SpentBy
<1>8. SpentBy' = [SpentBy EXCEPT ![c] = {t}]
  <2>1. \A d \in Codes : d # c => SpentBy'[d] = SpentBy[d]
    BY <1>0, <1>1, <1>3 DEF SpentBy
  <2>2. SpentBy'[c] = {t}
    BY <1>0, <1>1, <1>2, <1>3, <1>4 DEF SpentBy
  <2> QED
    BY <2>1, <2>2, <1>2 DEF SpentBy
<1> QED
  BY <1>2, <1>5, <1>6, <1>7, <1>8 DEF OneShot!Spend, IssuedFor, SpentBy

LEMMA RefinedStep ==
  TypeOK /\ ExchangeInv /\ [Next]_vars => [OneShot!OneShotNext]_(OneShot!oneShotVars)
<1> SUFFICES ASSUME TypeOK, ExchangeInv, [Next]_vars
             PROVE  OneShot!OneShotNext \/ (IssuedFor' = IssuedFor /\ SpentBy' = SpentBy)
  BY DEF OneShot!oneShotVars, IssuedFor, SpentBy
<1>1. CASE UNCHANGED <<authCodes, tok>>
  BY <1>1 DEF IssuedFor, SpentBy, Committed
<1>2. ASSUME NEW a \in AuthorizeReqs, AuthorizeInsert(a), authCodes' # authCodes
      PROVE  OneShot!OneShotNext
  BY <1>2, IssueStep DEF OneShot!OneShotNext
<1>3. ASSUME NEW t \in TokenReqs, TokenCommit(t)
      PROVE  OneShot!OneShotNext
  BY <1>3, SpendStep DEF OneShot!OneShotNext
<1>4. ASSUME NEW t \in TokenReqs, NEW c \in Codes, NEW s \in Secrets, TokenBegin(t, c, s)
      PROVE  IssuedFor' = IssuedFor /\ SpentBy' = SpentBy
  BY <1>4, StutterStep DEF TokenBegin, TypeOK, TokenReqsOK, Committed
<1>5. ASSUME NEW t \in TokenReqs, TokenStep(t) \/ TokenFail(t), ~TokenCommit(t)
      PROVE  IssuedFor' = IssuedFor /\ SpentBy' = SpentBy
  <2>1. PICK from, to, result :
          /\ TokenGoes(t, from, to, result)
          /\ (from = "reply" /\ to = "done" /\ result \in {"tokens", "lost"})
             \/ (from \notin {"reply", "done"} /\ to # "reply"
                 /\ (to = "done" => result \notin {"tokens", "lost"}))
    <3>1. CASE TokenAcquire(t)
      BY <3>1 DEF TokenAcquire
    <3>2. CASE TokenSelectForUpdate(t)
      BY <3>2 DEF TokenSelectForUpdate
    <3>3. CASE TokenCheckClient(t)
      BY <3>3 DEF TokenCheckClient
    <3>4. CASE TokenRollback(t)
      <4>1. PICK r : r = tok[t].result
        OBVIOUS
      <4>2. TokenGoes(t, "rollback", "done", r) /\ r \notin {"tokens", "lost"}
        BY <3>4, <4>1 DEF TokenRollback, TokenGoes, ExchangeInv, RequestsInOrder
      <4> QED
        BY <4>2
    <3>5. CASE TokenReply(t)
      BY <3>5 DEF TokenReply
    <3>6. CASE TokenFail(t)
      <4> DEFINE answer == IF tok[t].pc = "reply" THEN "lost" ELSE "error"
      <4>1. TokenGoes(t, tok[t].pc, "done", answer) /\ tok[t].pc \notin {"idle", "done"}
        BY <3>6 DEF TokenFail
      <4>2. CASE tok[t].pc = "reply"
        BY <4>1, <4>2
      <4>3. CASE tok[t].pc # "reply"
        BY <4>1, <4>3
      <4> QED
        BY <4>2, <4>3
    <3> QED
      BY <1>5, <3>1, <3>2, <3>3, <3>4, <3>5, <3>6 DEF TokenStep
  <2>2. authCodes' = authCodes
    BY <1>5 DEF TokenStep, TokenAcquire, TokenSelectForUpdate, TokenCheckClient,
       TokenRollback, TokenReply, TokenFail
  <2> QED
    BY <2>1, <2>2, TokenGoesFacts, StutterStep DEF Committed, TypeOK
<1>6. ASSUME ~ \E a \in AuthorizeReqs : AuthorizeInsert(a) /\ authCodes' # authCodes,
             ~ \E t \in TokenReqs : TokenStep(t) \/ TokenFail(t),
             ~ \E t \in TokenReqs, c \in Codes, s \in Secrets : TokenBegin(t, c, s)
      PROVE  UNCHANGED <<authCodes, tok>>
  BY <1>6 DEF Next, vars, Quiescent, Tick, SetAppClient, AuthorizeBegin, AuthorizeStep,
     AuthorizeFetchClient, AuthorizeInsert, AuthorizeFail
<1> QED
  BY <1>1, <1>2, <1>3, <1>4, <1>5, <1>6

\* Seen from outside, each code is issued once and spent at most once, by one
\* exchange, in a single step: the flow implements OneShotCode.
THEOREM FlowImplementsOneShotCode == Spec => ImplementsOneShotCode
<1>1. Init => OneShot!OneShotInit
  BY DEF Init, OneShot!OneShotInit, Committed
<1> QED
  BY <1>1, RefinedStep, ExchangeInvariant, PTL
  DEF Spec, ImplementsOneShotCode, OneShot!OneShotSpec

\* What is abstractly so is so of the tables: a row keeps its application, and
\* the exchange that spent a code is never undone nor joined by another.
THEOREM SpentForGood == Spec => OneShot!NeverTakenBack
<1>1. TypeOK /\ ExchangeInv /\ [Next]_vars =>
        [\A c \in Codes :
           /\ IssuedFor[c] # NoApp => IssuedFor'[c] = IssuedFor[c]
           /\ SpentBy[c] # {} => SpentBy'[c] = SpentBy[c]]_(OneShot!oneShotVars)
  <2> SUFFICES ASSUME TypeOK, ExchangeInv, [Next]_vars, NEW c \in Codes
               PROVE  /\ IssuedFor[c] # NoApp => IssuedFor'[c] = IssuedFor[c]
                      /\ SpentBy[c] # {} => SpentBy'[c] = SpentBy[c]
    OBVIOUS
  <2>1. CASE IssuedFor' = IssuedFor /\ SpentBy' = SpentBy
    BY <2>1
  <2>2. ASSUME NEW d \in Codes, NEW app \in Apps, OneShot!Issue(d, app)
        PROVE  /\ IssuedFor[c] # NoApp => IssuedFor'[c] = IssuedFor[c]
               /\ SpentBy' = SpentBy
    <3>1. /\ IssuedFor[d] = NoApp /\ SpentBy' = SpentBy
          /\ IssuedFor' = [IssuedFor EXCEPT ![d] = app]
      BY <2>2 DEF OneShot!Issue, IssuedFor, SpentBy
    <3>2. DOMAIN IssuedFor = Codes
      BY DEF IssuedFor
    <3> QED
      BY <3>1, <3>2
  <2>3. ASSUME NEW d \in Codes, NEW x \in TokenReqs, OneShot!Spend(d, x)
        PROVE  /\ IssuedFor' = IssuedFor
               /\ SpentBy[c] # {} => SpentBy'[c] = SpentBy[c]
    <3>1. /\ SpentBy[d] = {} /\ IssuedFor' = IssuedFor
          /\ SpentBy' = [SpentBy EXCEPT ![d] = {x}]
      BY <2>3 DEF OneShot!Spend, IssuedFor, SpentBy
    <3>2. DOMAIN SpentBy = Codes
      BY DEF SpentBy
    <3> QED
      BY <3>1, <3>2
  <2>4. [OneShot!OneShotNext]_(OneShot!oneShotVars)
    BY RefinedStep
  <2>5. OneShot!OneShotNext \/ (IssuedFor' = IssuedFor /\ SpentBy' = SpentBy)
    BY <2>4 DEF OneShot!oneShotVars, IssuedFor, SpentBy
  <2> QED
    BY <2>1, <2>2, <2>3, <2>5 DEF OneShot!OneShotNext
<1>2. TypeOK /\ ExchangeInv /\ [Next]_vars => [OneShot!OneShotNext]_(OneShot!oneShotVars)
  BY RefinedStep
<1> QED
  BY <1>1, <1>2, ExchangeInvariant, PTL
  DEF Spec, OneShot!NeverTakenBack, IssuedFor, SpentBy
=============================================================================
