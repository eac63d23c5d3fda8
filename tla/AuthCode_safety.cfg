\* Two authorizations for two codes, which can collide, and two exchanges of one
\* code or of both; each client's secret can be replaced, each code expire.
SPECIFICATION Spec
CONSTANTS
  qualidade = qualidade
  vendas = vendas
  gerente = gerente
  inspetor = inspetor
  c1 = c1
  c2 = c2
  s1 = s1
  s2 = s2
  s3 = s3
  Apps = {qualidade, vendas}
  Secrets = {s1, s2}
  Sessions = {gerente, inspetor}
  Acessos <- MCAcessos
  Codes = {c1, c2}
  AuthorizeReqs = {a1, a2}
  TokenReqs = {t1, t2}
  PoolSize = 2
  Ttl = 1
  MaxTime = 1
  NoApp = NoApp
  NoSecret = NoSecret
  NoSession = NoSession
  NoCode = NoCode
  NoRow = NoRow
  Free = Free
SYMMETRY Symmetry
INVARIANTS
  TypeOK
  ExchangeInv
  AtMostOneExchange
  BurntIffCommitted
  RedeemedByItsClient
  RetiredSecretNeverRedeems
  LateRequestNeverRedeems
  TokensStayInsideAcessos
PROPERTY
  ImplementsOneShotCode
