\* Three exchanges of one code through two connections: one can wait for the row
\* lock, another for a connection, while the owner of both goes on.
SPECIFICATION FairSpec
CONSTANTS
  qualidade = qualidade
  vendas = vendas
  gerente = gerente
  inspetor = inspetor
  c1 = c1
  c2 = c2
  s1 = s1
  s2 = s2
  s3 = s3
  Apps = {qualidade, vendas}
  Secrets = {s1}
  Sessions = {gerente, inspetor}
  Acessos <- MCAcessos
  Codes = {c1}
  AuthorizeReqs = {a1}
  TokenReqs = {t1, t2, t3}
  PoolSize = 2
  Ttl = 1
  MaxTime = 1
  NoApp = NoApp
  NoSecret = NoSecret
  NoSession = NoSession
  NoCode = NoCode
  NoRow = NoRow
  Free = Free
INVARIANT
  NobodyWaitsInACircle
PROPERTY
  EveryRequestEnds
