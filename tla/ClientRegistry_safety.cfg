\* Every operation, lost answers and expired cookies.
SPECIFICATION Spec
CONSTANTS
  Apps = {qualidade}
  Users = {ana}
  Uris = {u1, u2}
  Secrets = {s1, s2, s3}
  t1 = t1
  t2 = t2
  t3 = t3
  b1 = b1
  b2 = b2
  Browsers <- MCBrowsers
  Tabs <- MCTabs
  BrowserOf <- MCBrowserOf
  Operations = {"configurar", "editar", "regenerar", "criar", "redefinir_senha", "lose", "expire"}
  NoClient = NoClient
  NoSenha = NoSenha
  NoSecret = NoSecret
  NoTarget = NoTarget
  NoUri = NoUri
  NoTab = NoTab
\* With every secret drawn and every tab idle nothing is left to do.
CHECK_DEADLOCK FALSE
SYMMETRY Symmetry
INVARIANTS
  TypeOK
  DisplayedIsForgotten
  PageStaysInItsBrowser
  LoneTabShowsItsSecret
PROPERTIES
  RotationsAreAnswered
  ImplementsOneTimeReveal
  ImplementsRotatingSecrets
