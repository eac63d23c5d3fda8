\* No answer is lost and no cookie expires; two tabs overlap, on two systems.
SPECIFICATION Spec
CONSTANTS
  Apps = {qualidade, vendas}
  Users = {ana}
  Uris = {u1, u2}
  Secrets = {s1, s2, s3}
  t1 = t1
  t2 = t2
  t3 = t3
  b1 = b1
  b2 = b2
  Browsers <- MCBrowsers
  Tabs <- MCTabs
  BrowserOf <- MCBrowserOf
  Operations = {"configurar"}
  NoClient = NoClient
  NoSenha = NoSenha
  NoSecret = NoSecret
  NoTarget = NoTarget
  NoUri = NoUri
  NoTab = NoTab
\* With every secret drawn and every tab idle nothing is left to do.
CHECK_DEADLOCK FALSE
SYMMETRY Symmetry
INVARIANT
  NoRevealOfAnotherSystem
