\* An edit of the redirect_uri during a regeneration; the two secrets are those of
\* the first configuration and of the regeneration.
SPECIFICATION Spec
CONSTANTS
  Apps = {qualidade}
  Users = {ana}
  Uris = {u1, u2}
  Secrets = {s1, s2}
  t1 = t1
  t2 = t2
  t3 = t3
  b1 = b1
  b2 = b2
  Browsers <- MCBrowsers
  Tabs <- MCTabs
  BrowserOf <- MCBrowserOf
  Operations = {"configurar", "editar", "regenerar"}
  NoClient = NoClient
  NoSenha = NoSenha
  NoSecret = NoSecret
  NoTarget = NoTarget
  NoUri = NoUri
  NoTab = NoTab
\* With every secret drawn and every tab idle nothing is left to do.
CHECK_DEADLOCK FALSE
SYMMETRY Symmetry
PROPERTY
  RegenerarKeepsRedirects
