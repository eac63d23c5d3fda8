\* Two tabs, two systems; a papel can be deleted and created again under its codigo.
SPECIFICATION Spec
CONSTANTS
  ana = ana
  bia = bia
  t1 = t1
  t2 = t2
  Users = {ana, bia}
  Present = {ana}
  Apps = {qualidade, vendas}
  Codigos = {gerente, inspetor}
  PapelIds = {p1, p2}
  Tabs = {t1, t2}
  Unborn = Unborn
  Deleted = Deleted
  NoApp = NoApp
  NoCodigo = NoCodigo
  NoPapel = NoPapel
  NoUser = NoUser
SYMMETRY Symmetry
INVARIANTS
  TypeOK
  PagesInv
PROPERTIES
  LossesWereNamed
  ExistingAccountsUntouched
  SwitchesFollowThePage
