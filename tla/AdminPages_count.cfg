\* Somebody is granted the papel between the count and the confirmation.
SPECIFICATION Spec
CONSTANTS
  ana = ana
  bia = bia
  t1 = t1
  t2 = t2
  Users = {ana, bia}
  Present = {ana, bia}
  Apps = {qualidade}
  Codigos = {gerente}
  PapelIds = {p1}
  Tabs = {t1, t2}
  Unborn = Unborn
  Deleted = Deleted
  NoApp = NoApp
  NoCodigo = NoCodigo
  NoPapel = NoPapel
  NoUser = NoUser
PROPERTY
  DeletionTakesWhatItSaid
