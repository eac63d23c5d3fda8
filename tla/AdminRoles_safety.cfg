\* Every route, two guarded revocations at once, one papel to create.
SPECIFICATION Spec
CONSTANTS
  Users = {ana, bia}
  Apps = {portal, qualidade}
  Codigos = {admin, gerente}
  AdminPapel = p0
  PapelIds = {p0, p1}
  Requests = {r1, r2}
  MaxLogins = 2
  NovosPapeis <- MCNovosPapeis
  Portal = portal
  Admin = admin
  Unborn = Unborn
  Deleted = Deleted
  NoUser = NoUser
  NoPapel = NoPapel
  NoApp = NoApp
  NoCodigo = NoCodigo
  Routes = {"usuarios_revogar", "sistema_usuarios_revogar", "conceder", "perfis_criar", "perfis_editar", "perfis_excluir", "sistemas_criar", "ativar", "desativar"}
SYMMETRY Symmetry
INVARIANTS
  TypeOK
  TablesConsistent
  CookieKeepsItsMeaning
PROPERTIES
  LastAdminIsLostThreeWays
  LockoutIsPermanent
