\* Two administrators revoke each other through the guarded route alone.
SPECIFICATION Spec
CONSTANTS
  Users = {ana, bia}
  Apps = {portal, qualidade}
  Codigos = {admin, gerente}
  AdminPapel = p0
  PapelIds = {p0, p1, p2}
  Requests = {r1, r2}
  MaxLogins = 2
  NovosPapeis <- MCNovosPapeis
  Portal = portal
  Admin = admin
  Unborn = Unborn
  Deleted = Deleted
  NoUser = NoUser
  NoPapel = NoPapel
  NoApp = NoApp
  NoCodigo = NoCodigo
  Routes = {"usuarios_revogar"}
INVARIANT
  LastAdminKept
