\* Every file but the second seed; two starts again, the first of sql/0002, the
\* second of any; the administrators generate the secret of the seeded application.
SPECIFICATION Spec
CONSTANTS
  portal = portal
  qualidade = qualidade
  Migrations = {"apps_roles", "hook", "clients_codes", "seed_dev", "admin_role", "profiles"}
  Users = {joao}
  Joao = joao
  FirstAdmin = joao
  Nomes = {n1}
  Apps <- MCApps
  SeededBy <- MCSeededBy
  WithClient = {qualidade}
  Portal = portal
  Generated = {qualidade}
  Repeated <- MCRepeated
  MaxAgain = 2
  NoFile = NoFile
  NoUser = NoUser
  NoNome = NoNome
  NoProfile = NoProfile
INVARIANTS
  TypeOK
  HookKeepsAnswering
  PoliciesLostOneByOne
  ProfilesMirrorUsers
  NoRenamingMissed
  AdminsComeFromBootstrap
PROPERTY
  ReapplyingAddsOnlySeeds
