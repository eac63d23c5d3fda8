\* Two papeis; the clock reaches the longest bound, that of token and cookie.
SPECIFICATION Spec
CONSTANTS
  Papeis = {gerente, analista}
  Flows = {f1}
  JwtExpiry = 2
  PortalMaxAge = 1
  QualidadeMaxAge = 1
  CodeTtl = 1
  MaxTime = 3
  NoCookie = NoCookie
SYMMETRY Symmetry
INVARIANTS
  TypeOK
  PortalLagIsBounded
  QualidadeLagIsBounded
  TileNeverDeadEnds
