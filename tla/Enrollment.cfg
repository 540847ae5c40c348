SPECIFICATION Spec
CONSTANTS
  Tokens = {t1}
  Keys = {k1, k2}
  Agents = {a1, a2}
  Serials = {s1, s2, s3}
  Handlers = {h1, h2}
  MaxUses = 2
  MaxTime = 1
  CertLife = 1
  MaxRenewals = 1
  None = None
SYMMETRY Symmetry
INVARIANTS
  TypeOK
  UsesWithinLimit
  OneIdentityPerTokenAndKey
  HandedIdentityIsRecorded
