SPECIFICATION Spec
CONSTANTS
  Keys = {a, b}
  Assignable = {a}
  Contents = {c1, c2}
  Slots = {s1, s2}
  MaxScans = 3
  MaxFaults = 1
  LateHeartbeats = TRUE
  None = None
SYMMETRY Symmetry
INVARIANTS
  TypeOK
  DigestOfRows
PROPERTIES
  MirrorSpec
