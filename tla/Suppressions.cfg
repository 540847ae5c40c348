SPECIFICATION Spec
CONSTANTS
  People = {ann, bob}
  Ids = {i1, i2}
  MaxTime = 1
  Periods = {1}
  None = None
  Deletion = Deletion
SYMMETRY Symmetry
INVARIANTS
  TypeOK
  QuietedByApproved
  EndsWithGroup
PROPERTIES
  Lifecycle
