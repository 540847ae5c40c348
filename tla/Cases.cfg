SPECIFICATION FairSpec
CONSTANTS
  CaseIds = {c1, c2}
  Refs = {r1}
  People = {u1}
  Jobs = {j1}
  ReopenBatch = 1
  Watch = 1
  MaxTime = 2
  MaxChanges = 2
  MaxFaults = 1
  None = None
INVARIANTS
  TypeOK
  HeldByOneCase
  ClosedIsDecided
PROPERTIES
  DueIsReopened
