SPECIFICATION FairSpec
CONSTANTS
  Locals = {l1}
  SsoPeople = {s1}
  Browsers = {b1, b2}
  MaxPw = 1
  MaxGen = 1
  None = None
INVARIANTS
  TypeOK
  ResetEndsSignIns
PROPERTIES
  AdministratorRemains
  OneChangeWins
  RequestsEnd
