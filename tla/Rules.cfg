SPECIFICATION FairSpec
CONSTANTS
  k1 = k1
  k2 = k2
  Publishers = {p1, p2}
  Keys = {k1, k2}
  SiteKey = k1
  Offline <- MCOffline
  Agents = {a1}
  MaxVersion = 2
  MaxAsks = 2
  None = None
INVARIANTS
  TypeOK
  SignedOnce
PROPERTIES
  VersionsRise
  StoredWhileTrusted
  NoKeyOnRetired
  AgentsCatchUp
CHECK_DEADLOCK FALSE
