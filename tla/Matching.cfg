SPECIFICATION FairMatchingSpec
CONSTANTS
  Hosts = {h1}
  Packages = {p}
  Contents <- TwoContents
  MaxFeeds = 2
  MaxEvents = 3
  Null = Null
CHECK_DEADLOCK FALSE
INVARIANTS
  MatchingTypeOK
  MarkedIsRight
PROPERTIES
  Converges
