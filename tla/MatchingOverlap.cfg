SPECIFICATION MatchingSpec
CONSTANTS
  Hosts = {h1}
  Packages = {p}
  Contents <- TwoContents
  MaxFeeds = 1
  MaxEvents = 2
  Null = Null
CHECK_DEADLOCK FALSE
INVARIANTS
  SettledIsRight
