SPECIFICATION FairSpec
CONSTANTS
  Keys = {a, b}
  Assignable = {a}
  Contents = {c1}
  Slots = {s1, s2}
  MaxScans = 3
  MaxFaults = 2
  LateHeartbeats = FALSE
  None = None
PROPERTIES
  Converges
