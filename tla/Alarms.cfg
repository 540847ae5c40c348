SPECIFICATION Spec
CONSTANTS
  Slots = {s1, s2}
  Analysts = {u1, u2}
  MaxCount = 3
  MaxTime = 2
  MaxVersion = 3
  Retention = 1
  None = None
SYMMETRY Symmetry
INVARIANTS
  TypeOK
  OneRow
  HourlyIsGrowth
PROPERTIES
  ReplacesWhatWasSeen
