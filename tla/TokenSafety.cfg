\* Two requests at a time, two token pairs, days of two seconds.
SPECIFICATION Spec
CONSTANTS
  Workers = {w1, w2}
  TicksPerSecond = 2
  Day = 2
  RefreshLife = 2
  CutoffTTL = 2
  MaxPairs = 2
  MaxTime = 4
SYMMETRY Symmetry
INVARIANTS
  TypeOK
  DenialOutlivesToken
PROPERTIES
  RevokedIsRefused
  CutoffOutlivesTokens
CHECK_DEADLOCK FALSE
