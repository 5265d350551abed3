\* One request at a time.
SPECIFICATION Spec
CONSTANTS
  Workers = {w1}
  TicksPerSecond = 2
  Day = 2
  RefreshLife = 2
  CutoffTTL = 2
  MaxPairs = 2
  MaxTime = 4
PROPERTIES
  LogoutAllEndsSessions
CHECK_DEADLOCK FALSE
