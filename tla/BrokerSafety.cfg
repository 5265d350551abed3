\* Three requests at a time, three sessions, days of two seconds.
SPECIFICATION Spec
CONSTANTS
  Workers = {w1, w2, w3}
  TicksPerSecond = 2
  Day = 2
  Cooldown = 1
  MaxLag = 1
  MaxLogins = 3
  MaxTime = 6
SYMMETRY Symmetry
INVARIANTS
  TypeOK
  EndsByMidnight
  LoggedOutStaysOut
  LogoutDisconnects
PROPERTIES
  CooldownAdmitsOne
CHECK_DEADLOCK FALSE
