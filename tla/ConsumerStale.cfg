\* Two handlers, one socket, two entries.
SPECIFICATION Spec
CONSTANTS
  Workers = {w1, w2}
  Sockets = {s1}
  MaxVersion = 2
  HistoryLimit = 1
  Capacity = 2
  MaxUnread = 1
INVARIANTS
  LastUpdateIsCurrent
SYMMETRY Symmetry
CHECK_DEADLOCK FALSE
