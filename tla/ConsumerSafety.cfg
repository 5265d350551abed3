\* Two handlers, one socket; the history keeps one trade and the queue one message.
SPECIFICATION FairSpec
CONSTANTS
  Workers = {w1, w2}
  Sockets = {s1}
  MaxVersion = 2
  HistoryLimit = 1
  Capacity = 1
  MaxUnread = 2
INVARIANTS
  TypeOK
  OnlyOwnerIsTold
  NoGap
  HistoryComesFirst
  BroadcastsAreCommitted
PROPERTIES
  SilentSocketsEnd
CHECK_DEADLOCK FALSE
