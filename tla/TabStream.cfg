\* Two users in turn; two pages that follow each other.
SPECIFICATION FairSpec
CONSTANTS
  Users = {u1, u2}
  NoUser = NoUser
  Views = {v1, v2}
  NoView = NoView
  Sockets = {s1, s2}
  NoSocket = NoSocket
  NoData = NoData
  History = History
  MaxVersion = 0
  MaxInbox = 1
  Keys = {}
  NoKey = NoKey
  NotYet = NotYet
INVARIANTS
  OneConnection
  NothingLeftBehind
  BadgeIsTrue
PROPERTY
  Recovers
CHECK_DEADLOCK FALSE
