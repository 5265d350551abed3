\* A page, two users, nothing committed: the second logs in where the first was.
SPECIFICATION Spec
CONSTANTS
  Users = {u1, u2}
  NoUser = NoUser
  Views = {v1}
  NoView = NoView
  Sockets = {s1, s2}
  NoSocket = NoSocket
  NoData = NoData
  History = History
  MaxVersion = 0
  MaxInbox = 1
  Keys = {}
  NoKey = NoKey
  NotYet = NotYet
INVARIANT
  OneWebSocket
CHECK_DEADLOCK FALSE
