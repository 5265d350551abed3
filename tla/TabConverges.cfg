\* Two page views in turn, two sockets, an outage, a token that expires, one
\* submission of this tab and one entry of another.
SPECIFICATION FairSpec
CONSTANTS
  Users = {u1}
  NoUser = NoUser
  Views = {v1, v2}
  NoView = NoView
  Sockets = {s1, s2}
  NoSocket = NoSocket
  NoData = NoData
  History = History
  MaxVersion = 1
  MaxInbox = 2
  Keys = {k1}
  NoKey = NoKey
  NotYet = NotYet
PROPERTIES
  Converges
  ButtonsComeBack
CHECK_DEADLOCK FALSE
