\* One worker with two carriers, two requests, one restart, one expiry of a
\* Vault token, four deployments.
SPECIFICATION FairSpec
CONSTANTS
  w1 = w1
  c1 = c1
  c2 = c2
  Workers = {w1}
  Secrets <- Names
  Order <- KeyThenPassword
  HasDefault = {"DB_PASSWORD"}
  Deployments <- SomeDeployments
  MaxExpiries = 1
  MaxRestarts = 1
  Carriers = {c1, c2}
  Home <- OneHome
  NoCarrier = NoCarrier
  Requests = {r1, r2}
  NoRequest = NoRequest
  Clients = {x1, x2}
  NoClient = NoClient
  NoLine = NoLine
  MaxQueue = 1
INVARIANTS
  WorkersAgree
  SecretsComplete
  TraceIsOwn
PROPERTIES
  BootEnds
  ImplementsOnce
CHECK_DEADLOCK FALSE
