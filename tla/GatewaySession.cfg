CONSTANTS
  c1 = c1
  c2 = c2
  Clients = {c1, c2}
  MaxConnections = 1
  HasTLS = TRUE
  RequireTLS = TRUE
  WaitsForClients = TRUE
SPECIFICATION FairSpec
INVARIANTS UpstreamWithinLimit StoppedMeansStopped
PROPERTIES HandshakesEnd GoodbyeEndsSession
CHECK_DEADLOCK FALSE
