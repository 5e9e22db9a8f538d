CONSTANTS
  c1 = c1
  c2 = c2
  c3 = c3
  Commands = {c1, c2}
  Produces <- MCProduces
  Rebuilds = {r1, r2}
  Reader = "u"
  PageLimit = 1
  MaxVersions = 3
  Lists = {"trades"}
  MaxFaults = 1
  Clients = {s1, s2}
  Keyed = {s1}
  Channels = {"book", "user"}
  MaxHistory = 1
  MaxWriteBuffer = 1
  MaxConnections = 1
  MaxSubscribers = 2
  MaxSequence = 2
  MaxRequests = 2
SPECIFICATION FairSpec
INVARIANTS  CommandsProjectedWhole
PROPERTY ResyncClosesGap
 
CHECK_DEADLOCK FALSE
