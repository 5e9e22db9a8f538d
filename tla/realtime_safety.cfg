CONSTANTS
  Processes = {p1, p2}
  Free = Free
  Dead = Dead
  Absent = Absent
  Prices = {1}
  MaxTs = 2
  MaxSeq = 2
  MaxSockets = 2
  MaxOpened = 2
  MaxOpens = 1
  MaxInFlight = 1
  Instruments = {i1}
  Sockets = {s1}
  NoSocket = NoSocket
  MaxSubscriptions = 1
  MaxPending = 2
  MaxQuotes = 2
  MaxMessages = 3
  MaxPolls = 1
  k1 = k1
  k2 = k2
  o1 = o1
  o2 = o2
  Requests = {r1, r2}
  Bodies <- MCBodies
  None = None
  Listed = {i1, i2}
  Traded = i1
  Price <- MCPrice
  FeePercent = 50
  UserFunds <- MCUserFunds
  SystemFunds <- MCSystemFunds
  MaxTicks = 2
  MaxChanges = 2
SPECIFICATION FairSpec
INVARIANTS NeverStranded NoQuoteMissed SettledAsRecorded
PROPERTY PanelCatchesUp
CHECK_DEADLOCK FALSE
