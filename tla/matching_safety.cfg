SPECIFICATION MCSpec
CONSTANTS
  OrderIds = {x1, x2, x3, x4}
  Users = {u1, u2}
  Prices = {1, 2}
  Quantities = {1, 3}
  NoPrice = NoPrice
  MaxCommands = 4
  Instruments = {"BTC-USD"}
  Owners = {"w1", "w2"}
  NoOwner = "none"
  CommandLog <- MCCommandLog
  MaxRebuilds = 2
  Deals = {"d1", "d2"}
  Holders = {"ann", "bea"}
  Terms <- MCTerms
  Reserves <- MCReserves
  MaxRetries = 2
  Outages = {3}
  MaxEvents = 2
SYMMETRY Symmetry
VIEW View
INVARIANTS
  NotCrossed
  
  ConsumedIsSettled
PROPERTIES
  PriceTimePriority
  
CHECK_DEADLOCK FALSE
