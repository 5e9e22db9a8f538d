SPECIFICATION Spec
CONSTANTS
  Accounts = {u1, u2}
  Commands = {c1, c2, c3}
  OrderIds = {x1, x2, x3}
  Prices = {1, 2}
  Quantities = {1, 2}
  TimesInForce = {"GTC"}
  NoPrice = NoPrice
  Funds = 4
  MaxCommands = 4
  MayFail = TRUE
  MayRetry = TRUE
  MayReuse = TRUE
SYMMETRY Symmetry
INVARIANT TradesAccounted
PROPERTY OnlyOwnFundsTaken
CHECK_DEADLOCK FALSE
